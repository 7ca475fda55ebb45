---------------------------- MODULE BTreeProofs ----------------------------
(***************************************************************************)
(* Theorems about BTree for every set of keys and all capacities of nodes, *)
(* as long as the tree has at most three levels (ThreeLevels).  With four  *)
(* a split may lose a parent id (run btree_deep), and nothing that climbs  *)
(* by parent ids is right any more.                                        *)
(*                                                                         *)
(* The invariant says how the nodes hang together (Shape), that every key  *)
(* lies where the separators lead a search for it (Order), and that the    *)
(* next ids thread all leaves in the order in which the separators share   *)
(* out the keys (Threaded).  In the middle of an insert one node, fresh    *)
(* from a split, is not in the tree yet: the predicates have it as a       *)
(* parameter, and Woven is Threaded for the search that knows of it.       *)
(***************************************************************************)
EXTENDS BTree, TLAPS, SequenceTheorems, FiniteSetTheorems, WellFoundedInduction

\* Children of the root rt that are internal nodes have leaves below them.
Flat(ns, rt) ==
    ~ns[rt].leaf => \A i \in 1 .. Len(ns[rt].refs) : LET c == ns[rt].refs[i] IN
        ~ns[c].leaf => \A j \in 1 .. Len(ns[c].refs) : ns[ns[c].refs[j]].leaf

ThreeLevels == Flat(nodes, root)

-----------------------------------------------------------------------------
(* The invariant.                                                          *)

NodeSet == [leaf : BOOLEAN, keys : Seq(Int), refs : Seq(Nat), parent : Nat, next : Nat]

Sorted(keys) == \A i, j \in 1 .. Len(keys) : i < j => keys[i] < keys[j]

Distinct(refs) == \A i, j \in 1 .. Len(refs) : refs[i] = refs[j] => i = j

InSeq(seq, x) == \E i \in 1 .. Len(seq) : seq[i] = x

\* A leaf's entries are what was inserted.
LeafOK(n) ==
    /\ Len(n.refs) = Len(n.keys) /\ Len(n.keys) <= LEAF_MAX_ENTRIES
    /\ \A j \in 1 .. Len(n.keys) : n.keys[j] \in Keys /\ n.refs[j] = RidOf[n.keys[j]]

InnerOK(n) ==
    /\ Len(n.keys) \in 1 .. INTERNAL_MAX_KEYS
    /\ Len(n.refs) = Len(n.keys) + 1
    /\ Distinct(n.refs)

NodeOK(n, len) ==
    /\ n \in NodeSet
    /\ n.next \in 0 .. len /\ n.parent \in 0 .. len
    /\ Sorted(n.keys)
    /\ n.leaf => LeafOK(n)
    /\ ~n.leaf => InnerOK(n)

\* The i-th child of p is in the tree and knows it.  Children are all leaves or
\* all internal nodes, and the latter only below the root rt.
ChildOK(ns, rt, d, p, i) ==
    LET c == ns[p].refs[i]
    IN  /\ c \in 1 .. Len(ns) /\ c # d
        /\ ns[c].parent = p
        /\ p # rt => ns[c].leaf
        /\ ns[c].leaf = ns[ns[p].refs[1]].leaf

\* The parent of p is an internal node that has p as a child.
ParentOK(ns, p) ==
    /\ ns[p].parent # 0
    /\ ~ns[ns[p].parent].leaf
    /\ InSeq(ns[ns[p].parent].refs, p)

\* The nodes ns make a tree with root rt, but for the node d, which no node has
\* as a child; d is 0 when there is none.
Shape(ns, rt, d) ==
    /\ Len(ns) \in Nat
    /\ ns = [p \in 1 .. Len(ns) |-> ns[p]]
    /\ rt \in 1 .. Len(ns) /\ rt # d
    /\ ns[rt].parent = 0
    /\ \A p \in 1 .. Len(ns) : NodeOK(ns[p], Len(ns))
    /\ \A p \in 1 .. Len(ns) : ~ns[p].leaf =>
           \A i \in 1 .. Len(ns[p].refs) : ChildOK(ns, rt, d, p, i)
    /\ \A p \in 1 .. Len(ns) : p # rt /\ p # d => ParentOK(ns, p)

\* The i-th child is the one to follow for k.
Slot(keys, k, i) ==
    /\ \A j \in 1 .. i - 1 : keys[j] <= k
    /\ \A j \in i .. Len(keys) : k < keys[j]

\* k is a key of p or of a child of p.
Below(ns, p, k) ==
    \/ InSeq(ns[p].keys, k)
    \/ ~ns[p].leaf /\ \E i \in 1 .. Len(ns[p].refs) : InSeq(ns[ns[p].refs[i]].keys, k)

OrderAt(ns, p) ==
    \A i \in 1 .. Len(ns[p].refs) : \A k \in Int :
        Below(ns, ns[p].refs[i], k) => Slot(ns[p].keys, k, i)

\* Every key lies where its parent and its parent's parent lead to.
Order(ns) == \A p \in 1 .. Len(ns) : ~ns[p].leaf => OrderAt(ns, p)

\* The parent of c leads to c for k.
Up(ns, c, k) ==
    \A i \in 1 .. Len(ns[ns[c].parent].refs) :
        ns[ns[c].parent].refs[i] = c => Slot(ns[ns[c].parent].keys, k, i)

\* The separators lead to the leaf q for k.
Path(ns, rt, k, q) ==
    /\ q \in 1 .. Len(ns) /\ ns[q].leaf
    /\ q # rt => /\ Up(ns, q, k)
                 /\ ns[q].parent # rt => Up(ns, ns[q].parent, k)

\* s lists the leaves in the order of their next ids, and misses none.
Chain(ns, s) ==
    /\ s \in Seq(Nat) /\ Len(s) \in Nat /\ Len(s) # 0 /\ Distinct(s)
    /\ \A i \in 1 .. Len(s) :
           /\ s[i] \in 1 .. Len(ns) /\ ns[s[i]].leaf
           /\ ns[s[i]].next = IF i < Len(s) THEN s[i + 1] ELSE 0
    /\ \A p \in 1 .. Len(ns) : IF ns[p].leaf THEN InSeq(s, p) ELSE ns[p].next = 0

\* Leaves further on in the chain are for larger keys.
Threaded(ns, rt) ==
    \E s : /\ Chain(ns, s)
           /\ \A i, j \in 1 .. Len(s) : \A x, y \in Int :
                  i < j /\ Path(ns, rt, x, s[i]) /\ Path(ns, rt, y, s[j]) => x < y

IInv ==
    /\ Shape(nodes, root, 0) /\ Order(nodes) /\ Threaded(nodes, root)
    /\ Len(nodes) <= MaxPages

-----------------------------------------------------------------------------
(* Numbers and sequences.                                                  *)

LEMMA Capacities ==
  /\ LEAF_MAX_ENTRIES \in Nat /\ LEAF_MAX_ENTRIES >= 2
  /\ INTERNAL_MAX_KEYS \in Nat /\ INTERNAL_MAX_KEYS >= 2
  /\ MaxPages \in Nat
  /\ Keys \subseteq Int
  /\ \A k \in Keys : RidOf[k] \in Nat /\ RidOf[k] # 0
BY TreeAssumption

\* A set of numbers has a least one: this stands in for induction.
LEMMA LeastNat ==
  ASSUME NEW T \in SUBSET Nat, T # {}
  PROVE  \E x \in T : \A y \in T : x <= y
<1>1. IsWellFoundedOn({ss \in Nat \X Nat : ss[1] < ss[2]}, Nat)
  BY NatLessThanWellFounded DEF OpToRel
<1>2. PICK x \in T : \A y \in T : ~(<<y, x>> \in {ss \in Nat \X Nat : ss[1] < ss[2]})
  BY WFMin, <1>1
<1>3. \A y \in T : ~(y < x)
  BY <1>2
<1> QED BY <1>3

\* A part of a sequence.
LEMMA PartFacts ==
  ASSUME NEW S, NEW a \in Seq(S), NEW m \in 1 .. Len(a) + 1, NEW n \in 0 .. Len(a), m <= n + 1
  PROVE  /\ SubSeq(a, m, n) \in Seq(S) /\ Len(SubSeq(a, m, n)) = n - m + 1
         /\ \A j \in 1 .. n - m + 1 : SubSeq(a, m, n)[j] = a[m + j - 1]
<1>1. \A j \in m .. n : a[j] \in S
  OBVIOUS
<1>2. m \in Int /\ n \in Int
  OBVIOUS
<1> QED BY <1>1, <1>2, SubSeqProperties

Join(c, a, b) ==
    /\ c = a \o b /\ Len(c) = Len(a) + Len(b)
    /\ \A j \in 1 .. Len(a) : c[j] = a[j]
    /\ \A j \in 1 .. Len(b) : c[j + Len(a)] = b[j]

LEMMA JoinFacts ==
  ASSUME NEW S, NEW a \in Seq(S), NEW b \in Seq(S)
  PROVE  \E c \in Seq(S) : Join(c, a, b)
<1> DEFINE c == a \o b
<1>1. /\ c \in Seq(S) /\ Len(c) = Len(a) + Len(b)
      /\ \A j \in 1 .. Len(a) + Len(b) : c[j] = IF j <= Len(a) THEN a[j] ELSE b[j - Len(a)]
  BY ConcatProperties
<1>2. c = a \o b
  OBVIOUS
<1> HIDE DEF c
<1>3. \A j \in 1 .. Len(a) : c[j] = a[j]
  BY <1>1
<1>4. ASSUME NEW j \in 1 .. Len(b) PROVE c[j + Len(a)] = b[j]
  <2>1. j + Len(a) \in 1 .. Len(a) + Len(b) /\ ~(j + Len(a) <= Len(a)) /\ j + Len(a) - Len(a) = j
    OBVIOUS
  <2> QED BY <2>1, <1>1
<1> QED BY <1>1, <1>2, <1>3, <1>4 DEF Join

\* b is the sequence a with e put in at i.
With(b, a, i, e) ==
    /\ Len(b) = Len(a) + 1
    /\ \A j \in 1 .. i - 1 : b[j] = a[j]
    /\ b[i] = e
    /\ \A j \in i .. Len(a) : b[j + 1] = a[j]

LEMMA InsertAtFacts ==
  ASSUME NEW S, NEW a \in Seq(S), NEW e \in S, NEW i \in 1 .. Len(a) + 1
  PROVE  InsertAt(a, i, e) \in Seq(S) /\ With(InsertAt(a, i, e), a, i, e)
<1> DEFINE x == SubSeq(a, 1, i - 1)
           y == <<e>>
           z == SubSeq(a, i, Len(a))
<1>0. Len(a) \in Nat /\ i - 1 \in Int /\ i \in Int
  OBVIOUS
<1>1. x \in Seq(S) /\ Len(x) = i - 1 /\ \A j \in 1 .. i - 1 : x[j] = a[j]
  BY PartFacts
<1>2. z \in Seq(S) /\ Len(z) = Len(a) - i + 1 /\ \A j \in 1 .. Len(a) - i + 1 : z[j] = a[i + j - 1]
  BY PartFacts
<1>3. y \in Seq(S) /\ Len(y) = 1 /\ y[1] = e
  OBVIOUS
<1>4. InsertAt(a, i, e) = (x \o y) \o z
  BY DEF InsertAt
<1> HIDE DEF x, y, z
<1>5. PICK u \in Seq(S) : Join(u, x, y)
  BY ONLY <1>1, <1>3, JoinFacts
<1>6. PICK b \in Seq(S) : Join(b, u, z)
  BY ONLY <1>5, <1>2, JoinFacts
<1>7. Len(u) = i /\ Len(b) = Len(a) + 1
  BY <1>6, <1>5, <1>1, <1>2, <1>3 DEF Join
<1>8. \A j \in 1 .. i - 1 : b[j] = a[j]
  BY <1>7, <1>6, <1>5, <1>1, SMTT(30) DEF Join
<1>9. b[i] = e
  <2>1. u[1 + Len(x)] = y[1] /\ 1 + Len(x) = i
    BY <1>5, <1>3, <1>1 DEF Join
  <2> QED BY <2>1, <1>7, <1>6, <1>3 DEF Join
<1>10. ASSUME NEW j \in i .. Len(a) PROVE b[j + 1] = a[j]
  <2>1. j + 1 - i \in 1 .. Len(z) /\ j + 1 - i + Len(u) = j + 1 /\ i + (j + 1 - i) - 1 = j
    BY <1>7, <1>2
  <2>2. b[j + 1] = z[j + 1 - i]
    BY <2>1, <1>6 DEF Join
  <2> QED BY <2>1, <2>2, <1>2
<1>11. InsertAt(a, i, e) = b
  BY <1>4, <1>5, <1>6 DEF Join
<1> QED BY <1>11, <1>6, <1>7, <1>8, <1>9, <1>10 DEF With

LEMMA RemoveAtFacts ==
  ASSUME NEW S, NEW a \in Seq(S), NEW i \in 1 .. Len(a)
  PROVE  RemoveAt(a, i) \in Seq(S) /\ With(a, RemoveAt(a, i), i, a[i])
<1> DEFINE x == SubSeq(a, 1, i - 1)
           z == SubSeq(a, i + 1, Len(a))
<1>0. Len(a) \in Nat /\ i - 1 \in Int /\ i + 1 \in Int
  OBVIOUS
<1>1. x \in Seq(S) /\ Len(x) = i - 1 /\ \A j \in 1 .. i - 1 : x[j] = a[j]
  BY PartFacts
<1>2. z \in Seq(S) /\ Len(z) = Len(a) - i /\ \A j \in 1 .. Len(a) - i : z[j] = a[i + j]
  BY PartFacts
<1>4. RemoveAt(a, i) = x \o z
  BY DEF RemoveAt
<1> HIDE DEF x, z
<1>6. PICK b \in Seq(S) : Join(b, x, z)
  BY ONLY <1>1, <1>2, JoinFacts
<1>7. Len(b) = Len(a) - 1
  BY <1>6, <1>1, <1>2 DEF Join
<1>8. \A j \in 1 .. i - 1 : a[j] = b[j]
  BY <1>6, <1>1 DEF Join
<1>9. ASSUME NEW j \in i .. Len(b) PROVE a[j + 1] = b[j]
  <2>1. j - (i - 1) \in 1 .. Len(z) /\ j - (i - 1) + Len(x) = j /\ i + (j - (i - 1)) = j + 1
    BY <1>7, <1>1, <1>2
  <2>2. b[j] = z[j - (i - 1)]
    BY <2>1, <1>6 DEF Join
  <2> QED BY <2>1, <2>2, <1>2
<1> QED BY <1>4, <1>6, <1>7, <1>8, <1>9 DEF With, Join

-----------------------------------------------------------------------------
(* Keys in order.                                                          *)

\* n keys are below k.
LowerBound(keys, k, n) ==
    /\ n \in 0 .. Len(keys)
    /\ \A j \in 1 .. n : keys[j] < k
    /\ \A j \in n + 1 .. Len(keys) : k <= keys[j]

\* There is a place for k among keys in order.
LEMMA LowerBoundExists ==
  ASSUME NEW keys \in Seq(Int), Sorted(keys), NEW k \in Int
  PROVE  \E n \in 0 .. Len(keys) : LowerBound(keys, k, n)
<1> DEFINE T == {n \in 0 .. Len(keys) : \A j \in n + 1 .. Len(keys) : k <= keys[j]}
<1>1. T \in SUBSET Nat /\ Len(keys) \in T
  OBVIOUS
<1>2. PICK n \in T : \A y \in T : n <= y
  <2> HIDE DEF T
  <2> QED BY <1>1, LeastNat
<1>3. n \in 0 .. Len(keys) /\ \A j \in n + 1 .. Len(keys) : k <= keys[j]
  OBVIOUS
<1>4. CASE n = 0
  BY <1>3, <1>4 DEF LowerBound
<1>5. CASE n # 0
  <2>1. n - 1 \in 0 .. Len(keys) /\ n - 1 \notin T
    <3>1. n - 1 \in 0 .. Len(keys) /\ ~(n <= n - 1)
      BY <1>3, <1>5
    <3> HIDE DEF T
    <3> QED BY <3>1, <1>2
  <2>2. PICK j \in (n - 1) + 1 .. Len(keys) : ~(k <= keys[j])
    BY <2>1
  <2>3. j = n
    BY <2>2, <1>3
  <2>4. keys[n] < k /\ n \in 1 .. Len(keys)
    <3>1. n \in 1 .. Len(keys)
      BY <2>2, <2>3, <1>3, <1>5
    <3>2. keys[n] \in Int
      BY <3>1
    <3> QED BY <3>1, <3>2, <2>2, <2>3
  <2>5. ASSUME NEW m \in 1 .. n PROVE keys[m] < k
    <3>1. m \in 1 .. Len(keys) /\ keys[m] \in Int /\ keys[n] \in Int
      BY <2>4
    <3>2. m < n => keys[m] < keys[n]
      BY <3>1, <2>4 DEF Sorted
    <3> QED BY <3>1, <3>2, <2>4
  <2> QED BY <2>5, <1>3 DEF LowerBound
<1> QED BY <1>4, <1>5

LEMMA LowerBoundUnique ==
  ASSUME NEW keys \in Seq(Int), NEW k \in Int, NEW m, NEW n,
         LowerBound(keys, k, m), LowerBound(keys, k, n)
  PROVE  m = n
<1>1. Len(keys) \in Nat /\ m \in 0 .. Len(keys) /\ n \in 0 .. Len(keys)
  BY DEF LowerBound
<1>2. CASE m < n
  <2>1. m + 1 \in 1 .. n /\ m + 1 \in m + 1 .. Len(keys) /\ keys[m + 1] \in Int
    BY <1>1, <1>2
  <2> QED BY <2>1 DEF LowerBound
<1>3. CASE n < m
  <2>1. n + 1 \in 1 .. m /\ n + 1 \in n + 1 .. Len(keys) /\ keys[n + 1] \in Int
    BY <1>1, <1>3
  <2> QED BY <2>1 DEF LowerBound
<1> QED BY <1>1, <1>2, <1>3

\* The recursion of KeyIndex.
FindBody(f, keys, k, r) ==
    IF r[1] >= r[2] THEN r[1]
    ELSE IF keys[r[1] + (r[2] - r[1]) \div 2 + 1] < k
         THEN f[<<r[1] + (r[2] - r[1]) \div 2 + 1, r[2]>>]
         ELSE f[<<r[1], r[1] + (r[2] - r[1]) \div 2>>]

IsFind(f, keys, k) ==
    f = [r \in (0 .. Len(keys)) \X (0 .. Len(keys)) |-> FindBody(f, keys, k, r)]

LEMMA Middle ==
  ASSUME NEW lo \in Nat, NEW hi \in Nat, lo < hi
  PROVE  lo + (hi - lo) \div 2 \in Nat /\ lo <= lo + (hi - lo) \div 2 /\ lo + (hi - lo) \div 2 < hi
<1>1. hi - lo \in Nat /\ hi - lo >= 1
  OBVIOUS
<1>2. (hi - lo) \div 2 \in Nat /\ (hi - lo) \div 2 < hi - lo
  BY <1>1
<1> DEFINE q == (hi - lo) \div 2
<1> HIDE DEF q
<1>3. q \in Nat /\ q < hi - lo
  BY <1>2 DEF q
<1>4. lo + q \in Nat /\ lo <= lo + q /\ lo + q < hi
  BY <1>3
<1> QED BY <1>4 DEF q

\* A function that gives the place if it lies in the range, and otherwise the
\* end of the range nearest to it, solves the recursion.
LEMMA FindExists ==
  ASSUME NEW keys \in Seq(Int), Sorted(keys), NEW k \in Int
  PROVE  \E f : IsFind(f, keys, k)
<1>0. PICK n \in 0 .. Len(keys) : LowerBound(keys, k, n)
  BY LowerBoundExists
<1> DEFINE R == (0 .. Len(keys)) \X (0 .. Len(keys))
           near(lo, hi) == IF lo >= hi THEN lo ELSE IF n < lo THEN lo ELSE IF n > hi THEN hi ELSE n
           f == [r \in R |-> near(r[1], r[2])]
<1>1. ASSUME NEW r \in R PROVE f[r] = FindBody(f, keys, k, r)
  <2> DEFINE lo == r[1]
             hi == r[2]
  <2>1. lo \in 0 .. Len(keys) /\ hi \in 0 .. Len(keys) /\ Len(keys) \in Nat
    OBVIOUS
  <2>2. f[r] = near(lo, hi)
    OBVIOUS
  <2>3. \A x, y \in 0 .. Len(keys) : f[<<x, y>>] = near(x, y)
    OBVIOUS
  <2>4. CASE lo >= hi
    BY <2>4, <2>2 DEF FindBody
  <2>5. CASE ~(lo >= hi)
    <3> DEFINE mid == lo + (hi - lo) \div 2
    <3>1. mid \in Nat /\ lo <= mid /\ mid < hi
      BY <2>1, <2>5, Middle
    <3>2. FindBody(f, keys, k, r) = IF keys[mid + 1] < k THEN f[<<mid + 1, hi>>] ELSE f[<<lo, mid>>]
      BY <2>5 DEF FindBody
    <3> HIDE DEF mid, f, lo, hi
    <3>3. mid \in 0 .. Len(keys) /\ mid + 1 \in 1 .. Len(keys)
      BY <3>1, <2>1
    <3>4. f[<<mid + 1, hi>>] = near(mid + 1, hi) /\ f[<<lo, mid>>] = near(lo, mid)
      BY <3>3, <2>1, <2>3
    <3>5. keys[mid + 1] < k => mid + 1 <= n
      BY <3>3, <1>0 DEF LowerBound
    <3>6. ~(keys[mid + 1] < k) => n <= mid
      BY <3>3, <1>0 DEF LowerBound
    <3>7. near(lo, hi) = IF keys[mid + 1] < k THEN near(mid + 1, hi) ELSE near(lo, mid)
      BY <3>5, <3>6, <3>1, <2>1, <2>5, <1>0
    <3> QED BY <3>2, <3>4, <3>7, <2>2
  <2> QED BY <2>4, <2>5
<1>2. f = [r \in R |-> FindBody(f, keys, k, r)]
  <2> HIDE DEF near
  <2>1. f = [r \in R |-> f[r]]
    OBVIOUS
  <2> HIDE DEF f, R
  <2> QED BY <1>1, <2>1
<1> HIDE DEF f
<1>3. IsFind(f, keys, k)
  BY <1>2 DEF IsFind
<1> QED BY <1>3

\* Binary search finds the place.
LEMMA KeyIndexFacts ==
  ASSUME NEW keys \in Seq(Int), Sorted(keys), NEW k \in Int
  PROVE  LowerBound(keys, k, KeyIndex(keys, k))
<1> DEFINE f == CHOOSE g : IsFind(g, keys, k)
           len == Len(keys)
<1>1. IsFind(f, keys, k)
  BY FindExists
<1>2. KeyIndex(keys, k) = f[<<0, len>>]
  BY DEF KeyIndex, IsFind, FindBody
<1> HIDE DEF f
<1>3. \A r \in (0 .. len) \X (0 .. len) : f[r] = FindBody(f, keys, k, r)
  <2>1. f = [r \in (0 .. Len(keys)) \X (0 .. Len(keys)) |-> FindBody(f, keys, k, r)]
    BY <1>1 DEF IsFind
  <2> QED BY <2>1
<1>0. len \in Nat
  OBVIOUS
<1> DEFINE Safe(lo, hi) == /\ \A j \in 1 .. lo : keys[j] < k
                           /\ \A j \in hi + 1 .. len : k <= keys[j]
           T == {d \in 0 .. len : \E lo \in 0 .. len : lo + d <= len /\ Safe(lo, lo + d)
                                       /\ ~LowerBound(keys, k, f[<<lo, lo + d>>])}
<1>4. T = {}
  <2>1. SUFFICES ASSUME T # {} PROVE FALSE
    OBVIOUS
  <2>2. T \in SUBSET Nat
    OBVIOUS
  <2>3. PICK d \in T : \A y \in T : d <= y
    <3> HIDE DEF T
    <3> QED BY <2>1, <2>2, LeastNat
  <2>4. PICK lo \in 0 .. len : lo + d <= len /\ Safe(lo, lo + d)
                                /\ ~LowerBound(keys, k, f[<<lo, lo + d>>])
    BY <2>3
  <2> DEFINE hi == lo + d
             mid == lo + (hi - lo) \div 2
  <2>5. hi \in 0 .. len /\ lo <= hi /\ d \in Nat /\ hi - lo = d
    BY <2>3, <2>4
  <2>6. f[<<lo, hi>>] = FindBody(f, keys, k, <<lo, hi>>) /\ <<lo, hi>>[1] = lo /\ <<lo, hi>>[2] = hi
    <3> HIDE DEF hi
    <3>1. <<lo, hi>> \in (0 .. len) \X (0 .. len)
      BY <2>5
    <3> QED BY <3>1, <1>3
  <2>7. CASE lo >= hi
    <3>1. f[<<lo, hi>>] = lo /\ hi = lo
      BY <2>6, <2>7, <2>5 DEF FindBody
    <3> QED BY <3>1, <2>4, <2>5 DEF LowerBound
  <2>8. CASE ~(lo >= hi)
    <3> HIDE DEF hi
    <3>0. lo < hi
      BY <2>5, <2>8
    <3>1. mid \in Nat /\ lo <= mid /\ mid < hi
      BY <2>5, <3>0, Middle
    <3>2. f[<<lo, hi>>] = IF keys[mid + 1] < k THEN f[<<mid + 1, hi>>] ELSE f[<<lo, mid>>]
      BY <2>6, <2>8 DEF FindBody
    <3> HIDE DEF mid
    <3>3. mid + 1 \in 1 .. len /\ mid \in 0 .. len /\ keys[mid + 1] \in Int
      BY <3>1, <2>5
    <3>s. Safe(lo, hi) /\ ~LowerBound(keys, k, f[<<lo, hi>>])
      BY <2>4 DEF hi
    <3>4. CASE keys[mid + 1] < k
      <4> DEFINE e == hi - (mid + 1)
      <4>1. e \in 0 .. len /\ mid + 1 + e = hi /\ ~(d <= e)
        BY <3>1, <2>5
      <4>2. e \notin T
        <5> HIDE DEF T, e
        <5> QED BY <4>1, <2>3
      <4>3. Safe(mid + 1, hi)
        <5>1. ASSUME NEW j \in 1 .. mid + 1 PROVE keys[j] < k
          <6>1. j \in 1 .. len /\ keys[j] \in Int /\ (j < mid + 1 => keys[j] < keys[mid + 1])
            BY <3>3 DEF Sorted
          <6> QED BY <6>1, <3>3, <3>4
        <5> QED BY <5>1, <3>s
      <4> HIDE DEF e, Safe
      <4>4. mid + 1 \in 0 .. len /\ mid + 1 + e <= len /\ Safe(mid + 1, mid + 1 + e)
        <5>1. Safe(mid + 1, mid + 1 + e)
          BY <4>1, <4>3
        <5>2. mid + 1 \in 0 .. len /\ hi <= len
          BY <3>3, <2>5
        <5> QED BY <5>1, <5>2, <4>1
      <4>5. LowerBound(keys, k, f[<<mid + 1, mid + 1 + e>>])
        BY <4>2, <4>1, <4>4
      <4>6. LowerBound(keys, k, f[<<mid + 1, hi>>])
        BY <4>5, <4>1
      <4> QED BY <4>6, <3>2, <3>4, <3>s
    <3>5. CASE ~(keys[mid + 1] < k)
      <4> DEFINE e == mid - lo
      <4>1. e \in 0 .. len /\ lo + e = mid /\ ~(d <= e)
        BY <3>1, <2>5
      <4>2. e \notin T
        <5> HIDE DEF T, e
        <5> QED BY <4>1, <2>3
      <4>3. Safe(lo, mid)
        <5>1. ASSUME NEW j \in mid + 1 .. len PROVE k <= keys[j]
          <6>1. j \in 1 .. len /\ keys[j] \in Int /\ (mid + 1 < j => keys[mid + 1] < keys[j])
            BY <3>3 DEF Sorted
          <6> QED BY <6>1, <3>3, <3>5
        <5> QED BY <5>1, <3>s
      <4> HIDE DEF e, Safe
      <4>4. lo + e <= len /\ Safe(lo, lo + e)
        BY <4>1, <4>3, <3>3, SMTT(30)
      <4>5. LowerBound(keys, k, f[<<lo, lo + e>>])
        BY <4>2, <4>1, <4>4
      <4>6. LowerBound(keys, k, f[<<lo, mid>>])
        BY <4>5, <4>1
      <4> QED BY <4>6, <3>2, <3>5, <3>s
    <3> QED BY <3>4, <3>5
  <2> QED BY <2>7, <2>8
<1>5. Safe(0, 0 + len) /\ 0 \in 0 .. len /\ len \in 0 .. len /\ 0 + len <= len /\ 0 + len = len
  BY <1>0
<1>6. LowerBound(keys, k, f[<<0, 0 + len>>])
  <2> HIDE DEF Safe, len
  <2>1. len \notin T
    BY <1>4
  <2> QED BY <2>1, <1>5
<1> QED BY <1>2, <1>5, <1>6

LEMMA SlotExists ==
  ASSUME NEW keys \in Seq(Int), Sorted(keys), NEW k \in Int
  PROVE  \E i \in 1 .. Len(keys) + 1 : Slot(keys, k, i)
<1>1. k + 1 \in Int
  OBVIOUS
<1>2. PICK n \in 0 .. Len(keys) : LowerBound(keys, k + 1, n)
  BY <1>1, LowerBoundExists
<1>3. n + 1 \in 1 .. Len(keys) + 1
  OBVIOUS
<1>4. ASSUME NEW j \in 1 .. (n + 1) - 1 PROVE keys[j] <= k
  <2>1. j \in 1 .. n /\ j \in 1 .. Len(keys)
    OBVIOUS
  <2>2. keys[j] < k + 1 /\ keys[j] \in Int
    BY <2>1, <1>2 DEF LowerBound
  <2> QED BY <2>2
<1>5. ASSUME NEW j \in n + 1 .. Len(keys) PROVE k < keys[j]
  <2>1. j \in 1 .. Len(keys)
    OBVIOUS
  <2>2. k + 1 <= keys[j] /\ keys[j] \in Int
    BY <2>1, <1>2 DEF LowerBound
  <2> QED BY <2>2
<1>6. Slot(keys, k, n + 1)
  BY <1>4, <1>5 DEF Slot
<1> QED BY <1>3, <1>6

LEMMA SlotUnique ==
  ASSUME NEW keys \in Seq(Int), NEW k \in Int,
         NEW i \in 1 .. Len(keys) + 1, NEW m \in 1 .. Len(keys) + 1,
         Slot(keys, k, i), Slot(keys, k, m)
  PROVE  i = m
<1>1. CASE i < m
  <2>1. i \in 1 .. m - 1 /\ i \in i .. Len(keys) /\ keys[i] \in Int
    BY <1>1
  <2> QED BY <2>1 DEF Slot
<1>2. CASE m < i
  <2>1. m \in 1 .. i - 1 /\ m \in m .. Len(keys) /\ keys[m] \in Int
    BY <1>2
  <2> QED BY <2>1 DEF Slot
<1> QED BY <1>1, <1>2

\* The recursion of LookupChild.
IsSkip(f, keys, k) ==
    f = [i \in 0 .. Len(keys) |->
            IF i < Len(keys) /\ k >= keys[i + 1] THEN f[i + 1] ELSE i]

\* LookupChild follows the child whose slot it is.
LEMMA LookupChildFacts ==
  ASSUME NEW n, n.keys \in Seq(Int), Sorted(n.keys), NEW k \in Int,
         NEW i \in 1 .. Len(n.keys) + 1, Slot(n.keys, k, i)
  PROVE  LookupChild(n, k) = n.refs[i]
<1> DEFINE keys == n.keys
           len == Len(keys)
           c == i - 1
           w == [j \in 0 .. len |-> IF j < c THEN c ELSE j]
           f == CHOOSE g : IsSkip(g, keys, k)
<1>0. len \in Nat /\ c \in 0 .. len /\ \A j \in 1 .. len : keys[j] \in Int
  OBVIOUS
<1>1. LookupChild(n, k) = n.refs[f[0] + 1]
  BY DEF LookupChild, IsSkip
<1>2. \A j \in 0 .. len : j < c => j < len /\ k >= keys[j + 1]
  BY <1>0 DEF Slot
<1>3. \A j \in 0 .. len : ~(j < c) => ~(j < len /\ k >= keys[j + 1])
  <2>1. SUFFICES ASSUME NEW j \in 0 .. len, ~(j < c), j < len, k >= keys[j + 1]
                 PROVE  FALSE
    OBVIOUS
  <2>2. j + 1 \in i .. len /\ j + 1 \in 1 .. len
    BY <2>1
  <2>3. k < keys[j + 1] /\ keys[j + 1] \in Int
    BY <2>2, <1>0 DEF Slot
  <2> QED BY <2>1, <2>3
<1> HIDE DEF len
<1>4. IsSkip(w, keys, k)
  <2>1. ASSUME NEW j \in 0 .. len
        PROVE  w[j] = IF j < len /\ k >= keys[j + 1] THEN w[j + 1] ELSE j
    <3>1. CASE j < c
      <4>1. j < len /\ k >= keys[j + 1]
        BY <1>2, <3>1
      <4>2. j + 1 \in 0 .. len
        BY <4>1, <1>0
      <4>3. w[j + 1] = c /\ w[j] = c
        BY <4>2, <3>1, <1>0
      <4> QED BY <4>1, <4>3
    <3>2. CASE ~(j < c)
      BY <3>2, <1>3
    <3> QED BY <3>1, <3>2
  <2>2. w = [j \in 0 .. len |-> w[j]]
    OBVIOUS
  <2> HIDE DEF w
  <2>3. w = [j \in 0 .. len |-> IF j < len /\ k >= keys[j + 1] THEN w[j + 1] ELSE j]
    BY <2>1, <2>2
  <2> QED BY <2>3 DEF IsSkip, len
<1> HIDE DEF w
<1>5. IsSkip(f, keys, k)
  BY <1>4
<1> HIDE DEF f
<1>6. \A j \in 0 .. len : f[j] = IF j < len /\ k >= keys[j + 1] THEN f[j + 1] ELSE j
  BY <1>5 DEF IsSkip, len
<1> DEFINE T == {d \in 0 .. c : f[c - d] # c}
<1>7. T = {}
  <2>1. SUFFICES ASSUME T # {} PROVE FALSE
    OBVIOUS
  <2>2. T \in SUBSET Nat
    OBVIOUS
  <2>3. PICK d \in T : \A y \in T : d <= y
    <3> HIDE DEF T
    <3> QED BY <2>1, <2>2, LeastNat
  <2>4. d \in 0 .. c /\ f[c - d] # c /\ c - d \in 0 .. len
    BY <2>3, <1>0
  <2>5. CASE d = 0
    <3>1. c - d = c
      BY <2>4, <2>5, <1>0
    <3>2. ~(c < len /\ k >= keys[c + 1])
      BY <1>3, <1>0
    <3>3. f[c] = c
      BY <3>2, <1>6, <1>0
    <3> QED BY <3>1, <3>3, <2>4
  <2>6. CASE d # 0
    <3>1. d - 1 \in 0 .. c /\ ~(d <= d - 1) /\ c - d < c /\ (c - d) + 1 = c - (d - 1)
      BY <2>4, <2>6, <1>0
    <3>2. d - 1 \notin T
      <4> HIDE DEF T
      <4> QED BY <3>1, <2>3
    <3>3. f[c - (d - 1)] = c
      BY <3>1, <3>2
    <3>4. c - d < len /\ k >= keys[(c - d) + 1]
      BY <1>2, <3>1, <2>4
    <3>5. f[c - d] = f[(c - d) + 1]
      BY <1>6, <2>4, <3>4
    <3> QED BY <3>5, <3>3, <3>1, <2>4
  <2> QED BY <2>5, <2>6
<1>8. f[0] = c
  <2>1. c \in 0 .. c /\ c - c = 0
    BY <1>0
  <2>2. \A d \in 0 .. c : f[c - d] = c
    BY <1>7
  <2> HIDE DEF c
  <2> QED BY <2>1, <2>2
<1>9. f[0] + 1 = i
  BY <1>8
<1> QED BY <1>1, <1>9

-----------------------------------------------------------------------------
(* Putting a key in, and taking a part.                                    *)

\* A key that belongs at i keeps the order.
LEMMA WithSorted ==
  ASSUME NEW a \in Seq(Int), NEW b \in Seq(Int), NEW e \in Int, NEW i \in 1 .. Len(a) + 1,
         With(b, a, i, e), Sorted(a),
         \A j \in 1 .. i - 1 : a[j] < e, \A j \in i .. Len(a) : e < a[j]
  PROVE  Sorted(b)
<1>1. SUFFICES ASSUME NEW x \in 1 .. Len(b), NEW y \in 1 .. Len(b), x < y
               PROVE  b[x] < b[y]
  BY DEF Sorted
<1>0. Len(b) = Len(a) + 1 /\ Len(a) \in Nat /\ b[i] = e
  BY DEF With
<1>2. \A j \in 1 .. i - 1 : b[j] = a[j] /\ j \in 1 .. Len(a)
  BY DEF With
<1>3. \A j \in i + 1 .. Len(b) : b[j] = a[j - 1] /\ j - 1 \in i .. Len(a) /\ j - 1 \in 1 .. Len(a)
  <2>1. SUFFICES ASSUME NEW j \in i + 1 .. Len(b)
                 PROVE  b[j] = a[j - 1] /\ j - 1 \in i .. Len(a) /\ j - 1 \in 1 .. Len(a)
    OBVIOUS
  <2>2. j - 1 \in i .. Len(a) /\ (j - 1) + 1 = j /\ j - 1 \in 1 .. Len(a)
    BY <1>0
  <2>3. b[(j - 1) + 1] = a[j - 1]
    BY <2>2 DEF With
  <2> QED BY <2>2, <2>3
<1>4. \A u, v \in 1 .. Len(a) : u < v => a[u] < a[v]
  BY DEF Sorted
<1>5. CASE y < i
  BY <1>5, <1>1, <1>2, <1>4
<1>6. CASE y = i
  <2>1. x \in 1 .. i - 1
    BY <1>6, <1>1
  <2>2. b[x] = a[x] /\ a[x] < e
    BY <2>1, <1>2
  <2> QED BY <2>2, <1>6, <1>0
<1>7. CASE i < y /\ x < i
  <2>1. b[x] = a[x] /\ a[x] < e /\ a[x] \in Int
    BY <1>7, <1>1, <1>2
  <2>2. b[y] = a[y - 1] /\ e < a[y - 1] /\ a[y - 1] \in Int
    BY <1>7, <1>1, <1>3
  <2> QED BY <2>1, <2>2
<1>8. CASE i < y /\ x = i
  <2>1. y \in i + 1 .. Len(b)
    BY <1>8, <1>1
  <2>2. b[y] = a[y - 1] /\ e < a[y - 1]
    BY <2>1, <1>3
  <2> QED BY <2>2, <1>8, <1>0
<1>9. CASE i < x
  <2>1. b[x] = a[x - 1] /\ b[y] = a[y - 1] /\ x - 1 \in 1 .. Len(a) /\ y - 1 \in 1 .. Len(a) /\ x - 1 < y - 1
    BY <1>9, <1>1, <1>3
  <2> QED BY <2>1, <1>4
<1> QED BY <1>1, <1>5, <1>6, <1>7, <1>8, <1>9

\* What b holds.
LEMMA WithMembers ==
  ASSUME NEW a, NEW b, NEW e, Len(a) \in Nat, NEW i \in 1 .. Len(a) + 1, With(b, a, i, e)
  PROVE  \A x : InSeq(b, x) <=> InSeq(a, x) \/ x = e
<1>0. Len(b) = Len(a) + 1 /\ b[i] = e /\ i \in 1 .. Len(b)
  BY DEF With
<1>1. ASSUME NEW x, InSeq(b, x) PROVE InSeq(a, x) \/ x = e
  <2>1. PICK j \in 1 .. Len(b) : b[j] = x
    BY <1>1 DEF InSeq
  <2>2. CASE j < i
    <3>1. j \in 1 .. i - 1 /\ j \in 1 .. Len(a)
      BY <2>2
    <3>2. a[j] = x
      BY <3>1, <2>1 DEF With
    <3> QED BY <3>1, <3>2 DEF InSeq
  <2>3. CASE j = i
    BY <2>3, <2>1, <1>0
  <2>4. CASE i < j
    <3>1. j - 1 \in i .. Len(a) /\ j - 1 \in 1 .. Len(a) /\ (j - 1) + 1 = j
      BY <2>4, <1>0
    <3>2. a[j - 1] = x
      BY <3>1, <2>1 DEF With
    <3> QED BY <3>1, <3>2 DEF InSeq
  <2> QED BY <2>2, <2>3, <2>4
<1>2. ASSUME NEW x, InSeq(a, x) PROVE InSeq(b, x)
  <2>1. PICK j \in 1 .. Len(a) : a[j] = x
    BY <1>2 DEF InSeq
  <2>2. CASE j < i
    <3>1. j \in 1 .. i - 1 /\ j \in 1 .. Len(b)
      BY <2>2, <1>0
    <3>2. b[j] = x
      BY <3>1, <2>1 DEF With
    <3> QED BY <3>1, <3>2 DEF InSeq
  <2>3. CASE ~(j < i)
    <3>1. j \in i .. Len(a) /\ j + 1 \in 1 .. Len(b)
      BY <2>3, <1>0
    <3>2. b[j + 1] = x
      BY <3>1, <2>1 DEF With
    <3> QED BY <3>1, <3>2 DEF InSeq
  <2> QED BY <2>2, <2>3
<1>3. InSeq(b, e)
  BY <1>0 DEF InSeq
<1> QED BY <1>1, <1>2, <1>3

\* Which child to follow when e is put in at i, for the child of slot m.
LEMMA WithSlot ==
  ASSUME NEW a \in Seq(Int), NEW b \in Seq(Int), NEW e \in Int, NEW i \in 1 .. Len(a) + 1,
         With(b, a, i, e), Sorted(b), NEW k \in Int, NEW m \in 1 .. Len(a) + 1, Slot(a, k, m)
  PROVE  /\ m < i => Slot(b, k, m)
         /\ m = i /\ k < e => Slot(b, k, i)
         /\ m = i /\ e <= k => Slot(b, k, i + 1)
         /\ i < m => Slot(b, k, m + 1)
<1>0. Len(b) = Len(a) + 1 /\ Len(a) \in Nat /\ b[i] = e
  BY DEF With
<1>1. \A j \in 1 .. Len(b) : b[j] \in Int
  OBVIOUS
<1>2. \A j \in 1 .. i - 1 : b[j] = a[j] /\ j \in 1 .. Len(a)
  BY DEF With
<1>3. \A j \in i + 1 .. Len(b) : b[j] = a[j - 1] /\ j - 1 \in i .. Len(a) /\ j - 1 \in 1 .. Len(a)
  <2>1. SUFFICES ASSUME NEW j \in i + 1 .. Len(b)
                 PROVE  b[j] = a[j - 1] /\ j - 1 \in i .. Len(a) /\ j - 1 \in 1 .. Len(a)
    OBVIOUS
  <2>2. j - 1 \in i .. Len(a) /\ (j - 1) + 1 = j /\ j - 1 \in 1 .. Len(a)
    BY <1>0
  <2>3. b[(j - 1) + 1] = a[j - 1]
    BY <2>2 DEF With
  <2> QED BY <2>2, <2>3
<1>4. (\A j \in 1 .. m - 1 : a[j] <= k) /\ (\A j \in m .. Len(a) : k < a[j])
  BY DEF Slot
<1>5. \A u, v \in 1 .. Len(b) : u < v => b[u] < b[v]
  BY DEF Sorted
<1>6. ASSUME m < i PROVE Slot(b, k, m)
  <2>1. \A j \in 1 .. m - 1 : b[j] <= k
    BY <1>6, <1>2, <1>4
  <2>2. b[m] = a[m] /\ k < b[m] /\ m \in 1 .. Len(b) /\ b[m] \in Int
    <3>1. m \in 1 .. i - 1 /\ m \in m .. Len(a) /\ m \in 1 .. Len(b)
      BY <1>6, <1>0
    <3> QED BY <3>1, <1>2, <1>4, <1>1
  <2>3. ASSUME NEW j \in m .. Len(b) PROVE k < b[j]
    <3>1. j \in 1 .. Len(b) /\ b[j] \in Int /\ (j = m \/ m < j)
      BY <1>1
    <3> QED BY <3>1, <2>2, <1>5
  <2> QED BY <2>1, <2>3 DEF Slot
<1>7. ASSUME m = i, k < e PROVE Slot(b, k, i)
  <2>1. \A j \in 1 .. i - 1 : b[j] <= k
    BY <1>7, <1>2, <1>4
  <2>2. ASSUME NEW j \in i .. Len(b) PROVE k < b[j]
    <3>1. CASE j = i
      BY <3>1, <1>7, <1>0
    <3>2. CASE j # i
      <4>1. j \in i + 1 .. Len(b)
        BY <3>2
      <4>2. b[j] = a[j - 1] /\ k < a[j - 1]
        BY <4>1, <1>3, <1>4, <1>7
      <4> QED BY <4>2
    <3> QED BY <3>1, <3>2
  <2> QED BY <2>1, <2>2 DEF Slot
<1>8. ASSUME m = i, e <= k PROVE Slot(b, k, i + 1)
  <2>1. \A j \in 1 .. (i + 1) - 1 : b[j] <= k
    BY <1>8, <1>2, <1>4, <1>0
  <2>2. \A j \in i + 1 .. Len(b) : k < b[j]
    BY <1>8, <1>3, <1>4, <1>0
  <2> QED BY <2>1, <2>2 DEF Slot
<1>9. ASSUME i < m PROVE Slot(b, k, m + 1)
  <2>1. b[m] <= k /\ m \in 1 .. Len(b) /\ b[m] \in Int
    <3>1. m \in i + 1 .. Len(b) /\ m - 1 \in 1 .. m - 1 /\ m \in 1 .. Len(b)
      BY <1>9, <1>0
    <3> QED BY <3>1, <1>3, <1>4, <1>1
  <2>2. ASSUME NEW j \in 1 .. (m + 1) - 1 PROVE b[j] <= k
    <3>1. j \in 1 .. Len(b) /\ b[j] \in Int /\ (j = m \/ j < m)
      BY <1>1, <2>1
    <3> QED BY <3>1, <2>1, <1>5
  <2>3. ASSUME NEW j \in m + 1 .. Len(b) PROVE k < b[j]
    <3>1. j \in i + 1 .. Len(b) /\ j - 1 \in m .. Len(a)
      BY <1>9, <1>0
    <3> QED BY <3>1, <1>3, <1>4
  <2> QED BY <2>2, <2>3 DEF Slot
<1> QED BY <1>6, <1>7, <1>8, <1>9

-----------------------------------------------------------------------------
(* The shape of the tree, one node at a time.                              *)

LEMMA NodeFacts ==
  ASSUME NEW ns, NEW rt, NEW d, Shape(ns, rt, d), NEW p \in 1 .. Len(ns)
  PROVE  /\ Len(ns) \in Nat /\ rt \in 1 .. Len(ns) /\ ns[p] \in NodeSet
         /\ ns[p].leaf \in BOOLEAN /\ ns[p].keys \in Seq(Int) /\ ns[p].refs \in Seq(Nat)
         /\ Len(ns[p].keys) \in Nat /\ Len(ns[p].refs) \in Nat
         /\ Sorted(ns[p].keys)
         /\ ns[p].next \in 0 .. Len(ns) /\ ns[p].parent \in 0 .. Len(ns)
         /\ ns[p].leaf => LeafOK(ns[p])
         /\ ~ns[p].leaf => /\ Len(ns[p].keys) \in 1 .. INTERNAL_MAX_KEYS
                           /\ Len(ns[p].refs) = Len(ns[p].keys) + 1
                           /\ Distinct(ns[p].refs)
<1>1. NodeOK(ns[p], Len(ns)) /\ Len(ns) \in Nat /\ rt \in 1 .. Len(ns)
  BY DEF Shape
<1>2. ns[p] \in NodeSet
  BY <1>1 DEF NodeOK
<1>3. ns[p].leaf \in BOOLEAN /\ ns[p].keys \in Seq(Int) /\ ns[p].refs \in Seq(Nat)
  BY <1>2 DEF NodeSet
<1>4. Len(ns[p].keys) \in Nat /\ Len(ns[p].refs) \in Nat
  BY <1>3
<1> QED BY <1>1, <1>2, <1>3, <1>4 DEF NodeOK, InnerOK

LEMMA ChildFacts ==
  ASSUME NEW ns, NEW rt, NEW d, Shape(ns, rt, d), NEW p \in 1 .. Len(ns), ~ns[p].leaf,
         NEW i \in 1 .. Len(ns[p].refs)
  PROVE  /\ ns[p].refs[i] \in 1 .. Len(ns) /\ ns[p].refs[i] # d /\ ns[p].refs[i] # rt
         /\ ns[ns[p].refs[i]].parent = p
         /\ p # rt => ns[ns[p].refs[i]].leaf
         /\ ns[ns[p].refs[i]].leaf = ns[ns[p].refs[1]].leaf
<1>1. ChildOK(ns, rt, d, p, i) /\ ns[rt].parent = 0
  BY DEF Shape
<1>2. p # 0
  OBVIOUS
<1> QED BY <1>1, <1>2 DEF ChildOK

LEMMA ParentFacts ==
  ASSUME NEW ns, NEW rt, NEW d, Shape(ns, rt, d), NEW p \in 1 .. Len(ns), p # rt, p # d
  PROVE  /\ ns[p].parent \in 1 .. Len(ns) /\ ~ns[ns[p].parent].leaf
         /\ \E i \in 1 .. Len(ns[ns[p].parent].refs) : ns[ns[p].parent].refs[i] = p
         /\ ~ns[p].leaf => ns[p].parent = rt
<1>1. ParentOK(ns, p)
  BY DEF Shape
<1>2. ns[p].parent \in 0 .. Len(ns) /\ Len(ns) \in Nat
  BY NodeFacts
<1>3. ns[p].parent \in 1 .. Len(ns) /\ ~ns[ns[p].parent].leaf
  BY <1>1, <1>2 DEF ParentOK
<1>4. PICK i \in 1 .. Len(ns[ns[p].parent].refs) : ns[ns[p].parent].refs[i] = p
  BY <1>1 DEF ParentOK, InSeq
<1>5. ns[p].parent # rt => ns[ns[ns[p].parent].refs[i]].leaf
  BY <1>3, ChildFacts
<1> QED BY <1>3, <1>4, <1>5

-----------------------------------------------------------------------------
(* The way down.                                                           *)

StepDown(ns, k, p) == IF ns[p].leaf THEN p ELSE LookupChild(ns[p], k)

LEMMA StepFacts ==
  ASSUME NEW ns, NEW rt, Shape(ns, rt, 0), NEW k \in Int, NEW p \in 1 .. Len(ns), ~ns[p].leaf
  PROVE  /\ LookupChild(ns[p], k) \in 1 .. Len(ns)
         /\ LookupChild(ns[p], k) # rt
         /\ ns[LookupChild(ns[p], k)].parent = p
         /\ p # rt => ns[LookupChild(ns[p], k)].leaf
         /\ Up(ns, LookupChild(ns[p], k), k)
<1>1. /\ ns[p].keys \in Seq(Int) /\ Sorted(ns[p].keys) /\ Len(ns[p].refs) = Len(ns[p].keys) + 1
      /\ Distinct(ns[p].refs)
  BY NodeFacts
<1>2. PICK i \in 1 .. Len(ns[p].keys) + 1 : Slot(ns[p].keys, k, i)
  BY <1>1, SlotExists
<1> DEFINE c == LookupChild(ns[p], k)
<1>3. c = ns[p].refs[i] /\ i \in 1 .. Len(ns[p].refs)
  BY <1>1, <1>2, LookupChildFacts
<1> HIDE DEF c
<1>4. c \in 1 .. Len(ns) /\ c # rt /\ ns[c].parent = p /\ (p # rt => ns[c].leaf)
  BY <1>3, ChildFacts
<1>5. Up(ns, c, k)
  BY <1>1, <1>2, <1>3, <1>4 DEF Up, Distinct
<1> QED BY <1>4, <1>5 DEF c

\* A parent that leads to c has c as its next step.
LEMMA UpLeads ==
  ASSUME NEW ns, NEW rt, Shape(ns, rt, 0), NEW k \in Int, NEW c \in 1 .. Len(ns), c # rt,
         Up(ns, c, k)
  PROVE  LookupChild(ns[ns[c].parent], k) = c
<1> DEFINE p == ns[c].parent
<1>0. c # 0
  OBVIOUS
<1>1. p \in 1 .. Len(ns) /\ ~ns[p].leaf /\ \E i \in 1 .. Len(ns[p].refs) : ns[p].refs[i] = c
  BY <1>0, ParentFacts
<1>2. ns[p].keys \in Seq(Int) /\ Sorted(ns[p].keys) /\ Len(ns[p].refs) = Len(ns[p].keys) + 1
  BY <1>1, NodeFacts
<1>3. PICK i \in 1 .. Len(ns[p].refs) : ns[p].refs[i] = c
  BY <1>1
<1>4. Slot(ns[p].keys, k, i) /\ i \in 1 .. Len(ns[p].keys) + 1
  BY <1>2, <1>3 DEF Up
<1>5. LookupChild(ns[p], k) = ns[p].refs[i]
  BY <1>2, <1>4, LookupChildFacts
<1> QED BY <1>3, <1>5

\* Two steps down from the root end at the leaf that the separators lead to.
LEMMA TwoSteps ==
  ASSUME NEW ns, NEW rt, Shape(ns, rt, 0), NEW k \in Int
  PROVE  /\ Path(ns, rt, k, StepDown(ns, k, StepDown(ns, k, rt)))
         /\ \A q : Path(ns, rt, k, q) => q = StepDown(ns, k, StepDown(ns, k, rt))
<1> DEFINE c == StepDown(ns, k, rt)
           g == StepDown(ns, k, c)
<1>0. rt \in 1 .. Len(ns)
  BY DEF Shape
<1>1. Path(ns, rt, k, g)
  <2>1. CASE ns[rt].leaf
    BY <2>1, <1>0 DEF Path, StepDown
  <2>2. CASE ~ns[rt].leaf
    <3>1. c \in 1 .. Len(ns) /\ c # rt /\ ns[c].parent = rt /\ Up(ns, c, k)
      BY <2>2, <1>0, StepFacts DEF StepDown
    <3> HIDE DEF c
    <3>2. CASE ns[c].leaf
      BY <3>1, <3>2 DEF Path, StepDown
    <3>3. CASE ~ns[c].leaf
      <4>1. g \in 1 .. Len(ns) /\ g # rt /\ ns[g].parent = c /\ ns[g].leaf /\ Up(ns, g, k)
        BY <3>1, <3>3, StepFacts, SMTT(30) DEF StepDown
      <4> HIDE DEF g
      <4> QED BY <4>1, <3>1 DEF Path
    <3> QED BY <3>2, <3>3
  <2> QED BY <2>1, <2>2
<1>2. ASSUME NEW q, Path(ns, rt, k, q) PROVE q = g
  <2>0. q \in 1 .. Len(ns) /\ ns[q].leaf
    BY <1>2 DEF Path
  <2>1. CASE q = rt
    BY <2>0, <2>1 DEF StepDown
  <2>2. CASE q # rt
    <3> DEFINE p == ns[q].parent
    <3>0. q # 0 /\ Up(ns, q, k) /\ (p # rt => Up(ns, p, k))
      BY <2>0, <2>2, <1>2 DEF Path
    <3>1. p \in 1 .. Len(ns) /\ ~ns[p].leaf
      BY <2>0, <2>2, <3>0, ParentFacts
    <3>2. LookupChild(ns[p], k) = q
      BY <2>0, <2>2, <3>0, UpLeads
    <3> HIDE DEF p
    <3>3. CASE p = rt
      BY <3>1, <3>2, <3>3, <2>0 DEF StepDown
    <3>4. CASE p # rt
      <4>1. p # 0
        BY <3>1
      <4>2. ns[p].parent = rt
        BY <3>1, <3>4, <4>1, ParentFacts
      <4>3. LookupChild(ns[rt], k) = p
        BY <3>0, <3>1, <3>4, <4>2, UpLeads
      <4>4. ~ns[rt].leaf
        BY <3>1, <3>4, <4>1, <4>2, ParentFacts
      <4> QED BY <4>3, <4>4, <3>1, <3>2 DEF StepDown
    <3> QED BY <3>3, <3>4
  <2> QED BY <2>1, <2>2
<1> QED BY <1>1, <1>2

IsWalk(f, ns, k) ==
    f = [p \in DOMAIN ns |-> IF ns[p].leaf THEN p ELSE f[LookupChild(ns[p], k)]]

\* FindLeaf goes to that leaf.
LEMMA FindLeafFacts ==
  ASSUME NEW ns, NEW rt, Shape(ns, rt, 0), NEW k \in Int,
         NEW t, t = [nodes |-> ns, root |-> rt]
  PROVE  /\ Path(ns, rt, k, FindLeaf(t, k))
         /\ \A q : Path(ns, rt, k, q) => q = FindLeaf(t, k)
<1> DEFINE f == CHOOSE h : IsWalk(h, ns, k)
           S(p) == StepDown(ns, k, p)
           D == 1 .. Len(ns)
           w == [p \in D |-> S(S(p))]
<1>0. rt \in D /\ DOMAIN ns = D /\ t.nodes = ns /\ t.root = rt
  BY DEF Shape
<1>1. FindLeaf(t, k) = f[rt]
  BY <1>0 DEF FindLeaf, IsWalk
<1>2. ASSUME NEW p \in D
      PROVE  /\ ns[p].leaf => S(p) = p
             /\ ~ns[p].leaf => S(p) = LookupChild(ns[p], k)
             /\ S(p) \in D
             /\ p # rt => ns[S(p)].leaf
             /\ p = rt => S(p) = rt \/ S(p) # rt
  BY <1>2, StepFacts, SMTT(30) DEF StepDown
<1>3. ASSUME NEW p \in D PROVE S(S(p)) \in D /\ ns[S(S(p))].leaf
  <2>1. CASE ns[p].leaf
    BY <2>1, <1>2, <1>3
  <2>2. CASE ~ns[p].leaf
    <3>1. S(p) \in D /\ S(p) # rt
      BY <2>2, <1>3, StepFacts DEF StepDown
    <3> HIDE DEF S
    <3> QED BY <3>1, <1>2
  <2> QED BY <2>1, <2>2
<1> HIDE DEF S
<1>4. ASSUME NEW p \in D
      PROVE  w[p] = IF ns[p].leaf THEN p ELSE w[LookupChild(ns[p], k)]
  <2>1. CASE ns[p].leaf
    <3>1. S(p) = p
      BY <2>1, <1>2
    <3> QED BY <3>1, <2>1
  <2>2. CASE ~ns[p].leaf
    <3>1. S(p) = LookupChild(ns[p], k) /\ S(p) \in D
      BY <2>2, <1>2
    <3>2. w[S(p)] = S(S(S(p)))
      BY <3>1
    <3>3. S(S(S(p))) = S(S(p))
      BY <1>2, <1>3
    <3> QED BY <3>1, <3>2, <3>3, <2>2
  <2> QED BY <2>1, <2>2
<1>5. IsWalk(w, ns, k)
  <2>1. w = [p \in D |-> w[p]]
    OBVIOUS
  <2> HIDE DEF w
  <2>2. w = [p \in D |-> IF ns[p].leaf THEN p ELSE w[LookupChild(ns[p], k)]]
    BY <1>4, <2>1
  <2> QED BY <2>2, <1>0 DEF IsWalk
<1> HIDE DEF w
<1>6. IsWalk(f, ns, k)
  BY <1>5
<1> HIDE DEF f
<1>7. \A p \in D : f[p] = IF ns[p].leaf THEN p ELSE f[LookupChild(ns[p], k)]
  <2>1. f = [p \in D |-> IF ns[p].leaf THEN p ELSE f[LookupChild(ns[p], k)]]
    BY <1>6, <1>0 DEF IsWalk
  <2> QED BY <2>1
<1>8. \A p \in D : f[p] = IF ns[p].leaf THEN p ELSE f[S(p)]
  BY <1>7, <1>2
<1>9. f[rt] = S(S(rt))
  <2>1. S(rt) \in D /\ S(S(rt)) \in D /\ ns[S(S(rt))].leaf
    BY <1>0, <1>2, <1>3
  <2>2. f[S(S(rt))] = S(S(rt))
    BY <2>1, <1>8
  <2>3. f[S(rt)] = S(S(rt))
    BY <2>1, <2>2, <1>8, <1>2
  <2> QED BY <2>1, <2>3, <1>0, <1>8, <1>2
<1> QED BY <1>1, <1>9, TwoSteps DEF S

-----------------------------------------------------------------------------
(* What search finds.                                                      *)

\* The keys that a leaf holds.
Stored(ns) == {k \in Keys : \E p \in 1 .. Len(ns) : ns[p].leaf /\ InSeq(ns[p].keys, k)}

\* A leaf apart from its capacity.
Entries(n) ==
    /\ n \in NodeSet /\ n.leaf /\ Sorted(n.keys)
    /\ Len(n.refs) = Len(n.keys)
    /\ \A j \in 1 .. Len(n.keys) : n.keys[j] \in Keys /\ n.refs[j] = RidOf[n.keys[j]]

LEMMA EntriesFacts ==
  ASSUME NEW n, Entries(n)
  PROVE  /\ n.keys \in Seq(Int) /\ n.refs \in Seq(Nat) /\ Len(n.keys) \in Nat
         /\ Len(n.refs) = Len(n.keys) /\ Sorted(n.keys)
         /\ \A j \in 1 .. Len(n.keys) : /\ n.keys[j] \in Int /\ n.keys[j] \in Keys
                                        /\ n.refs[j] = RidOf[n.keys[j]]
<1>1. n.keys \in Seq(Int) /\ n.refs \in Seq(Nat)
  BY DEF Entries, NodeSet
<1>2. Len(n.keys) \in Nat /\ \A j \in 1 .. Len(n.keys) : n.keys[j] \in Int
  BY <1>1
<1> QED BY <1>1, <1>2 DEF Entries

\* Where a key that the leaf holds is.
LEMMA PositionFacts ==
  ASSUME NEW n, Entries(n), NEW k \in Int, NEW pos, pos = KeyIndex(n.keys, k) + 1
  PROVE  /\ pos \in 1 .. Len(n.keys) + 1
         /\ InSeq(n.keys, k) <=> pos <= Len(n.keys) /\ n.keys[pos] = k
         /\ \A j \in 1 .. pos - 1 : n.keys[j] < k
         /\ ~InSeq(n.keys, k) => \A j \in pos .. Len(n.keys) : k < n.keys[j]
<1> DEFINE m == KeyIndex(n.keys, k)
<1>0. n.keys \in Seq(Int) /\ Sorted(n.keys) /\ Len(n.keys) \in Nat
      /\ \A j \in 1 .. Len(n.keys) : n.keys[j] \in Int
  BY EntriesFacts
<1>1. LowerBound(n.keys, k, m)
  BY <1>0, KeyIndexFacts
<1> HIDE DEF m
<1>2. pos = m + 1
  BY DEF m
<1>3. /\ m \in 0 .. Len(n.keys)
      /\ \A j \in 1 .. m : n.keys[j] < k
      /\ \A j \in m + 1 .. Len(n.keys) : k <= n.keys[j]
  BY <1>1 DEF LowerBound
<1>4. pos \in 1 .. Len(n.keys) + 1 /\ \A j \in 1 .. pos - 1 : n.keys[j] < k
  BY <1>2, <1>3, <1>0
<1>5. ASSUME InSeq(n.keys, k) PROVE pos <= Len(n.keys) /\ n.keys[pos] = k
  <2>1. PICK j \in 1 .. Len(n.keys) : n.keys[j] = k
    BY <1>5 DEF InSeq
  <2>2. ~(j <= m)
    BY <2>1, <1>3
  <2>3. pos <= j /\ pos \in 1 .. Len(n.keys)
    BY <2>1, <2>2, <1>2, <1>3, <1>0
  <2>4. k <= n.keys[pos] /\ n.keys[pos] \in Int
    BY <2>3, <1>2, <1>3, <1>0
  <2>5. pos < j => n.keys[pos] < n.keys[j]
    BY <2>3, <2>1, <1>0 DEF Sorted
  <2> QED BY <2>1, <2>3, <2>4, <2>5
<1>6. ASSUME pos <= Len(n.keys), n.keys[pos] = k PROVE InSeq(n.keys, k)
  BY <1>6, <1>4, <1>0 DEF InSeq
<1>7. ASSUME ~InSeq(n.keys, k), NEW j \in pos .. Len(n.keys) PROVE k < n.keys[j]
  <2>1. j \in 1 .. Len(n.keys) /\ k <= n.keys[j]
    BY <1>2, <1>3, <1>4, <1>0
  <2>2. n.keys[j] # k
    BY <2>1, <1>7 DEF InSeq
  <2> QED BY <2>1, <2>2, <1>0
<1> QED BY <1>4, <1>5, <1>6, <1>7

LEMMA LookupFacts ==
  ASSUME NEW n, Entries(n), NEW k \in Int
  PROVE  Lookup(n, k) = IF InSeq(n.keys, k) THEN RidOf[k] ELSE 0
<1> DEFINE pos == KeyIndex(n.keys, k) + 1
<1>1. Lookup(n, k) = IF pos <= Len(n.keys) /\ n.keys[pos] = k THEN n.refs[pos] ELSE 0
  BY DEF Lookup, InvalidRid
<1>2. pos \in 1 .. Len(n.keys) + 1 /\ (InSeq(n.keys, k) <=> pos <= Len(n.keys) /\ n.keys[pos] = k)
  BY PositionFacts
<1> HIDE DEF pos
<1>3. ASSUME InSeq(n.keys, k) PROVE n.refs[pos] = RidOf[k]
  <2>1. pos \in 1 .. Len(n.keys) /\ n.keys[pos] = k
    BY <1>2, <1>3, EntriesFacts
  <2> QED BY <2>1, EntriesFacts
<1> QED BY <1>1, <1>2, <1>3

LEMMA LeafEntries ==
  ASSUME NEW ns, NEW rt, NEW d, Shape(ns, rt, d), NEW p \in 1 .. Len(ns), ns[p].leaf
  PROVE  Entries(ns[p]) /\ Len(ns[p].keys) <= LEAF_MAX_ENTRIES
BY NodeFacts DEF Entries, LeafOK

\* The separators lead to every key.
LEMMA KeyPath ==
  ASSUME NEW ns, NEW rt, Shape(ns, rt, 0), Order(ns), NEW k \in Int,
         NEW q \in 1 .. Len(ns), ns[q].leaf, InSeq(ns[q].keys, k)
  PROVE  Path(ns, rt, k, q)
<1>1. SUFFICES ASSUME q # rt
               PROVE  Up(ns, q, k) /\ (ns[q].parent # rt => Up(ns, ns[q].parent, k))
  BY DEF Path
<1> DEFINE p == ns[q].parent
<1>2. q # 0 /\ Below(ns, q, k)
  BY DEF Below
<1>3. p \in 1 .. Len(ns) /\ ~ns[p].leaf /\ \E i \in 1 .. Len(ns[p].refs) : ns[p].refs[i] = q
  BY <1>1, <1>2, ParentFacts
<1> HIDE DEF p
<1>4. OrderAt(ns, p)
  BY <1>3 DEF Order
<1>5. Up(ns, q, k)
  BY <1>2, <1>4 DEF Up, OrderAt, p
<1>6. ASSUME p # rt PROVE Up(ns, p, k)
  <2>1. p # 0 /\ Below(ns, p, k)
    BY <1>3 DEF Below
  <2>2. ns[p].parent \in 1 .. Len(ns) /\ ~ns[ns[p].parent].leaf
    BY <1>3, <1>6, <2>1, ParentFacts
  <2>3. OrderAt(ns, ns[p].parent)
    BY <2>2 DEF Order
  <2> QED BY <2>1, <2>3 DEF Up, OrderAt
<1> QED BY <1>5, <1>6 DEF p

LEMMA SearchFacts ==
  ASSUME NEW ns, NEW rt, Shape(ns, rt, 0), Order(ns), NEW k \in Keys,
         NEW t, t = [nodes |-> ns, root |-> rt]
  PROVE  /\ Search(t, k) = IF k \in Stored(ns) THEN RidOf[k] ELSE 0
         /\ Path(ns, rt, k, FindLeaf(t, k))
         /\ k \in Stored(ns) <=> InSeq(ns[FindLeaf(t, k)].keys, k)
<1> DEFINE q == FindLeaf(t, k)
<1>0. k \in Int
  BY Capacities
<1>1. Path(ns, rt, k, q) /\ \A p : Path(ns, rt, k, p) => p = q
  BY <1>0, FindLeafFacts
<1>2. Search(t, k) = Lookup(ns[q], k)
  BY DEF Search
<1> HIDE DEF q
<1>3. q \in 1 .. Len(ns) /\ ns[q].leaf
  BY <1>1 DEF Path
<1>4. Lookup(ns[q], k) = IF InSeq(ns[q].keys, k) THEN RidOf[k] ELSE 0
  BY <1>0, <1>3, LeafEntries, LookupFacts
<1>5. ASSUME k \in Stored(ns) PROVE InSeq(ns[q].keys, k)
  <2>1. PICK p \in 1 .. Len(ns) : ns[p].leaf /\ InSeq(ns[p].keys, k)
    BY <1>5 DEF Stored
  <2>2. p = q
    BY <2>1, <1>0, <1>1, KeyPath
  <2> QED BY <2>1, <2>2
<1>6. ASSUME InSeq(ns[q].keys, k) PROVE k \in Stored(ns)
  BY <1>3, <1>6 DEF Stored
<1> QED BY <1>1, <1>2, <1>4, <1>5, <1>6 DEF q

-----------------------------------------------------------------------------
(* Changing a leaf.                                                        *)

LEMMA LeafInsertFacts ==
  ASSUME NEW n, Entries(n), NEW k \in Keys, ~InSeq(n.keys, k),
         NEW m, m = LeafInsert(n, k, RidOf[k])
  PROVE  /\ Entries(m) /\ Len(m.keys) = Len(n.keys) + 1
         /\ m.parent = n.parent /\ m.next = n.next
         /\ \A x : InSeq(m.keys, x) <=> InSeq(n.keys, x) \/ x = k
<1> DEFINE pos == KeyIndex(n.keys, k) + 1
           ks == InsertAt(n.keys, pos, k)
           rs == InsertAt(n.refs, pos, RidOf[k])
<1>0. k \in Int /\ RidOf[k] \in Nat
  BY Capacities
<1>1. m = [n EXCEPT !.keys = ks, !.refs = rs]
  BY DEF LeafInsert
<1>2. /\ pos \in 1 .. Len(n.keys) + 1
      /\ \A j \in 1 .. pos - 1 : n.keys[j] < k
      /\ \A j \in pos .. Len(n.keys) : k < n.keys[j]
  BY <1>0, PositionFacts
<1> HIDE DEF pos
<1>3. /\ n.keys \in Seq(Int) /\ n.refs \in Seq(Nat) /\ Len(n.keys) \in Nat
      /\ Len(n.refs) = Len(n.keys) /\ Sorted(n.keys)
      /\ \A j \in 1 .. Len(n.keys) : n.keys[j] \in Keys /\ n.refs[j] = RidOf[n.keys[j]]
  BY EntriesFacts
<1>4. ks \in Seq(Int) /\ With(ks, n.keys, pos, k)
  BY <1>0, <1>2, <1>3, InsertAtFacts
<1>5. rs \in Seq(Nat) /\ With(rs, n.refs, pos, RidOf[k])
  <2>1. pos \in 1 .. Len(n.refs) + 1
    BY <1>2, <1>3
  <2> QED BY <2>1, <1>0, <1>3, InsertAtFacts
<1> HIDE DEF ks, rs
<1>6. Sorted(ks)
  BY <1>0, <1>2, <1>3, <1>4, WithSorted
<1>7. n = [leaf |-> n.leaf, keys |-> n.keys, refs |-> n.refs, parent |-> n.parent, next |-> n.next]
      /\ n.leaf /\ n.parent \in Nat /\ n.next \in Nat /\ n.leaf \in BOOLEAN
  BY DEF Entries, NodeSet
<1>8. m = [leaf |-> n.leaf, keys |-> ks, refs |-> rs, parent |-> n.parent, next |-> n.next]
  BY <1>1, <1>7
<1>9. m \in NodeSet /\ m.leaf /\ m.keys = ks /\ m.refs = rs /\ m.parent = n.parent /\ m.next = n.next
  BY <1>8, <1>7, <1>4, <1>5 DEF NodeSet
<1>10. Len(ks) = Len(n.keys) + 1 /\ Len(rs) = Len(ks)
  BY <1>3, <1>4, <1>5 DEF With
<1>11. ASSUME NEW j \in 1 .. Len(ks) PROVE ks[j] \in Keys /\ rs[j] = RidOf[ks[j]]
  <2>1. CASE j < pos
    <3>1. j \in 1 .. pos - 1 /\ j \in 1 .. Len(n.keys)
      BY <2>1, <1>2
    <3>2. ks[j] = n.keys[j] /\ rs[j] = n.refs[j]
      BY <3>1, <1>4, <1>5 DEF With
    <3> QED BY <3>1, <3>2, <1>3
  <2>2. CASE j = pos
    BY <2>2, <1>4, <1>5 DEF With
  <2>3. CASE pos < j
    <3>1. j - 1 \in pos .. Len(n.keys) /\ j - 1 \in 1 .. Len(n.keys) /\ (j - 1) + 1 = j
      BY <2>3, <1>2, <1>10, <1>3
    <3>2. ks[(j - 1) + 1] = n.keys[j - 1] /\ rs[(j - 1) + 1] = n.refs[j - 1]
      BY <3>1, <1>3, <1>4, <1>5 DEF With
    <3> QED BY <3>1, <3>2, <1>3
  <2> QED BY <2>1, <2>2, <2>3, <1>2
<1>12. Entries(m)
  BY <1>6, <1>9, <1>10, <1>11 DEF Entries
<1>13. \A x : InSeq(ks, x) <=> InSeq(n.keys, x) \/ x = k
  BY <1>2, <1>3, <1>4, WithMembers
<1> QED BY <1>9, <1>10, <1>12, <1>13

\* The leaf without k.
LEMMA LeafRemoveFacts ==
  ASSUME NEW n, Entries(n), NEW k \in Keys, InSeq(n.keys, k), NEW m, m = LeafRemove(n, k)
  PROVE  /\ Entries(m) /\ Len(m.keys) + 1 = Len(n.keys)
         /\ m.parent = n.parent /\ m.next = n.next
         /\ \A x : InSeq(m.keys, x) <=> InSeq(n.keys, x) /\ x # k
<1> DEFINE pos == KeyIndex(n.keys, k) + 1
           ks == RemoveAt(n.keys, pos)
           rs == RemoveAt(n.refs, pos)
<1>0. k \in Int
  BY Capacities
<1>1. m = [n EXCEPT !.keys = ks, !.refs = rs]
  BY DEF LeafRemove
<1>3. /\ n.keys \in Seq(Int) /\ n.refs \in Seq(Nat) /\ Len(n.keys) \in Nat
      /\ Len(n.refs) = Len(n.keys) /\ Sorted(n.keys)
      /\ \A j \in 1 .. Len(n.keys) : n.keys[j] \in Keys /\ n.refs[j] = RidOf[n.keys[j]]
  BY EntriesFacts
<1>2. pos \in 1 .. Len(n.keys) /\ n.keys[pos] = k
  <2>1. pos \in 1 .. Len(n.keys) + 1 /\ pos <= Len(n.keys) /\ n.keys[pos] = k
    BY <1>0, PositionFacts
  <2> HIDE DEF pos
  <2> QED BY <2>1, <1>3
<1> HIDE DEF pos
<1>4. ks \in Seq(Int) /\ With(n.keys, ks, pos, k)
  BY <1>2, <1>3, RemoveAtFacts
<1>5. rs \in Seq(Nat) /\ With(n.refs, rs, pos, n.refs[pos])
  <2>1. pos \in 1 .. Len(n.refs)
    BY <1>2, <1>3
  <2> QED BY <2>1, <1>3, RemoveAtFacts
<1> HIDE DEF ks, rs
<1>6. Len(ks) \in Nat /\ Len(ks) + 1 = Len(n.keys) /\ Len(rs) = Len(ks)
  <2>1. Len(ks) \in Nat /\ Len(rs) \in Nat
    BY <1>4, <1>5
  <2>2. Len(n.keys) = Len(ks) + 1 /\ Len(n.refs) = Len(rs) + 1
    BY <1>4, <1>5 DEF With
  <2> QED BY <2>1, <2>2, <1>3
\* The j-th entry that is left.
<1> DEFINE at(j) == IF j < pos THEN j ELSE j + 1
<1>7. ASSUME NEW j \in 1 .. Len(ks)
      PROVE  at(j) \in 1 .. Len(n.keys) /\ ks[j] = n.keys[at(j)] /\ rs[j] = n.refs[at(j)]
  <2>1. CASE j < pos
    <3>1. j \in 1 .. pos - 1 /\ j \in 1 .. Len(n.keys)
      BY <2>1, <1>2
    <3>2. n.keys[j] = ks[j] /\ n.refs[j] = rs[j]
      BY <3>1, <1>4, <1>5 DEF With
    <3> QED BY <3>1, <3>2, <2>1
  <2>2. CASE ~(j < pos)
    <3>1. j \in pos .. Len(ks) /\ j + 1 \in 1 .. Len(n.keys)
      BY <2>2, <1>2, <1>6
    <3>2. n.keys[j + 1] = ks[j] /\ n.refs[j + 1] = rs[j]
      BY <3>1, <1>4, <1>5, <1>6 DEF With
    <3> QED BY <3>1, <3>2, <2>2
  <2> QED BY <2>1, <2>2
<1>8. Sorted(ks)
  <2>1. SUFFICES ASSUME NEW i \in 1 .. Len(ks), NEW j \in 1 .. Len(ks), i < j PROVE ks[i] < ks[j]
    BY DEF Sorted
  <2>2. at(i) < at(j)
    BY <2>1, <1>2, <1>6
  <2> HIDE DEF at
  <2> QED BY <2>1, <2>2, <1>7, <1>3 DEF Sorted
<1>9. n = [leaf |-> n.leaf, keys |-> n.keys, refs |-> n.refs, parent |-> n.parent, next |-> n.next]
      /\ n.leaf /\ n.parent \in Nat /\ n.next \in Nat /\ n.leaf \in BOOLEAN
  BY DEF Entries, NodeSet
<1>10. m = [leaf |-> n.leaf, keys |-> ks, refs |-> rs, parent |-> n.parent, next |-> n.next]
  BY <1>1, <1>9
<1>11. m \in NodeSet /\ m.leaf /\ m.keys = ks /\ m.refs = rs /\ m.parent = n.parent /\ m.next = n.next
  BY <1>10, <1>9, <1>4, <1>5 DEF NodeSet
<1>12. Entries(m)
  <2>1. \A j \in 1 .. Len(ks) : ks[j] \in Keys /\ rs[j] = RidOf[ks[j]]
    <3> HIDE DEF at
    <3> QED BY <1>7, <1>3
  <2> QED BY <2>1, <1>6, <1>8, <1>11 DEF Entries
<1>13. \A x : InSeq(n.keys, x) <=> InSeq(ks, x) \/ x = k
  <2>1. pos \in 1 .. Len(ks) + 1
    BY <1>2, <1>6
  <2> QED BY <2>1, <1>4, <1>6, WithMembers
<1>14. ~InSeq(ks, k)
  <2>1. SUFFICES ASSUME NEW j \in 1 .. Len(ks), ks[j] = k PROVE FALSE
    BY DEF InSeq
  <2>2. at(j) # pos /\ at(j) \in 1 .. Len(n.keys) /\ n.keys[at(j)] = k
    BY <2>1, <1>2, <1>7
  <2> HIDE DEF at
  <2>3. at(j) < pos \/ pos < at(j)
    BY <2>2, <1>2
  <2>4. n.keys[at(j)] < n.keys[pos] \/ n.keys[pos] < n.keys[at(j)]
    BY <2>2, <2>3, <1>2, <1>3 DEF Sorted
  <2> QED BY <2>2, <2>4, <1>2, <1>0
<1> QED BY <1>6, <1>11, <1>12, <1>13, <1>14

\* ms differs from ns in the leaf q, and by a new leaf d unless d is 0.
LeafStep(ms, ns, q, d) ==
    /\ Len(ms) \in Nat /\ ms = [p \in 1 .. Len(ms) |-> ms[p]]
    /\ \/ d = 0 /\ Len(ms) = Len(ns)
       \/ d = Len(ns) + 1 /\ Len(ms) = Len(ns) + 1 /\ ms[d].leaf /\ NodeOK(ms[d], Len(ms))
    /\ \A p \in 1 .. Len(ns) : p # q => ms[p] = ns[p]
    /\ q \in 1 .. Len(ns) /\ ns[q].leaf
    /\ ms[q].leaf /\ ms[q].parent = ns[q].parent /\ NodeOK(ms[q], Len(ms))

LEMMA LeafStepFacts ==
  ASSUME NEW ns, NEW rt, Shape(ns, rt, 0), NEW ms, NEW q, NEW d, LeafStep(ms, ns, q, d)
  PROVE  /\ Len(ns) \in Nat /\ Len(ms) \in Nat /\ Len(ns) <= Len(ms)
         /\ rt \in 1 .. Len(ns) /\ q \in 1 .. Len(ns) /\ d \notin 1 .. Len(ns)
         /\ ms[q].leaf /\ ns[q].leaf /\ ns[rt].parent = 0
         /\ \A p \in 1 .. Len(ms) : p \notin 1 .. Len(ns) =>
                p = d /\ ms[p].leaf /\ NodeOK(ms[p], Len(ms))
<1>1. Len(ns) \in Nat /\ rt \in 1 .. Len(ns) /\ ns[rt].parent = 0
  BY DEF Shape
<1>2. Len(ms) \in Nat /\ q \in 1 .. Len(ns) /\ ms[q].leaf /\ ns[q].leaf
  BY DEF LeafStep
<1>3. \/ d = 0 /\ Len(ms) = Len(ns)
      \/ d = Len(ns) + 1 /\ Len(ms) = Len(ns) + 1 /\ ms[d].leaf /\ NodeOK(ms[d], Len(ms))
  BY DEF LeafStep
<1>4. Len(ns) <= Len(ms) /\ d \notin 1 .. Len(ns)
  BY <1>1, <1>2, <1>3
<1>5. ASSUME NEW p \in 1 .. Len(ms), p \notin 1 .. Len(ns)
      PROVE  p = d /\ ms[p].leaf /\ NodeOK(ms[p], Len(ms))
  <2>1. p = Len(ns) + 1 /\ d = Len(ns) + 1
    BY <1>1, <1>2, <1>3, <1>5
  <2> QED BY <2>1, <1>1, <1>3
<1> QED BY <1>1, <1>2, <1>4, <1>5

LEMMA LeafStepShape ==
  ASSUME NEW ns, NEW rt, Shape(ns, rt, 0), NEW ms, NEW q, NEW d, LeafStep(ms, ns, q, d)
  PROVE  Shape(ms, rt, d)
<1>0. /\ Len(ns) \in Nat /\ Len(ms) \in Nat /\ Len(ns) <= Len(ms)
      /\ rt \in 1 .. Len(ns) /\ q \in 1 .. Len(ns) /\ d \notin 1 .. Len(ns)
      /\ ms[q].leaf /\ ns[q].leaf /\ ns[rt].parent = 0
      /\ \A p \in 1 .. Len(ms) : p \notin 1 .. Len(ns) =>
             p = d /\ ms[p].leaf /\ NodeOK(ms[p], Len(ms))
  BY LeafStepFacts
<1>1. \A p \in 1 .. Len(ns) : /\ ms[p].leaf = ns[p].leaf /\ ms[p].parent = ns[p].parent
                              /\ ~ns[p].leaf => ms[p] = ns[p]
  <2>1. SUFFICES ASSUME NEW p \in 1 .. Len(ns)
                 PROVE  /\ ms[p].leaf = ns[p].leaf /\ ms[p].parent = ns[p].parent
                        /\ ~ns[p].leaf => ms[p] = ns[p]
    OBVIOUS
  <2>2. CASE p # q
    BY <2>2 DEF LeafStep
  <2>3. CASE p = q
    <3>1. ms[q].leaf \in BOOLEAN /\ ns[q].leaf \in BOOLEAN
      BY <1>0, NodeFacts DEF LeafStep, NodeOK, NodeSet
    <3> QED BY <2>3, <3>1 DEF LeafStep
  <2> QED BY <2>2, <2>3
<1>2. ASSUME NEW p \in 1 .. Len(ms) PROVE NodeOK(ms[p], Len(ms))
  <2>1. CASE p \in 1 .. Len(ns) /\ p # q
    <3>1. ms[p] = ns[p] /\ NodeOK(ns[p], Len(ns))
      BY <2>1 DEF LeafStep, Shape
    <3> QED BY <3>1, <1>0 DEF NodeOK
  <2>2. CASE p = q
    BY <2>2 DEF LeafStep
  <2>3. CASE p \notin 1 .. Len(ns)
    BY <2>3, <1>0
  <2> QED BY <2>1, <2>2, <2>3
<1>3. ASSUME NEW p \in 1 .. Len(ms), ~ms[p].leaf
      PROVE  p \in 1 .. Len(ns) /\ ms[p] = ns[p] /\ ~ns[p].leaf
  <2>1. p \in 1 .. Len(ns)
    BY <1>0, <1>3
  <2> QED BY <2>1, <1>1, <1>3
<1>4. ASSUME NEW p \in 1 .. Len(ms), ~ms[p].leaf, NEW i \in 1 .. Len(ms[p].refs)
      PROVE  ChildOK(ms, rt, d, p, i)
  <2>1. p \in 1 .. Len(ns) /\ ms[p] = ns[p] /\ ~ns[p].leaf
    BY <1>3, <1>4
  <2> DEFINE c == ns[p].refs[i]
             o == ns[p].refs[1]
  <2>2. 1 \in 1 .. Len(ns[p].refs)
    BY <2>1, NodeFacts
  <2>3. c \in 1 .. Len(ns) /\ ns[c].parent = p /\ (p # rt => ns[c].leaf) /\ ns[c].leaf = ns[o].leaf
    BY <2>1, <1>4, ChildFacts
  <2>4. o \in 1 .. Len(ns)
    BY <2>1, <2>2, ChildFacts
  <2>5. ms[p].refs[i] = c /\ ms[p].refs[1] = o
    BY <2>1
  <2> HIDE DEF c, o
  <2>6. c \in 1 .. Len(ms) /\ c # d
    BY <2>3, <1>0
  <2> QED BY <2>3, <2>4, <2>5, <2>6, <1>1 DEF ChildOK
<1>5. ASSUME NEW p \in 1 .. Len(ms), p # rt, p # d PROVE ParentOK(ms, p)
  <2>1. p \in 1 .. Len(ns) /\ p # 0
    BY <1>0, <1>5
  <2> DEFINE u == ns[p].parent
  <2>2. u \in 1 .. Len(ns) /\ ~ns[u].leaf /\ \E i \in 1 .. Len(ns[u].refs) : ns[u].refs[i] = p
    BY <2>1, <1>5, ParentFacts
  <2>3. ms[p].parent = u
    BY <2>1, <1>1
  <2> HIDE DEF u
  <2>4. ms[u] = ns[u] /\ u # 0
    BY <2>2, <1>1
  <2> QED BY <2>2, <2>3, <2>4 DEF ParentOK, InSeq
<1>6. rt \in 1 .. Len(ms) /\ rt # d /\ ms[rt].parent = 0
  BY <1>0, <1>1
<1>7. Len(ms) \in Nat /\ ms = [p \in 1 .. Len(ms) |-> ms[p]]
  BY DEF LeafStep
<1> QED BY <1>2, <1>4, <1>5, <1>6, <1>7 DEF Shape

\* A key may come to the leaf that the separators lead to.
LEMMA LeafStepOrder ==
  ASSUME NEW ns, NEW rt, Shape(ns, rt, 0), Order(ns), NEW ms, NEW q, NEW d, LeafStep(ms, ns, q, d),
         \A x \in Int : InSeq(ms[q].keys, x) => InSeq(ns[q].keys, x) \/ Path(ns, rt, x, q)
  PROVE  Order(ms)
<1>0. /\ Len(ns) \in Nat /\ Len(ms) \in Nat /\ rt \in 1 .. Len(ns) /\ q \in 1 .. Len(ns)
      /\ ms[q].leaf /\ ns[q].leaf
      /\ \A p \in 1 .. Len(ms) : p \notin 1 .. Len(ns) => ms[p].leaf
  BY LeafStepFacts
<1>1. SUFFICES ASSUME NEW p \in 1 .. Len(ms), ~ms[p].leaf, NEW i \in 1 .. Len(ms[p].refs),
                      NEW k \in Int, Below(ms, ms[p].refs[i], k)
               PROVE  Slot(ms[p].keys, k, i)
  BY DEF Order, OrderAt
<1>2. p \in 1 .. Len(ns) /\ p # q
  BY <1>0, <1>1
<1>3. ms[p] = ns[p] /\ ~ns[p].leaf
  BY <1>1, <1>2 DEF LeafStep
<1> DEFINE c == ns[p].refs[i]
<1>4. c \in 1 .. Len(ns) /\ c # rt /\ ns[c].parent = p /\ c = ms[p].refs[i]
  BY <1>1, <1>2, <1>3, ChildFacts
<1>5. i \in 1 .. Len(ns[p].refs) /\ ns[p].refs[i] = c
  BY <1>1, <1>3
<1> HIDE DEF c
<1>6. Below(ns, c, k) => Slot(ns[p].keys, k, i)
  BY <1>2, <1>3, <1>5 DEF Order, OrderAt
<1>7. Up(ns, c, k) => Slot(ns[p].keys, k, i)
  BY <1>4, <1>5 DEF Up
<1>8. ASSUME InSeq(ms[c].keys, k) PROVE Slot(ns[p].keys, k, i)
  <2>1. CASE c # q
    BY <2>1, <1>4, <1>6, <1>8 DEF LeafStep, Below
  <2>2. CASE c = q
    <3>1. CASE InSeq(ns[q].keys, k)
      BY <3>1, <2>2, <1>6 DEF Below
    <3>2. CASE Path(ns, rt, k, q)
      BY <3>2, <2>2, <1>4, <1>7 DEF Path
    <3> QED BY <3>1, <3>2, <2>2, <1>8
  <2> QED BY <2>1, <2>2
<1>9. ASSUME ~ms[c].leaf, NEW j \in 1 .. Len(ms[c].refs), InSeq(ms[ms[c].refs[j]].keys, k)
      PROVE  Slot(ns[p].keys, k, i)
  <2>1. c # q
    BY <1>0, <1>9
  <2>2. ms[c] = ns[c]
    BY <2>1, <1>4 DEF LeafStep
  <2> DEFINE g == ns[c].refs[j]
  <2>4. j \in 1 .. Len(ns[c].refs) /\ ns[c].refs[j] = g /\ ~ns[c].leaf /\ g = ms[c].refs[j]
    BY <2>2, <1>9
  <2>3. g \in 1 .. Len(ns) /\ g # rt /\ ns[g].parent = c
    <3>1. Shape(ns, rt, 0) /\ c \in 1 .. Len(ns) /\ ~ns[c].leaf /\ j \in 1 .. Len(ns[c].refs)
      BY <2>4, <1>4
    <3> QED BY ONLY <3>1, ChildFacts
  <2> HIDE DEF g
  <2>5. InSeq(ns[g].keys, k) => Below(ns, c, k)
    BY <2>4 DEF Below
  <2>6. CASE g # q
    BY <2>6, <2>3, <2>4, <2>5, <1>6, <1>9 DEF LeafStep
  <2>7. CASE g = q
    <3>1. CASE InSeq(ns[q].keys, k)
      BY <3>1, <2>7, <2>5, <1>6
    <3>2. CASE Path(ns, rt, k, q)
      BY <3>2, <2>7, <2>3, <1>4, <1>7 DEF Path
    <3> QED BY <3>1, <3>2, <2>4, <2>7, <1>9
  <2> QED BY <2>6, <2>7
<1>10. Slot(ns[p].keys, k, i)
  BY <1>1, <1>4, <1>8, <1>9 DEF Below
<1> QED BY <1>3, <1>10

LEMMA LeafStepStored ==
  ASSUME NEW ns, NEW rt, Shape(ns, rt, 0), NEW ms, NEW q, NEW d, LeafStep(ms, ns, q, d), NEW k \in Keys,
         \A x : InSeq(ms[q].keys, x) \/ (d # 0 /\ InSeq(ms[d].keys, x))
                    <=> InSeq(ns[q].keys, x) \/ x = k
  PROVE  Stored(ms) = Stored(ns) \cup {k}
<1>0. /\ Len(ns) \in Nat /\ Len(ms) \in Nat /\ Len(ns) <= Len(ms) /\ q \in 1 .. Len(ns)
      /\ ms[q].leaf /\ ns[q].leaf /\ d \notin 1 .. Len(ns)
      /\ \A p \in 1 .. Len(ms) : p \notin 1 .. Len(ns) => p = d
  BY LeafStepFacts
<1>1. \A p \in 1 .. Len(ns) : p # q => ms[p] = ns[p]
  BY DEF LeafStep
<1>2. d # 0 => d \in 1 .. Len(ms) /\ ms[d].leaf
  <2>1. \/ d = 0
        \/ d = Len(ns) + 1 /\ Len(ms) = Len(ns) + 1 /\ ms[d].leaf
    BY DEF LeafStep
  <2> QED BY <2>1, <1>0
<1>3. ASSUME NEW x \in Keys, x \in Stored(ms) PROVE x \in Stored(ns) \/ x = k
  <2>1. PICK p \in 1 .. Len(ms) : ms[p].leaf /\ InSeq(ms[p].keys, x)
    BY <1>3 DEF Stored
  <2>2. CASE p \in 1 .. Len(ns) /\ p # q
    BY <2>1, <2>2, <1>1 DEF Stored
  <2>3. CASE p = q \/ p \notin 1 .. Len(ns)
    <3>1. InSeq(ns[q].keys, x) \/ x = k
      BY <2>1, <2>3, <1>0
    <3> QED BY <3>1, <1>0 DEF Stored
  <2> QED BY <2>2, <2>3
<1>4. ASSUME NEW x \in Keys, x \in Stored(ns) \/ x = k PROVE x \in Stored(ms)
  <2>1. CASE InSeq(ns[q].keys, x) \/ x = k
    <3>1. InSeq(ms[q].keys, x) \/ (d # 0 /\ InSeq(ms[d].keys, x))
      BY <2>1
    <3>2. q \in 1 .. Len(ms)
      BY <1>0
    <3> QED BY <3>1, <3>2, <1>0, <1>2 DEF Stored
  <2>2. CASE ~(InSeq(ns[q].keys, x) \/ x = k)
    <3>1. PICK p \in 1 .. Len(ns) : ns[p].leaf /\ InSeq(ns[p].keys, x)
      BY <2>2, <1>4 DEF Stored
    <3>2. p # q /\ p \in 1 .. Len(ms)
      BY <3>1, <2>2, <1>0
    <3> QED BY <3>1, <3>2, <1>1 DEF Stored
  <2> QED BY <2>1, <2>2
<1>5. Stored(ms) \subseteq Keys /\ Stored(ns) \subseteq Keys
  BY DEF Stored
<1> QED BY <1>3, <1>4, <1>5

\* The entries from m to e, as a leaf.
LeafPart(n, m, e, nx) ==
    [leaf |-> n.leaf, keys |-> SubSeq(n.keys, m, e), refs |-> SubSeq(n.refs, m, e),
     parent |-> n.parent, next |-> nx]

IsPart(h, n, m, e, nx) ==
    /\ Entries(h) /\ Len(h.keys) = e - m + 1 /\ h.parent = n.parent /\ h.next = nx
    /\ \A x : InSeq(h.keys, x) <=> \E j \in m .. e : n.keys[j] = x

LEMMA PartOfLeaf ==
  ASSUME NEW n, Entries(n), NEW m \in 1 .. Len(n.keys) + 1, NEW e \in 0 .. Len(n.keys), m <= e + 1,
         NEW nx \in Nat, NEW h, h = LeafPart(n, m, e, nx)
  PROVE  IsPart(h, n, m, e, nx)
<1> DEFINE ks == SubSeq(n.keys, m, e)
           rs == SubSeq(n.refs, m, e)
           len == e - m + 1
<1>1. /\ n.keys \in Seq(Int) /\ n.refs \in Seq(Nat) /\ Len(n.keys) \in Nat
      /\ Len(n.refs) = Len(n.keys) /\ Sorted(n.keys)
      /\ \A j \in 1 .. Len(n.keys) : n.keys[j] \in Keys /\ n.refs[j] = RidOf[n.keys[j]]
  BY EntriesFacts
<1>2. ks \in Seq(Int) /\ Len(ks) = len /\ \A j \in 1 .. len : ks[j] = n.keys[m + j - 1]
  BY <1>1, PartFacts
<1>3. rs \in Seq(Nat) /\ Len(rs) = len /\ \A j \in 1 .. len : rs[j] = n.refs[m + j - 1]
  <2>1. m \in 1 .. Len(n.refs) + 1 /\ e \in 0 .. Len(n.refs)
    BY <1>1
  <2>2. n.refs \in Seq(Nat) /\ m <= e + 1
    BY <1>1
  <2> QED BY ONLY <2>1, <2>2, PartFacts, SMTT(30)
<1>4. h = [leaf |-> n.leaf, keys |-> ks, refs |-> rs, parent |-> n.parent, next |-> nx]
  BY DEF LeafPart
<1> HIDE DEF ks, rs
<1>5. n.leaf /\ n.parent \in Nat /\ n.leaf \in BOOLEAN
  BY DEF Entries, NodeSet
<1>6. h \in NodeSet /\ h.leaf /\ h.keys = ks /\ h.refs = rs /\ h.parent = n.parent /\ h.next = nx
  BY ONLY <1>2, <1>3, <1>4, <1>5, nx \in Nat DEF NodeSet
<1>7. \A j \in 1 .. len : m + j - 1 \in 1 .. Len(n.keys) /\ m + j - 1 \in m .. e
  BY <1>1
<1>8. Sorted(ks)
  <2>1. SUFFICES ASSUME NEW i \in 1 .. len, NEW j \in 1 .. len, i < j PROVE ks[i] < ks[j]
    BY <1>2 DEF Sorted
  <2>2. m + i - 1 < m + j - 1
    BY <2>1, <1>1
  <2>3. n.keys[m + i - 1] < n.keys[m + j - 1]
    BY <2>2, <1>1, <1>7 DEF Sorted
  <2> QED BY <2>3, <1>2
<1>9. Entries(h)
  <2>1. \A j \in 1 .. len : ks[j] \in Keys /\ rs[j] = RidOf[ks[j]]
    BY <1>1, <1>2, <1>3, <1>7
  <2>2. Len(h.keys) = len /\ Len(h.refs) = len /\ Sorted(h.keys)
    BY <1>2, <1>3, <1>6, <1>8
  <2> HIDE DEF len
  <2>3. \A j \in 1 .. Len(h.keys) : h.keys[j] \in Keys /\ h.refs[j] = RidOf[h.keys[j]]
    BY <2>1, <2>2, <1>6
  <2> QED BY <2>2, <2>3, <1>6 DEF Entries
<1>10. ASSUME NEW j \in m .. e PROVE j - m + 1 \in 1 .. len /\ ks[j - m + 1] = n.keys[j]
  <2>1. j - m + 1 \in 1 .. len /\ m + (j - m + 1) - 1 = j
    BY <1>1, SMTT(30)
  <2> QED BY <2>1, <1>2
<1>11. \A x : InSeq(ks, x) <=> \E j \in m .. e : n.keys[j] = x
  <2>1. ASSUME NEW x, InSeq(ks, x) PROVE \E j \in m .. e : n.keys[j] = x
    <3>1. PICK i \in 1 .. len : ks[i] = x
      BY <2>1, <1>2 DEF InSeq
    <3> QED BY <3>1, <1>2, <1>7
  <2>2. ASSUME NEW x, NEW j \in m .. e, n.keys[j] = x PROVE InSeq(ks, x)
    BY <2>2, <1>10, <1>2 DEF InSeq
  <2> QED BY <2>1, <2>2
<1> QED BY <1>2, <1>6, <1>9, <1>11 DEF IsPart

-----------------------------------------------------------------------------
(* The chain of leaves.                                                    *)

\* The search for k, were it to know of the split of l, would go by way of c.
Due(ns, rt, l, u, r, c, k) ==
    /\ c = l => k < u
    /\ c = r => u <= k /\ (l # rt => Up(ns, l, k))
    /\ c # r /\ c # rt => Up(ns, c, k)

\* It would end at the leaf q.
Route(ns, rt, l, u, r, k, q) ==
    /\ q \in 1 .. Len(ns) /\ ns[q].leaf
    /\ Due(ns, rt, l, u, r, q, k)
    /\ ns[q].parent # 0 => Due(ns, rt, l, u, r, ns[q].parent, k)

\* The same while r is not in the tree yet.
Woven(ns, rt, l, u, r) ==
    \E s : /\ Chain(ns, s)
           /\ \A i, j \in 1 .. Len(s) : \A x, y \in Int :
                  i < j /\ Route(ns, rt, l, u, r, x, s[i]) /\ Route(ns, rt, l, u, r, y, s[j]) => x < y

\* The leaves are the same and in the same order.
SameChain(ms, ns) ==
    /\ Len(ns) \in Nat /\ Len(ms) \in Nat /\ Len(ns) <= Len(ms)
    /\ \A p \in 1 .. Len(ns) : ms[p].leaf = ns[p].leaf /\ ms[p].next = ns[p].next
    /\ \A p \in 1 .. Len(ms) : p \in 1 .. Len(ns) \/ (~ms[p].leaf /\ ms[p].next = 0)

LEMMA ChainKept ==
  ASSUME NEW ns, NEW ms, SameChain(ms, ns), NEW s, Chain(ns, s)
  PROVE  Chain(ms, s)
<1>1. /\ s \in Seq(Nat) /\ Len(s) \in Nat /\ Len(s) # 0 /\ Distinct(s)
      /\ \A i \in 1 .. Len(s) :
             /\ s[i] \in 1 .. Len(ns) /\ ns[s[i]].leaf
             /\ ns[s[i]].next = IF i < Len(s) THEN s[i + 1] ELSE 0
      /\ \A p \in 1 .. Len(ns) : IF ns[p].leaf THEN InSeq(s, p) ELSE ns[p].next = 0
  BY DEF Chain
<1>2. /\ Len(ns) \in Nat /\ Len(ms) \in Nat /\ Len(ns) <= Len(ms)
      /\ \A p \in 1 .. Len(ns) : ms[p].leaf = ns[p].leaf /\ ms[p].next = ns[p].next
      /\ \A p \in 1 .. Len(ms) : p \in 1 .. Len(ns) \/ (~ms[p].leaf /\ ms[p].next = 0)
  BY DEF SameChain
<1>3. \A p \in 1 .. Len(ns) : p \in 1 .. Len(ms)
  BY <1>2
<1>4. \A i \in 1 .. Len(s) : /\ s[i] \in 1 .. Len(ms) /\ ms[s[i]].leaf
                             /\ ms[s[i]].next = IF i < Len(s) THEN s[i + 1] ELSE 0
  BY ONLY <1>1, <1>2, <1>3
<1>5. \A p \in 1 .. Len(ms) : IF ms[p].leaf THEN InSeq(s, p) ELSE ms[p].next = 0
  BY ONLY <1>1, <1>2
<1> QED BY ONLY <1>1, <1>4, <1>5 DEF Chain

\* The new node is told of, and the search is what it would have been.
LEMMA WovenThreaded ==
  ASSUME NEW ns, NEW rt, NEW l, NEW u, NEW r, Woven(ns, rt, l, u, r), NEW ms, NEW tt, SameChain(ms, ns),
         \A k \in Int : \A q : Path(ms, tt, k, q) => Route(ns, rt, l, u, r, k, q)
  PROVE  Threaded(ms, tt)
<1>1. PICK s : /\ Chain(ns, s)
               /\ \A i, j \in 1 .. Len(s) : \A x, y \in Int :
                      i < j /\ Route(ns, rt, l, u, r, x, s[i]) /\ Route(ns, rt, l, u, r, y, s[j]) => x < y
  BY DEF Woven
<1>2. Chain(ms, s)
  BY <1>1, ChainKept
<1>3. \A i, j \in 1 .. Len(s) : \A x, y \in Int :
          i < j /\ Path(ms, tt, x, s[i]) /\ Path(ms, tt, y, s[j]) => x < y
  BY <1>1
<1> QED BY ONLY <1>2, <1>3 DEF Threaded

LEMMA WovenOn ==
  ASSUME NEW ns, NEW rt, NEW l, NEW u, NEW r, Woven(ns, rt, l, u, r), NEW ms, NEW P, NEW v, NEW N, SameChain(ms, ns),
         \A k \in Int : \A q : Route(ms, rt, P, v, N, k, q) => Route(ns, rt, l, u, r, k, q)
  PROVE  Woven(ms, rt, P, v, N)
<1>1. PICK s : /\ Chain(ns, s)
               /\ \A i, j \in 1 .. Len(s) : \A x, y \in Int :
                      i < j /\ Route(ns, rt, l, u, r, x, s[i]) /\ Route(ns, rt, l, u, r, y, s[j]) => x < y
  BY DEF Woven
<1>2. Chain(ms, s)
  BY <1>1, ChainKept
<1>3. \A i, j \in 1 .. Len(s) : \A x, y \in Int :
          i < j /\ Route(ms, rt, P, v, N, x, s[i]) /\ Route(ms, rt, P, v, N, y, s[j]) => x < y
  BY <1>1
<1> QED BY ONLY <1>2, <1>3 DEF Woven

\* A leaf changes its keys: no search goes elsewhere.
LEMMA LeafStepThreaded ==
  ASSUME NEW ns, NEW rt, Shape(ns, rt, 0), Threaded(ns, rt), NEW ms, NEW q, LeafStep(ms, ns, q, 0),
         ms[q].next = ns[q].next
  PROVE  Threaded(ms, rt)
<1>1. /\ Len(ns) \in Nat /\ Len(ms) = Len(ns) /\ q \in 1 .. Len(ns) /\ ns[q].leaf /\ ms[q].leaf
      /\ ms[q].parent = ns[q].parent /\ \A p \in 1 .. Len(ns) : p # q => ms[p] = ns[p]
  <2>1. Len(ns) \in Nat
    BY DEF Shape
  <2>2. 0 # Len(ns) + 1
    BY ONLY <2>1
  <2> QED BY ONLY <2>1, <2>2, LeafStep(ms, ns, q, 0) DEF LeafStep
<1>2. SameChain(ms, ns)
  <2>1. ms[q].leaf = ns[q].leaf
    <3>1. ns[q].leaf \in BOOLEAN
      BY <1>1, NodeFacts
    <3>2. ms[q].leaf \in BOOLEAN
      <4>1. ms[q] \in NodeSet
        BY ONLY LeafStep(ms, ns, q, 0) DEF LeafStep, NodeOK
      <4> QED BY ONLY <4>1 DEF NodeSet
    <3> QED BY <3>1, <3>2, <1>1
  <2>2. \A p \in 1 .. Len(ns) : ms[p].leaf = ns[p].leaf /\ ms[p].next = ns[p].next
    BY ONLY <2>1, <1>1, ms[q].next = ns[q].next, Zenon
  <2>3. Len(ms) \in Nat /\ Len(ns) <= Len(ms) /\ \A p \in 1 .. Len(ms) : p \in 1 .. Len(ns)
    BY ONLY <1>1
  <2> QED BY ONLY <2>2, <2>3, <1>1 DEF SameChain
<1>3. ASSUME NEW k \in Int, NEW p, Path(ms, rt, k, p) PROVE Path(ns, rt, k, p)
  <2>1. p \in 1 .. Len(ns) /\ ns[p].leaf /\ ms[p].parent = ns[p].parent
    BY <1>1, <1>3 DEF Path
  <2>2. ASSUME p # rt PROVE Up(ns, p, k) /\ (ns[p].parent # rt => Up(ns, ns[p].parent, k))
    <3> DEFINE c == ns[p].parent
    <3>1. Up(ms, p, k) /\ (c # rt => Up(ms, c, k))
      BY <2>1, <2>2, <1>3 DEF Path
    <3>2. c \in 1 .. Len(ns) /\ ~ns[c].leaf /\ p # 0
      BY <2>1, <2>2, ParentFacts
    <3>3. c # 0 /\ ms[p].parent = c /\ ns[p].parent = c
      BY <2>1, <3>2
    <3> HIDE DEF c
    <3>4. ms[c] = ns[c]
      BY <3>2, <1>1
    <3>5. Up(ns, p, k)
      BY ONLY <3>1, <3>3, <3>4 DEF Up
    <3>6. ASSUME c # rt PROVE Up(ns, c, k)
      <4>1. ns[c].parent \in 1 .. Len(ns) /\ ~ns[ns[c].parent].leaf
        BY <3>2, <3>3, <3>6, ParentFacts
      <4>2. ms[ns[c].parent] = ns[ns[c].parent]
        BY <4>1, <1>1
      <4> QED BY ONLY <4>2, <3>1, <3>4, <3>6 DEF Up
    <3> QED BY ONLY <3>3, <3>5, <3>6
  <2> QED BY ONLY <2>1, <2>2 DEF Path
<1>4. PICK s : /\ Chain(ns, s)
               /\ \A i, j \in 1 .. Len(s) : \A x, y \in Int :
                      i < j /\ Path(ns, rt, x, s[i]) /\ Path(ns, rt, y, s[j]) => x < y
  BY DEF Threaded
<1>5. Chain(ms, s)
  BY ONLY <1>2, <1>4, ChainKept
<1>6. \A i, j \in 1 .. Len(s) : \A x, y \in Int :
          i < j /\ Path(ms, rt, x, s[i]) /\ Path(ms, rt, y, s[j]) => x < y
  BY ONLY <1>3, <1>4
<1> QED BY ONLY <1>5, <1>6 DEF Threaded

-----------------------------------------------------------------------------
(* A split that its parent has still to be told of.                        *)

\* Node l was split: u and up went to r, what is below u stayed.  The way that
\* the separators lead to l is the one to what r holds.  The leaves are chained.
Pend(ns, rt, l, u, r) ==
    /\ Shape(ns, rt, r) /\ Order(ns)
    /\ l \in 1 .. Len(ns) /\ r \in 1 .. Len(ns) /\ l # r /\ u \in Int
    /\ ns[l].leaf = ns[r].leaf
    /\ ns[l].leaf => ns[r].parent = ns[l].parent
    /\ ~ns[l].leaf => \A i \in 1 .. Len(ns[l].refs) : ns[ns[l].refs[i]].leaf
    /\ \A k \in Int : Below(ns, r, k) => u <= k
    /\ \A k \in Int : Below(ns, l, k) => k < u
    /\ \E k \in Int : Below(ns, l, k)
    /\ Woven(ns, rt, l, u, r)
    /\ l # rt => \A k \in Int : k = u \/ Below(ns, r, k) =>
           /\ Up(ns, l, k)
           /\ ns[l].parent # rt => Up(ns, ns[l].parent, k)

\* Leaf q becomes a, and b is new.
SplitInto(ms, ns, q, a, b) ==
    /\ Len(ms) = Len(ns) + 1
    /\ ms = [p \in 1 .. Len(ms) |-> IF p = q THEN a ELSE IF p = Len(ns) + 1 THEN b ELSE ns[p]]

\* What a full leaf is split into, the new key being put in.
Halves(a, b, n, u, k, new) ==
    /\ Entries(a) /\ Entries(b)
    /\ Len(a.keys) <= LEAF_MAX_ENTRIES /\ Len(b.keys) <= LEAF_MAX_ENTRIES
    /\ a.parent = n.parent /\ b.parent = n.parent /\ a.next = new /\ b.next = n.next
    /\ u \in Int /\ InSeq(n.keys, u)
    /\ \A x : InSeq(a.keys, x) \/ InSeq(b.keys, x) <=> InSeq(n.keys, x) \/ x = k
    /\ \A x \in Int : (InSeq(a.keys, x) => x < u) /\ (InSeq(b.keys, x) => u <= x)
    /\ \E x \in Int : InSeq(a.keys, x)

\* A leaf is split: the new one comes behind it in the chain.
LEMMA SplitWoven ==
  ASSUME NEW ns, NEW rt, Shape(ns, rt, 0), Threaded(ns, rt), NEW q \in 1 .. Len(ns), ns[q].leaf,
         NEW ms, NEW a, NEW b, NEW N, N = Len(ns) + 1, SplitInto(ms, ns, q, a, b),
         a.leaf, b.leaf, a.parent = ns[q].parent, b.parent = ns[q].parent,
         a.next = N, b.next = ns[q].next, NEW u \in Int
  PROVE  Woven(ms, rt, q, u, N)
<1>0. Len(ns) \in Nat /\ N \in Nat /\ N # 0 /\ q # N /\ N \notin 1 .. Len(ns) /\ rt \in 1 .. Len(ns)
  BY DEF Shape
<1>1. /\ Len(ms) = N /\ ms[q] = a /\ ms[N] = b
      /\ \A p \in 1 .. Len(ns) : p # q => ms[p] = ns[p]
  <2>1. q \in 1 .. N /\ N \in 1 .. N /\ Len(ms) = N
    BY <1>0 DEF SplitInto
  <2>2. ms = [p \in 1 .. Len(ms) |-> IF p = q THEN a ELSE IF p = N THEN b ELSE ns[p]]
    BY DEF SplitInto
  <2>3. \A p \in 1 .. Len(ns) : p \in 1 .. N /\ p # N
    BY <1>0
  <2> QED BY ONLY <2>1, <2>2, <2>3, <1>0
<1>2. PICK s : /\ Chain(ns, s)
               /\ \A i, j \in 1 .. Len(s) : \A x, y \in Int :
                      i < j /\ Path(ns, rt, x, s[i]) /\ Path(ns, rt, y, s[j]) => x < y
  BY DEF Threaded
<1>3. /\ s \in Seq(Nat) /\ Len(s) \in Nat /\ Len(s) # 0 /\ Distinct(s)
      /\ \A i \in 1 .. Len(s) :
             /\ s[i] \in 1 .. Len(ns) /\ ns[s[i]].leaf
             /\ ns[s[i]].next = IF i < Len(s) THEN s[i + 1] ELSE 0
      /\ \A p \in 1 .. Len(ns) : IF ns[p].leaf THEN InSeq(s, p) ELSE ns[p].next = 0
  BY <1>2 DEF Chain
<1>4. PICK i \in 1 .. Len(s) : s[i] = q
  BY <1>3 DEF InSeq
<1> DEFINE z == InsertAt(s, i + 1, N)
<1>5. z \in Seq(Nat) /\ With(z, s, i + 1, N)
  <2>1. i + 1 \in 1 .. Len(s) + 1
    BY <1>3
  <2> QED BY ONLY <2>1, <1>0, <1>3, InsertAtFacts
<1> HIDE DEF z
<1>6. /\ Len(z) = Len(s) + 1 /\ z[i + 1] = N
      /\ \A j \in 1 .. i : z[j] = s[j]
      /\ \A j \in i + 1 .. Len(s) : z[j + 1] = s[j]
  <2>1. \A j \in 1 .. i : j \in 1 .. (i + 1) - 1
    BY <1>3
  <2> QED BY ONLY <2>1, <1>5 DEF With
\* Where the j-th leaf of the new chain was in the old one.
<1> DEFINE o(j) == IF j <= i THEN j ELSE j - 1
<1>7. ASSUME NEW j \in 1 .. Len(z)
      PROVE  /\ o(j) \in 1 .. Len(s) /\ o(j) \in Int
             /\ j # i + 1 => z[j] = s[o(j)]
             /\ j = i + 1 => z[j] = N /\ o(j) = i
             /\ o(j) = i => j = i \/ j = i + 1
  <2>1. CASE j <= i
    BY <2>1, <1>3, <1>6
  <2>2. CASE j = i + 1
    BY <2>2, <1>3, <1>6
  <2>3. CASE j > i + 1
    <3>1. j - 1 \in i + 1 .. Len(s) /\ (j - 1) + 1 = j /\ o(j) = j - 1
      BY <2>3, <1>3, <1>6
    <3>2. z[j] = s[j - 1]
      BY ONLY <3>1, <1>6
    <3> QED BY <3>1, <3>2, <2>3, <1>3
  <2> QED BY <2>1, <2>2, <2>3, <1>3
<1>8. \A j \in 1 .. Len(z) : j # i + 1 => z[j] \in 1 .. Len(ns) /\ (j # i => z[j] # q)
  <2>1. SUFFICES ASSUME NEW j \in 1 .. Len(z), j # i + 1
                 PROVE  z[j] \in 1 .. Len(ns) /\ (j # i => z[j] # q)
    OBVIOUS
  <2>2. o(j) \in 1 .. Len(s) /\ z[j] = s[o(j)] /\ (o(j) = i => j = i)
    BY <2>1, <1>7
  <2> HIDE DEF o
  <2> QED BY ONLY <2>2, <1>3, <1>4 DEF Distinct
<1>9. Distinct(z)
  <2>1. SUFFICES ASSUME NEW j \in 1 .. Len(z), NEW m \in 1 .. Len(z), z[j] = z[m] PROVE j = m
    BY DEF Distinct
  <2>2. CASE j = i + 1 \/ m = i + 1
    BY ONLY <2>1, <2>2, <1>0, <1>6, <1>8
  <2>3. CASE j # i + 1 /\ m # i + 1
    <3>1. /\ o(j) \in 1 .. Len(s) /\ o(m) \in 1 .. Len(s)
          /\ z[j] = s[o(j)] /\ z[m] = s[o(m)]
      BY <2>3, <1>7
    <3>2. o(j) = o(m)
      <4> HIDE DEF o
      <4>1. s[o(j)] = s[o(m)]
        BY ONLY <3>1, <2>1
      <4>2. \A x, y \in 1 .. Len(s) : s[x] = s[y] => x = y
        BY ONLY <1>3 DEF Distinct
      <4> QED BY ONLY <4>1, <4>2, <3>1
    <3>3. j \in Int /\ m \in Int /\ i \in Int
      OBVIOUS
    <3> QED BY ONLY <3>2, <3>3, <2>3 DEF o
  <2> QED BY ONLY <2>2, <2>3
<1>10. ASSUME NEW j \in 1 .. Len(z)
       PROVE  /\ z[j] \in 1 .. Len(ms) /\ ms[z[j]].leaf
              /\ ms[z[j]].next = IF j < Len(z) THEN z[j + 1] ELSE 0
  <2>0. i \in Int /\ j \in Int /\ Len(z) = Len(s) + 1 /\ j >= 1 /\ j <= Len(s) + 1 /\ i >= 1 /\ i <= Len(s)
    BY <1>3, <1>6
  <2>1. CASE j = i + 1
    <3>1. z[j] = N /\ z[j] \in 1 .. Len(ms) /\ ms[z[j]].leaf /\ ms[z[j]].next = ns[q].next
      BY <2>1, <1>0, <1>1, <1>6
    <3>2. ns[q].next = IF i < Len(s) THEN s[i + 1] ELSE 0
      BY ONLY <1>3, <1>4
    <3>3. j < Len(z) <=> i < Len(s)
      BY ONLY <2>0, <2>1, <1>3
    <3>4. i < Len(s) => z[j + 1] = s[i + 1]
      <4>1. i < Len(s) => i + 1 \in i + 1 .. Len(s)
        BY ONLY <2>0, <1>3
      <4> QED BY ONLY <4>1, <2>1, <1>6
    <3> QED BY ONLY <3>1, <3>2, <3>3, <3>4
  <2>2. CASE j = i
    <3>1. z[j] = q /\ j < Len(z)
      BY ONLY <2>0, <2>2, <1>3, <1>4, <1>6
    <3>2. q \in 1 .. Len(ms) /\ ms[q].leaf /\ ms[q].next = z[j + 1]
      BY <2>2, <1>0, <1>1, <1>6
    <3> QED BY ONLY <3>1, <3>2
  <2>3. CASE j < i
    <3>1. j \in 1 .. i /\ j + 1 \in 1 .. i /\ j \in 1 .. Len(s) /\ j < Len(s) /\ j < Len(z) /\ j # i + 1 /\ j # i
      BY ONLY <2>0, <2>3, <1>3
    <3>2. z[j] = s[j] /\ z[j + 1] = s[j + 1] /\ z[j] \in 1 .. Len(ns) /\ z[j] # q
      BY ONLY <3>1, <1>6, <1>8, j \in 1 .. Len(z)
    <3>3. ms[z[j]] = ns[s[j]] /\ z[j] \in 1 .. Len(ms)
      BY ONLY <3>2, <1>0, <1>1, N = Len(ns) + 1
    <3> QED BY ONLY <3>1, <3>2, <3>3, <1>3
  <2>4. CASE j > i + 1
    <3> DEFINE m == j - 1
    <3>1. /\ m \in i + 1 .. Len(s) /\ m \in 1 .. Len(s) /\ m + 1 = j /\ j # i + 1 /\ j # i /\ m \in Int
          /\ j < Len(z) <=> m < Len(s)
          /\ m < Len(s) => j \in i + 1 .. Len(s)
      BY ONLY <2>0, <2>4, <1>3
    <3> HIDE DEF m
    <3>2. z[j] = s[m] /\ z[j] \in 1 .. Len(ns) /\ z[j] # q
      BY ONLY <3>1, <1>6, <1>8, j \in 1 .. Len(z)
    <3>3. m < Len(s) => z[j + 1] = s[m + 1]
      BY ONLY <3>1, <1>6
    <3>4. ms[z[j]] = ns[s[m]] /\ z[j] \in 1 .. Len(ms)
      BY ONLY <3>2, <1>0, <1>1, N = Len(ns) + 1
    <3> QED BY ONLY <3>1, <3>2, <3>3, <3>4, <1>3
  <2> QED BY ONLY <2>0, <2>1, <2>2, <2>3, <2>4
<1>11. ASSUME NEW p \in 1 .. Len(ms) PROVE IF ms[p].leaf THEN InSeq(z, p) ELSE ms[p].next = 0
  <2>1. CASE p = N
    <3>1. i + 1 \in 1 .. Len(z)
      BY ONLY <1>3, <1>6, i \in 1 .. Len(s)
    <3>2. InSeq(z, p)
      BY ONLY <3>1, <2>1, <1>6 DEF InSeq
    <3> QED BY <3>2, <2>1, <1>1
  <2>2. CASE p # N /\ ~ms[p].leaf
    <3>1. p \in 1 .. Len(ns) /\ p # q
      BY <2>2, <1>0, <1>1
    <3> QED BY <3>1, <2>2, <1>1, <1>3
  <2>3. CASE p # N /\ ms[p].leaf
    <3>1. p \in 1 .. Len(ns) /\ ns[p].leaf
      BY <2>3, <1>0, <1>1
    <3>2. PICK m \in 1 .. Len(s) : s[m] = p
      BY ONLY <3>1, <1>3 DEF InSeq
    <3>3. CASE m <= i
      <4>1. m \in 1 .. i /\ m \in 1 .. Len(z)
        BY ONLY <3>3, <1>3, <1>6, m \in 1 .. Len(s), i \in 1 .. Len(s)
      <4> QED BY ONLY <4>1, <3>2, <2>3, <1>6 DEF InSeq
    <3>4. CASE ~(m <= i)
      <4>1. m \in i + 1 .. Len(s) /\ m + 1 \in 1 .. Len(z)
        BY ONLY <3>4, <1>3, <1>6, m \in 1 .. Len(s), i \in 1 .. Len(s)
      <4> QED BY ONLY <4>1, <3>2, <2>3, <1>6 DEF InSeq
    <3> QED BY ONLY <3>3, <3>4
  <2> QED BY ONLY <2>1, <2>2, <2>3
<1>12. Chain(ms, z)
  <2>1. Len(z) \in Nat /\ Len(z) # 0
    BY ONLY <1>3, <1>6
  <2> QED BY ONLY <2>1, <1>5, <1>9, <1>10, <1>11 DEF Chain
<1>13. ASSUME NEW j \in 1 .. Len(z), NEW x \in Int, Route(ms, rt, q, u, N, x, z[j])
       PROVE  /\ Path(ns, rt, x, s[o(j)]) /\ o(j) \in 1 .. Len(s)
              /\ j = i => x < u
              /\ j = i + 1 => u <= x
  <2> DEFINE p == z[j]
             v == s[o(j)]
  <2>1. v \in 1 .. Len(ns) /\ ns[v].leaf /\ o(j) \in 1 .. Len(s)
    BY <1>3, <1>7
  <2>2. (p = N /\ v = q /\ j = i + 1) \/ (p = v /\ p # N /\ j # i + 1)
    BY <1>0, <1>4, <1>7, <1>8
  <2>3. ms[p].parent = ns[v].parent
    BY <2>1, <2>2, <1>1
  <2>7. ms[v].parent = ns[v].parent
    BY <2>1, <1>1
  <2>4. /\ p = q => x < u
        /\ p = N => u <= x /\ (q # rt => Up(ms, q, x))
        /\ p # N /\ p # rt => Up(ms, p, x)
    BY <1>13 DEF Route, Due
  <2>5. v # rt => Up(ms, v, x)
    <3> HIDE DEF p, v
    <3> QED BY ONLY <2>2, <2>4
  <2>6. j = i => p = q
    BY ONLY <1>4, <1>6, i \in 1 .. Len(s)
  <2> HIDE DEF p, v
  <2>8. ASSUME v # rt PROVE Up(ns, v, x) /\ (ns[v].parent # rt => Up(ns, ns[v].parent, x))
    <3> DEFINE c == ns[v].parent
    <3>1. v # 0 /\ c = ns[v].parent
      BY <2>1
    <3>2. c \in 1 .. Len(ns) /\ ~ns[c].leaf
      BY <3>1, <2>1, <2>8, ParentFacts
    <3> HIDE DEF c
    <3>3. c # 0 /\ c # q /\ c # N /\ ms[c] = ns[c]
      BY <3>2, <1>0, <1>1
    <3>4. Up(ns, v, x)
      BY ONLY <3>1, <3>3, <2>5, <2>7, <2>8 DEF Up
    <3>5. ASSUME c # rt PROVE Up(ns, c, x)
      <4>1. Due(ms, rt, q, u, N, c, x)
        BY ONLY <1>13, <2>3, <3>1, <3>3 DEF Route, p
      <4>2. Up(ms, c, x)
        BY ONLY <4>1, <3>3, <3>5 DEF Due
      <4>3. ns[c].parent \in 1 .. Len(ns) /\ ~ns[ns[c].parent].leaf
        BY <3>2, <3>3, <3>5, ParentFacts
      <4>4. ms[ns[c].parent] = ns[ns[c].parent]
        BY <4>3, <1>1
      <4> QED BY ONLY <4>2, <4>4, <3>3 DEF Up
    <3> QED BY ONLY <3>1, <3>4, <3>5
  <2>9. Path(ns, rt, x, v)
    BY ONLY <2>1, <2>8 DEF Path
  <2>10. j = i + 1 => p = N
    <3>1. i \in Int
      OBVIOUS
    <3> QED BY ONLY <3>1, <2>2
  <2> QED BY ONLY <2>1, <2>4, <2>6, <2>9, <2>10 DEF v
<1>14. \A j, m \in 1 .. Len(z) : \A x, y \in Int :
           j < m /\ Route(ms, rt, q, u, N, x, z[j]) /\ Route(ms, rt, q, u, N, y, z[m]) => x < y
  <2>1. SUFFICES ASSUME NEW j \in 1 .. Len(z), NEW m \in 1 .. Len(z), NEW x \in Int, NEW y \in Int, j < m,
                        Route(ms, rt, q, u, N, x, z[j]), Route(ms, rt, q, u, N, y, z[m])
                 PROVE  x < y
    OBVIOUS
  <2>2. /\ Path(ns, rt, x, s[o(j)]) /\ o(j) \in 1 .. Len(s) /\ (j = i => x < u)
        /\ Path(ns, rt, y, s[o(m)]) /\ o(m) \in 1 .. Len(s) /\ (m = i + 1 => u <= y)
    BY ONLY <2>1, <1>13
  <2>3. o(j) < o(m) \/ (j = i /\ m = i + 1)
    <3>1. j \in Int /\ m \in Int /\ i \in Int
      OBVIOUS
    <3> QED BY ONLY <3>1, <2>1 DEF o
  <2> HIDE DEF o
  <2>4. CASE o(j) < o(m)
    BY ONLY <2>2, <2>4, <1>2, x \in Int, y \in Int
  <2>5. CASE j = i /\ m = i + 1
    BY ONLY <2>2, <2>5, u \in Int, x \in Int, y \in Int
  <2> QED BY ONLY <2>3, <2>4, <2>5
<1> QED BY ONLY <1>12, <1>14 DEF Woven

LEMMA HalvesPend ==
  ASSUME NEW ns, NEW rt, Shape(ns, rt, 0), Order(ns), Threaded(ns, rt),
         NEW k \in Keys, NEW q, Path(ns, rt, k, q),
         NEW ms, NEW a, NEW b, NEW u, SplitInto(ms, ns, q, a, b), Halves(a, b, ns[q], u, k, Len(ns) + 1)
  PROVE  Pend(ms, rt, q, u, Len(ns) + 1) /\ Stored(ms) = Stored(ns) \cup {k}
<1> DEFINE d == Len(ns) + 1
<1>0. /\ k \in Int /\ q \in 1 .. Len(ns) /\ ns[q].leaf /\ Len(ns) \in Nat
      /\ ns[q].next \in 0 .. Len(ns) /\ ns[q].parent \in 0 .. Len(ns)
  BY Capacities, NodeFacts DEF Path
<1>1. /\ Len(ms) = d /\ d \in Nat /\ ms[q] = a /\ ms[d] = b /\ q # d
      /\ \A p \in 1 .. Len(ns) : p # q => ms[p] = ns[p]
      /\ ms = [p \in 1 .. Len(ms) |-> ms[p]]
  <2>1. Len(ms) = d /\ d \in Nat /\ q # d /\ q \in 1 .. Len(ms) /\ d \in 1 .. Len(ms)
    BY <1>0 DEF SplitInto
  <2>2. ms = [p \in 1 .. Len(ms) |-> IF p = q THEN a ELSE IF p = d THEN b ELSE ns[p]]
    BY DEF SplitInto
  <2> HIDE DEF d
  <2>3. ms[q] = a /\ ms[d] = b /\ ms = [p \in 1 .. Len(ms) |-> ms[p]]
    BY <2>1, <2>2
  <2>4. ASSUME NEW p \in 1 .. Len(ns), p # q PROVE ms[p] = ns[p]
    <3>1. p \in 1 .. Len(ms) /\ p # d
      BY <2>1, <1>0 DEF d
    <3> QED BY <3>1, <2>2, <2>4
  <2> QED BY <2>1, <2>3, <2>4
<1>2. /\ a.leaf /\ b.leaf /\ a.parent = ns[q].parent /\ b.parent = ns[q].parent
      /\ NodeOK(a, d) /\ NodeOK(b, d)
  <2>1. /\ a.leaf /\ b.leaf /\ a.parent = ns[q].parent /\ b.parent = ns[q].parent
        /\ a.next = d /\ b.next = ns[q].next /\ a \in NodeSet /\ b \in NodeSet
    BY DEF Halves, Entries
  <2>2. a.next \in 0 .. d /\ b.next \in 0 .. d /\ a.parent \in 0 .. d /\ b.parent \in 0 .. d
    BY <2>1, <1>0
  <2>3. LeafOK(a) /\ LeafOK(b) /\ Sorted(a.keys) /\ Sorted(b.keys)
    BY DEF Halves, Entries, LeafOK
  <2> QED BY <2>1, <2>2, <2>3 DEF NodeOK
<1>3. d = Len(ns) + 1
  OBVIOUS
<1> HIDE DEF d
<1>4. LeafStep(ms, ns, q, d)
  BY <1>0, <1>1, <1>2, <1>3 DEF LeafStep
<1>5. Shape(ms, rt, d)
  BY <1>4, LeafStepShape
<1>6. \A x : InSeq(a.keys, x) \/ InSeq(b.keys, x) <=> InSeq(ns[q].keys, x) \/ x = k
  BY DEF Halves
<1>7. \A x \in Int : InSeq(ns[q].keys, x) \/ x = k => Path(ns, rt, x, q)
  BY <1>0, KeyPath
<1>8. Order(ms)
  BY <1>1, <1>4, <1>6, <1>7, LeafStepOrder
<1>9. Stored(ms) = Stored(ns) \cup {k}
  <2>1. d # 0
    BY <1>0, <1>3
  <2> QED BY <2>1, <1>1, <1>4, <1>6, LeafStepStored
<1>10. \A x : (Below(ms, q, x) <=> InSeq(a.keys, x)) /\ (Below(ms, d, x) <=> InSeq(b.keys, x))
  BY <1>1, <1>2 DEF Below
<1>11. \A x \in Int : (Below(ms, d, x) => u <= x) /\ (Below(ms, q, x) => x < u)
  BY <1>10 DEF Halves
<1>12. ASSUME q # rt, NEW x \in Int, x = u \/ Below(ms, d, x)
       PROVE  Up(ms, q, x) /\ (ms[q].parent # rt => Up(ms, ms[q].parent, x))
  <2>1. InSeq(ns[q].keys, x) \/ x = k
    BY <1>12, <1>6, <1>10 DEF Halves
  <2>2. Up(ns, q, x) /\ (ns[q].parent # rt => Up(ns, ns[q].parent, x))
    BY <2>1, <1>7, <1>12 DEF Path
  <2> DEFINE p == ns[q].parent
  <2>3. q # 0
    BY <1>0
  <2>4. p \in 1 .. Len(ns) /\ ~ns[p].leaf
    BY <2>3, <1>0, <1>12, ParentFacts
  <2>5. ms[q].parent = p
    BY <1>1, <1>2
  <2> HIDE DEF p
  <2>6. ms[p] = ns[p]
    BY <2>4, <1>0, <1>1
  <2>7. Up(ms, q, x)
    BY <2>2, <2>5, <2>6 DEF Up, p
  <2>8. ASSUME p # rt PROVE Up(ms, p, x)
    <3>1. p # 0
      BY <2>4
    <3>2. ns[p].parent \in 1 .. Len(ns) /\ ~ns[ns[p].parent].leaf
      BY <3>1, <2>4, <2>8, ParentFacts
    <3>3. ms[ns[p].parent] = ns[ns[p].parent]
      BY <3>2, <1>0, <1>1
    <3> QED BY <3>3, <2>2, <2>6, <2>8 DEF Up, p
  <2> QED BY <2>5, <2>7, <2>8
<1>13. q \in 1 .. Len(ms) /\ d \in 1 .. Len(ms) /\ u \in Int
  BY <1>0, <1>1, <1>3 DEF Halves
<1>14. ms[q].leaf = ms[d].leaf /\ ms[q].leaf /\ ms[d].parent = ms[q].parent
  <2>1. a.leaf \in BOOLEAN /\ b.leaf \in BOOLEAN
    BY <1>2 DEF NodeOK, NodeSet
  <2> QED BY <2>1, <1>1, <1>2
<1>16. \E x \in Int : Below(ms, q, x)
  BY <1>10 DEF Halves
<1>17. Woven(ms, rt, q, u, d)
  <2>1. a.leaf /\ b.leaf /\ a.parent = ns[q].parent /\ b.parent = ns[q].parent
    BY ONLY <1>2
  <2>2. a.next = d /\ b.next = ns[q].next
    BY ONLY Halves(a, b, ns[q], u, k, Len(ns) + 1), <1>3 DEF Halves
  <2> QED BY ONLY <2>1, <2>2, <1>0, <1>3, <1>13, Shape(ns, rt, 0), Threaded(ns, rt),
          SplitInto(ms, ns, q, a, b), SplitWoven
<1>15. Pend(ms, rt, q, u, d)
  BY <1>1, <1>5, <1>8, <1>11, <1>12, <1>13, <1>14, <1>16, <1>17 DEF Pend
<1> QED BY <1>9, <1>15 DEF d

\* A function on 1 .. n is a sequence of n.
LEMMA FunctionIsSeq ==
  ASSUME NEW n \in Nat, NEW f, f = [p \in 1 .. n |-> f[p]]
  PROVE  Len(f) = n /\ DOMAIN f = 1 .. n
<1> DEFINE T == {f[p] : p \in 1 .. n}
<1>1. f \in [1 .. n -> T]
  OBVIOUS
<1>2. f \in Seq(T)
  BY <1>1, SeqDef
<1>3. Len(f) \in Nat /\ DOMAIN f = 1 .. Len(f) /\ DOMAIN f = 1 .. n
  BY <1>1, <1>2, LenProperties
<1>4. Len(f) = n
  BY <1>3
<1> QED BY <1>3, <1>4

\* New fields for a node.
SetKeys(n, ks, rs) == [n EXCEPT !.keys = ks, !.refs = rs]
SetKeysNext(n, ks, rs, nx) == [n EXCEPT !.keys = ks, !.refs = rs, !.next = nx]
SetParentId(n, nx) == [n EXCEPT !.parent = nx]

LEMMA NodeExcept ==
  ASSUME NEW n \in NodeSet, NEW ks, NEW rs, NEW nx
  PROVE  /\ SetKeys(n, ks, rs) =
                [leaf |-> n.leaf, keys |-> ks, refs |-> rs, parent |-> n.parent, next |-> n.next]
         /\ SetKeysNext(n, ks, rs, nx) =
                [leaf |-> n.leaf, keys |-> ks, refs |-> rs, parent |-> n.parent, next |-> nx]
         /\ SetParentId(n, nx) =
                [leaf |-> n.leaf, keys |-> n.keys, refs |-> n.refs, parent |-> nx, next |-> n.next]
<1>1. n = [leaf |-> n.leaf, keys |-> n.keys, refs |-> n.refs, parent |-> n.parent, next |-> n.next]
  BY DEF NodeSet
<1> DEFINE one == [n EXCEPT !.keys = ks]
           two == [one EXCEPT !.refs = rs]
<1>2. one = [leaf |-> n.leaf, keys |-> ks, refs |-> n.refs, parent |-> n.parent, next |-> n.next]
  BY <1>1
<1> HIDE DEF one
<1>3. two = [leaf |-> n.leaf, keys |-> ks, refs |-> rs, parent |-> n.parent, next |-> n.next]
  BY <1>2
<1> HIDE DEF two
<1>4. [two EXCEPT !.next = nx] =
          [leaf |-> n.leaf, keys |-> ks, refs |-> rs, parent |-> n.parent, next |-> nx]
  BY <1>3
<1>5. [n EXCEPT !.parent = nx] =
          [leaf |-> n.leaf, keys |-> n.keys, refs |-> n.refs, parent |-> nx, next |-> n.next]
  BY <1>1
<1>6. /\ SetKeys(n, ks, rs) = two /\ SetKeysNext(n, ks, rs, nx) = [two EXCEPT !.next = nx]
      /\ SetParentId(n, nx) = [n EXCEPT !.parent = nx]
  BY ONLY DEF two, one, SetKeys, SetKeysNext, SetParentId
<1> QED BY ONLY <1>3, <1>4, <1>5, <1>6

\* Changing one page and adding one.
LEMMA AppendNode ==
  ASSUME NEW ns, Len(ns) \in Nat, ns = [p \in 1 .. Len(ns) |-> ns[p]], NEW q \in 1 .. Len(ns),
         NEW a, NEW b, NEW ms, ms = Append([ns EXCEPT ![q] = a], b)
  PROVE  SplitInto(ms, ns, q, a, b)
<1> DEFINE S == {ns[p] : p \in 1 .. Len(ns)} \cup {a, b}
           one == [ns EXCEPT ![q] = a]
           n == Len(ns)
<1>1. ns \in [1 .. n -> S]
  OBVIOUS
<1>2. ns \in Seq(S) /\ a \in S /\ b \in S
  BY <1>1, SeqDef
<1> HIDE DEF S
<1>3. one \in Seq(S) /\ Len(one) = n /\ \A j \in 1 .. n : one[j] = IF j = q THEN a ELSE ns[j]
  BY <1>2, ExceptSeq
<1>4. ms = Append(one, b)
  OBVIOUS
<1> HIDE DEF one
<1>5. ms \in Seq(S) /\ Len(ms) = n + 1 /\ (\A j \in 1 .. n : ms[j] = one[j]) /\ ms[n + 1] = b
  BY <1>2, <1>3, <1>4, AppendProperties
<1>6. DOMAIN ms = 1 .. n + 1 /\ ms = [p \in 1 .. n + 1 |-> ms[p]]
  BY <1>5, LenProperties
<1>7. \A p \in 1 .. n + 1 : ms[p] = IF p = q THEN a ELSE IF p = n + 1 THEN b ELSE ns[p]
  BY <1>3, <1>5
<1>8. ms = [p \in 1 .. n + 1 |-> IF p = q THEN a ELSE IF p = n + 1 THEN b ELSE ns[p]]
  BY <1>6, <1>7
<1> QED BY <1>5, <1>8 DEF SplitInto

\* The two halves of a full leaf before the new key is put in.
Parts(a, b, n, u, new) ==
    /\ Entries(a) /\ Entries(b)
    /\ Len(a.keys) + 1 <= LEAF_MAX_ENTRIES /\ Len(b.keys) + 1 <= LEAF_MAX_ENTRIES
    /\ a.parent = n.parent /\ b.parent = n.parent /\ a.next = new /\ b.next = n.next
    /\ u \in Int /\ InSeq(n.keys, u)
    /\ \A x : InSeq(a.keys, x) \/ InSeq(b.keys, x) <=> InSeq(n.keys, x)
    /\ \A x \in Int : (InSeq(a.keys, x) => x < u) /\ (InSeq(b.keys, x) => u <= x)
    /\ \E x \in Int : InSeq(a.keys, x)

LEMMA PartsFacts ==
  ASSUME NEW n, Entries(n), Len(n.keys) = LEAF_MAX_ENTRIES,
         NEW mid \in Nat, mid >= 1, mid < Len(n.keys), NEW new \in Nat,
         NEW a, a = LeafPart(n, 1, mid, new),
         NEW b, b = LeafPart(n, mid + 1, Len(n.keys), n.next)
  PROVE  Parts(a, b, n, n.keys[mid + 1], new)
<1> DEFINE len == Len(n.keys)
           u == n.keys[mid + 1]
<1>1. len \in Nat /\ len >= 2 /\ LEAF_MAX_ENTRIES = len
  BY Capacities
<1>2. mid \in Nat /\ mid >= 1 /\ mid < len
  OBVIOUS
<1>3. /\ n.keys \in Seq(Int) /\ Sorted(n.keys) /\ n.next \in Nat
      /\ \A j \in 1 .. len : n.keys[j] \in Int
  BY EntriesFacts DEF Entries, NodeSet
<1>4. /\ Entries(a) /\ Len(a.keys) = mid /\ a.parent = n.parent /\ a.next = new
      /\ \A x : InSeq(a.keys, x) <=> \E j \in 1 .. mid : n.keys[j] = x
  <2>1. 1 \in 1 .. Len(n.keys) + 1 /\ mid \in 0 .. Len(n.keys) /\ 1 <= mid + 1 /\ mid - 1 + 1 = mid
    BY <1>1, <1>2
  <2>2. IsPart(a, n, 1, mid, new)
    BY <2>1, PartOfLeaf
  <2> QED BY ONLY <2>1, <2>2 DEF IsPart
<1>5. /\ Entries(b) /\ Len(b.keys) = len - mid /\ b.parent = n.parent /\ b.next = n.next
      /\ \A x : InSeq(b.keys, x) <=> \E j \in mid + 1 .. len : n.keys[j] = x
  <2>1. /\ mid + 1 \in 1 .. Len(n.keys) + 1 /\ Len(n.keys) \in 0 .. Len(n.keys)
        /\ mid + 1 <= Len(n.keys) + 1 /\ Len(n.keys) - (mid + 1) + 1 = len - mid
    BY <1>1, <1>2
  <2>2. IsPart(b, n, mid + 1, Len(n.keys), n.next)
    BY <2>1, <1>3, PartOfLeaf
  <2> QED BY ONLY <2>1, <2>2 DEF IsPart
<1>6. mid + 1 \in 1 .. len /\ u \in Int /\ InSeq(n.keys, u)
  BY <1>1, <1>2, <1>3 DEF InSeq
<1>7. \A x : InSeq(a.keys, x) \/ InSeq(b.keys, x) <=> InSeq(n.keys, x)
  <2>1. \A j : j \in 1 .. len <=> j \in 1 .. mid \/ j \in mid + 1 .. len
    BY <1>1, <1>2
  <2> QED BY <2>1, <1>4, <1>5 DEF InSeq
<1>8. ASSUME NEW x \in Int, InSeq(a.keys, x) PROVE x < u
  <2>1. PICK j \in 1 .. mid : n.keys[j] = x
    BY <1>4, <1>8
  <2>2. j \in 1 .. len /\ j < mid + 1
    BY <1>1, <1>2
  <2> QED BY <2>1, <2>2, <1>3, <1>6 DEF Sorted
<1>9. ASSUME NEW x \in Int, InSeq(b.keys, x) PROVE u <= x
  <2>1. PICK j \in mid + 1 .. len : n.keys[j] = x
    BY <1>5, <1>9
  <2>2. j \in 1 .. len /\ (j = mid + 1 \/ mid + 1 < j)
    BY <1>1, <1>2
  <2>3. CASE j = mid + 1
    BY <2>1, <2>3
  <2>4. CASE mid + 1 < j
    BY <2>1, <2>2, <2>4, <1>3, <1>6 DEF Sorted
  <2> QED BY <2>2, <2>3, <2>4
<1>10. Len(a.keys) + 1 <= LEAF_MAX_ENTRIES /\ Len(b.keys) + 1 <= LEAF_MAX_ENTRIES
  BY <1>1, <1>2, <1>4, <1>5
<1>11. \E x \in Int : InSeq(a.keys, x)
  <2>1. 1 \in 1 .. mid /\ n.keys[1] \in Int
    BY <1>1, <1>2, <1>3
  <2> QED BY <2>1, <1>4
<1> QED BY <1>4, <1>5, <1>6, <1>7, <1>8, <1>9, <1>10, <1>11 DEF Parts

\* The new key goes to the half that it belongs to.
LEMMA PartsHalves ==
  ASSUME NEW n, NEW a, NEW b, NEW u, NEW new, Parts(a, b, n, u, new), NEW k \in Keys, ~InSeq(n.keys, k)
  PROVE  /\ u <= k => Halves(a, LeafInsert(b, k, RidOf[k]), n, u, k, new)
         /\ ~(u <= k) => Halves(LeafInsert(a, k, RidOf[k]), b, n, u, k, new)
<1>0. k \in Int
  BY Capacities
<1>1. /\ Entries(a) /\ Entries(b)
      /\ Len(a.keys) + 1 <= LEAF_MAX_ENTRIES /\ Len(b.keys) + 1 <= LEAF_MAX_ENTRIES
      /\ a.parent = n.parent /\ b.parent = n.parent /\ a.next = new /\ b.next = n.next
      /\ u \in Int /\ InSeq(n.keys, u)
      /\ \A x : InSeq(a.keys, x) \/ InSeq(b.keys, x) <=> InSeq(n.keys, x)
      /\ \A x \in Int : (InSeq(a.keys, x) => x < u) /\ (InSeq(b.keys, x) => u <= x)
      /\ \E x \in Int : InSeq(a.keys, x)
  BY DEF Parts
<1>2. Len(a.keys) <= LEAF_MAX_ENTRIES /\ Len(b.keys) <= LEAF_MAX_ENTRIES
  BY <1>1, EntriesFacts, Capacities
<1>3. ASSUME u <= k PROVE Halves(a, LeafInsert(b, k, RidOf[k]), n, u, k, new)
  <2> DEFINE m == LeafInsert(b, k, RidOf[k])
  <2>1. /\ Entries(m) /\ Len(m.keys) = Len(b.keys) + 1
        /\ m.parent = b.parent /\ m.next = b.next
        /\ \A x : InSeq(m.keys, x) <=> InSeq(b.keys, x) \/ x = k
    BY <1>1, LeafInsertFacts
  <2> HIDE DEF m
  <2>2. \A x : InSeq(a.keys, x) \/ InSeq(m.keys, x) <=> InSeq(n.keys, x) \/ x = k
    BY <2>1, <1>1
  <2>3. \A x \in Int : (InSeq(a.keys, x) => x < u) /\ (InSeq(m.keys, x) => u <= x)
    BY <2>1, <1>1, <1>3
  <2>4. Halves(a, m, n, u, k, new)
    BY <2>1, <2>2, <2>3, <1>1, <1>2 DEF Halves
  <2> QED BY <2>4 DEF m
<1>4. ASSUME ~(u <= k) PROVE Halves(LeafInsert(a, k, RidOf[k]), b, n, u, k, new)
  <2> DEFINE m == LeafInsert(a, k, RidOf[k])
  <2>1. /\ Entries(m) /\ Len(m.keys) = Len(a.keys) + 1
        /\ m.parent = a.parent /\ m.next = a.next
        /\ \A x : InSeq(m.keys, x) <=> InSeq(a.keys, x) \/ x = k
    BY <1>1, LeafInsertFacts
  <2> HIDE DEF m
  <2>2. \A x : InSeq(m.keys, x) \/ InSeq(b.keys, x) <=> InSeq(n.keys, x) \/ x = k
    BY <2>1, <1>1
  <2>5. k < u
    BY <1>0, <1>1, <1>4
  <2>3. \A x \in Int : (InSeq(m.keys, x) => x < u) /\ (InSeq(b.keys, x) => u <= x)
    BY <2>1, <2>5, <1>1
  <2>4. Halves(m, b, n, u, k, new)
    BY <2>1, <2>2, <2>3, <1>1, <1>2 DEF Halves
  <2> QED BY <2>4 DEF m
<1> QED BY <1>3, <1>4

\* The nodes ns make a search tree, and its leaves a chain.
Stands(ns, rt) == Shape(ns, rt, 0) /\ Order(ns) /\ Threaded(ns, rt)

\* w is what a split of the full leaf q makes of t with k put into one half.
Splitting(ns, rt, k, q, t, s, half, w) ==
    /\ Stands(ns, rt) /\ Path(ns, rt, k, q) /\ ~InSeq(ns[q].keys, k)
    /\ Len(ns[q].keys) = LEAF_MAX_ENTRIES
    /\ t = [nodes |-> ns, root |-> rt] /\ s = SplitLeaf(t, q)
    /\ half = (IF k >= s.key THEN s.right ELSE s.left)
    /\ w = [s EXCEPT !.t.nodes[half] = LeafInsert(@, k, RidOf[k])]

HasSplit(w, ns, rt, k, q, N) ==
    \E ms, u : /\ w = Pending([nodes |-> ms, root |-> rt], q, u, N)
               /\ Pend(ms, rt, q, u, N) /\ ms[q].leaf
               /\ Stored(ms) = Stored(ns) \cup {k}

\* A leaf that is full is split, and the key put into one half.
LEMMA SplitLeafPend ==
  ASSUME NEW ns, NEW rt, NEW k \in Keys, NEW q, NEW t, NEW s, NEW half, NEW w,
         Splitting(ns, rt, k, q, t, s, half, w)
  PROVE  HasSplit(w, ns, rt, k, q, Len(ns) + 1)
<1>40. /\ Shape(ns, rt, 0) /\ Order(ns) /\ Threaded(ns, rt)
       /\ Path(ns, rt, k, q) /\ ~InSeq(ns[q].keys, k)
       /\ Len(ns[q].keys) = LEAF_MAX_ENTRIES
       /\ t = [nodes |-> ns, root |-> rt] /\ s = SplitLeaf(t, q)
       /\ half = (IF k >= s.key THEN s.right ELSE s.left)
       /\ w = [s EXCEPT !.t.nodes[half] = LeafInsert(@, k, RidOf[k])]
  BY DEF Splitting, Stands
<1> USE <1>40
<1> DEFINE n == ns[q]
           new == Len(ns) + 1
           mid == Len(n.keys) \div 2
           u == n.keys[mid + 1]
           a == LeafPart(n, 1, mid, new)
           b == LeafPart(n, mid + 1, Len(n.keys), n.next)
           os == Append([ns EXCEPT ![q] = a], b)
<1>0. q \in 1 .. Len(ns) /\ n.leaf /\ Len(ns) \in Nat /\ ns = [p \in 1 .. Len(ns) |-> ns[p]]
  BY DEF Path, Shape
<1>1. Entries(n) /\ new \in Nat
  BY <1>0, LeafEntries
<1>3. Parts(a, b, n, u, new)
  <2>1. Len(n.keys) \in Nat /\ Len(n.keys) >= 2 /\ Len(n.keys) = LEAF_MAX_ENTRIES
    BY Capacities
  <2>2. mid \in Nat /\ mid >= 1 /\ mid < Len(n.keys)
    BY <2>1
  <2> HIDE DEF n, mid, new
  <2> QED BY <2>1, <2>2, <1>1, PartsFacts
<1>4. /\ [n EXCEPT !.keys = SubSeq(@, mid + 1, Len(n.keys)), !.refs = SubSeq(@, mid + 1, Len(n.keys))] = b
      /\ [n EXCEPT !.keys = SubSeq(@, 1, mid), !.refs = SubSeq(@, 1, mid), !.next = new] = a
  <2>1. n \in NodeSet
    BY <1>1 DEF Entries
  <2> DEFINE lk == SubSeq(n.keys, 1, mid)
             lr == SubSeq(n.refs, 1, mid)
             rk == SubSeq(n.keys, mid + 1, Len(n.keys))
             rr == SubSeq(n.refs, mid + 1, Len(n.keys))
  <2>2. /\ b = [leaf |-> n.leaf, keys |-> rk, refs |-> rr, parent |-> n.parent, next |-> n.next]
        /\ a = [leaf |-> n.leaf, keys |-> lk, refs |-> lr, parent |-> n.parent, next |-> new]
    BY DEF LeafPart
  <2> HIDE DEF n, mid, new, a, b, lk, lr, rk, rr
  <2>3. SetKeys(n, rk, rr) = b /\ SetKeysNext(n, lk, lr, new) = a
    BY ONLY <2>1, <2>2, NodeExcept
  <2> QED BY ONLY <2>3 DEF lk, lr, rk, rr, SetKeys, SetKeysNext
<1>5. s = Pending([nodes |-> os, root |-> rt], q, u, new)
  <2>1. /\ Len(n.keys) \div 2 = mid /\ Len(t.nodes) + 1 = new /\ t.nodes[q] = n
        /\ t.nodes = ns
    OBVIOUS
  <2>2. s = Pending([t EXCEPT !.nodes = Append([t.nodes EXCEPT ![q] = a], b)], q, u, new)
    <3> HIDE DEF n, mid, new, a, b
    <3> QED BY <2>1, <1>4 DEF SplitLeaf, NewPageId, u
  <2>3. t.nodes = ns /\ \A x : [t EXCEPT !.nodes = x] = [nodes |-> x, root |-> rt]
    OBVIOUS
  <2> HIDE DEF a, b, u, new
  <2> QED BY ONLY <2>2, <2>3 DEF os
<1>6. SplitInto(os, ns, q, a, b)
  BY <1>0, AppendNode
<1>7. Len(os) = new /\ os = [p \in 1 .. new |-> IF p = q THEN a ELSE IF p = new THEN b ELSE ns[p]]
  BY <1>6 DEF SplitInto
<1>8. ~InSeq(n.keys, k) /\ new = Len(ns) + 1 /\ ns[q] = n
  OBVIOUS
<1>17. Shape(ns, rt, 0) /\ Order(ns) /\ Threaded(ns, rt) /\ Path(ns, rt, k, q)
  BY ONLY <1>40
<1> HIDE DEF n, mid, u, a, b, os, new
<1>9. s.key = u /\ s.right = new /\ s.left = q /\ s.t = [nodes |-> os, root |-> rt]
  BY <1>5 DEF Pending
<1>10. q \in 1 .. new /\ new \in 1 .. new /\ q # new /\ half \in 1 .. new
  BY <1>0, <1>8, <1>9
<1> DEFINE ms == [os EXCEPT ![half] = LeafInsert(@, k, RidOf[k])]
<1>11. w = Pending([nodes |-> ms, root |-> rt], q, u, new)
  BY <1>5 DEF Pending
<1>12. ms = [p \in 1 .. new |-> IF p = half THEN LeafInsert(os[p], k, RidOf[k]) ELSE os[p]]
  BY <1>7, <1>10
<1> HIDE DEF ms
<1>13. ms = [p \in 1 .. new |-> ms[p]] /\ Len(ms) = new
  <2>1. ms = [p \in 1 .. new |-> ms[p]]
    BY <1>12
  <2> HIDE DEF ms
  <2> QED BY ONLY <2>1, <1>1, FunctionIsSeq
<1>14. k \in Int /\ u \in Int
  BY <1>3, Capacities DEF Parts
<1>15. CASE u <= k
  <2> DEFINE c == LeafInsert(b, k, RidOf[k])
  <2>1. half = new
    BY <1>9, <1>14, <1>15
  <2>2. Halves(a, c, n, u, k, new)
    BY <1>3, <1>8, <1>15, PartsHalves
  <2>3. os[new] = b
    BY <1>7, <1>10
  <2> HIDE DEF c
  <2>4. \A p \in 1 .. new : ms[p] = IF p = q THEN a ELSE IF p = new THEN c ELSE ns[p]
    BY <2>1, <2>3, <1>7, <1>10, <1>12 DEF c
  <2>5. SplitInto(ms, ns, q, a, c)
    BY <2>4, <1>8, <1>13 DEF SplitInto
  <2>6. Pend(ms, rt, q, u, new) /\ Stored(ms) = Stored(ns) \cup {k}
    BY ONLY <2>2, <2>5, <1>8, <1>17, k \in Keys, HalvesPend
  <2>7. ms[q].leaf
    BY <2>2, <2>4, <1>10 DEF Halves, Entries
  <2> QED BY ONLY <2>6, <2>7, <1>8, <1>11 DEF HasSplit
<1>16. CASE ~(u <= k)
  <2> DEFINE c == LeafInsert(a, k, RidOf[k])
  <2>1. half = q
    BY <1>9, <1>14, <1>16
  <2>2. Halves(c, b, n, u, k, new)
    BY <1>3, <1>8, <1>16, PartsHalves
  <2>3. os[q] = a
    BY <1>7, <1>10
  <2> HIDE DEF c
  <2>4. \A p \in 1 .. new : ms[p] = IF p = q THEN c ELSE IF p = new THEN b ELSE ns[p]
    BY <2>1, <2>3, <1>7, <1>10, <1>12 DEF c
  <2>5. SplitInto(ms, ns, q, c, b)
    BY <2>4, <1>8, <1>13 DEF SplitInto
  <2>6. Pend(ms, rt, q, u, new) /\ Stored(ms) = Stored(ns) \cup {k}
    BY ONLY <2>2, <2>5, <1>8, <1>17, k \in Keys, HalvesPend
  <2>7. ms[q].leaf
    BY <2>2, <2>4, <1>10 DEF Halves, Entries
  <2> QED BY ONLY <2>6, <2>7, <1>8, <1>11 DEF HasSplit
<1> QED BY <1>15, <1>16

-----------------------------------------------------------------------------
(* Telling the parent.                                                     *)

\* Where a search goes in the keys f and children g of P with u and r put in, it
\* went in those of P before, but that r's keys were under the child before it.
Spliced(f, g, keys, refs, u, r) ==
    \A j \in 1 .. Len(g) : \A k \in Int : Slot(f, k, j) =>
        \E i \in 1 .. Len(refs) :
            /\ Slot(keys, k, i)
            /\ g[j] = r => u <= k /\ Slot(keys, u, i)
            /\ g[j] # r => refs[i] = g[j] /\ (Slot(keys, u, i) => k < u)

LEMMA SplicedFacts ==
  ASSUME NEW ks \in Seq(Int), NEW rs \in Seq(Nat), Sorted(ks), Len(rs) = Len(ks) + 1,
         NEW u \in Int, NEW r, \A j \in 1 .. Len(rs) : rs[j] # r,
         NEW i \in 1 .. Len(ks) + 1, Slot(ks, u, i),
         NEW f \in Seq(Int), Sorted(f), With(f, ks, i, u), NEW g, With(g, rs, i + 1, r)
  PROVE  Spliced(f, g, ks, rs, u, r)
<1>0. Len(ks) \in Nat /\ Len(f) = Len(ks) + 1 /\ Len(g) = Len(rs) + 1 /\ i \in Int
  BY DEF With
<1>1. /\ \A j \in 1 .. i : g[j] = rs[j]
      /\ g[i + 1] = r
      /\ \A j \in i + 1 .. Len(rs) : g[j + 1] = rs[j]
  <2>1. \A j \in 1 .. i : j \in 1 .. i + 1 - 1
    BY <1>0
  <2> QED BY <2>1, SMTT(30) DEF With
<1>2. SUFFICES ASSUME NEW j \in 1 .. Len(g), NEW k \in Int, Slot(f, k, j)
               PROVE  \E n \in 1 .. Len(rs) :
                          /\ Slot(ks, k, n)
                          /\ g[j] = r => u <= k /\ Slot(ks, u, n)
                          /\ g[j] # r => rs[n] = g[j] /\ (Slot(ks, u, n) => k < u)
  BY DEF Spliced
<1>3. PICK n \in 1 .. Len(ks) + 1 : Slot(ks, k, n)
  BY SlotExists
<1>4. /\ n < i => Slot(f, k, n)
      /\ n = i /\ k < u => Slot(f, k, i)
      /\ n = i /\ u <= k => Slot(f, k, i + 1)
      /\ i < n => Slot(f, k, n + 1)
  BY <1>3, WithSlot
<1>5. \A x \in 1 .. Len(f) + 1 : Slot(f, k, x) => x = j
  BY <1>0, <1>2, SlotUnique
<1>6. Slot(ks, u, n) => n = i
  BY SlotUnique
<1>7. n \in 1 .. Len(rs) /\ n \in Int /\ n \in 1 .. Len(f) + 1 /\ i \in 1 .. Len(f) + 1
      /\ i + 1 \in 1 .. Len(f) + 1 /\ n + 1 \in 1 .. Len(f) + 1
  BY ONLY <1>0, i \in 1 .. Len(ks) + 1, n \in 1 .. Len(ks) + 1, Len(rs) = Len(ks) + 1
<1>8. rs[n] # r
  BY ONLY <1>7, \A x \in 1 .. Len(rs) : rs[x] # r
<1>9. CASE n < i
  <2>1. j = n /\ n \in 1 .. i /\ n # i
    BY ONLY <1>0, <1>4, <1>5, <1>7, <1>9, n \in 1 .. Len(ks) + 1
  <2>2. g[j] = rs[n]
    BY ONLY <2>1, <1>1
  <2> QED BY ONLY <2>1, <2>2, <1>3, <1>6, <1>7, <1>8
<1>10. CASE n = i /\ k < u
  <2>1. j = n /\ n \in 1 .. i
    BY ONLY <1>0, <1>4, <1>5, <1>7, <1>10, n \in 1 .. Len(ks) + 1
  <2>2. g[j] = rs[n]
    BY ONLY <2>1, <1>1
  <2> QED BY ONLY <2>2, <1>3, <1>7, <1>8, <1>10
<1>11. CASE n = i /\ u <= k
  <2>1. j = i + 1
    BY ONLY <1>4, <1>5, <1>7, <1>11
  <2>2. g[j] = r
    BY ONLY <2>1, <1>1
  <2> QED BY ONLY <2>2, <1>3, <1>7, <1>11, Slot(ks, u, i)
<1>12. CASE i < n
  <2>1. j = n + 1 /\ n \in i + 1 .. Len(rs) /\ n # i
    BY ONLY <1>0, <1>4, <1>5, <1>7, <1>12
  <2>2. g[j] = rs[n]
    BY ONLY <2>1, <1>1
  <2> QED BY ONLY <2>1, <2>2, <1>3, <1>6, <1>7, <1>8
<1> QED BY ONLY <1>0, <1>7, <1>9, <1>10, <1>11, <1>12, k \in Int, u \in Int

\* The keys f and children g of P with u and r put in behind l.
IsFull(f, g, ns, P, u, r) ==
    /\ f \in Seq(Int) /\ g \in Seq(Nat)
    /\ Len(f) = Len(ns[P].keys) + 1 /\ Len(g) = Len(f) + 1
    /\ Sorted(f) /\ Distinct(g)
    /\ \A x : InSeq(f, x) <=> InSeq(ns[P].keys, x) \/ x = u
    /\ \A x : InSeq(g, x) <=> InSeq(ns[P].refs, x) \/ x = r
    /\ \A j \in 1 .. Len(g) : \A k \in Int : Below(ns, g[j], k) => Slot(f, k, j)
    /\ Spliced(f, g, ns[P].keys, ns[P].refs, u, r)

\* The parent of l, of which l is the i-th child.
LEMMA PendParent ==
  ASSUME NEW ns, NEW rt, NEW l, NEW u, NEW r, Pend(ns, rt, l, u, r), l # rt, NEW P, P = ns[l].parent
  PROVE  /\ P \in 1 .. Len(ns) /\ ~ns[P].leaf /\ P # r /\ P # l
         /\ \E i \in 1 .. Len(ns[P].refs) : ns[P].refs[i] = l
         /\ ~ns[l].leaf => P = rt
         /\ P # rt => ns[P].parent = rt
<1>1. Shape(ns, rt, r) /\ l \in 1 .. Len(ns) /\ r \in 1 .. Len(ns) /\ l # r /\ ns[l].leaf = ns[r].leaf
  BY DEF Pend
<1>2. /\ P \in 1 .. Len(ns) /\ ~ns[P].leaf
      /\ \E i \in 1 .. Len(ns[P].refs) : ns[P].refs[i] = l
      /\ ~ns[l].leaf => P = rt
  BY <1>1, ParentFacts
<1>3. P # r
  <2>1. rt # r
    BY <1>1 DEF Shape
  <2> QED BY <2>1, <1>1, <1>2
<1>4. P # l
  <2>1. ns[rt].parent = 0 /\ rt \in 1 .. Len(ns)
    BY <1>1 DEF Shape
  <2>2. ns[rt].parent # P
    BY <2>1, <1>2
  <2> QED BY <2>2, <1>2
<1>5. P # rt => ns[P].parent = rt
  BY <1>1, <1>2, <1>3, ParentFacts
<1> QED BY <1>2, <1>3, <1>4, <1>5

LEMMA FullFacts ==
  ASSUME NEW ns, NEW rt, NEW l, NEW u, NEW r, Pend(ns, rt, l, u, r), l # rt, NEW P, P = ns[l].parent,
         NEW i \in 1 .. Len(ns[P].refs), ns[P].refs[i] = l,
         NEW f, f = InsertAt(ns[P].keys, i, u), NEW g, g = InsertAt(ns[P].refs, i + 1, r)
  PROVE  IsFull(f, g, ns, P, u, r)
<1> DEFINE ks == ns[P].keys
           rs == ns[P].refs
<1>0. /\ Shape(ns, rt, r) /\ Order(ns) /\ l \in 1 .. Len(ns) /\ r \in 1 .. Len(ns) /\ u \in Int
      /\ \A k \in Int : Below(ns, r, k) => u <= k
      /\ \A k \in Int : Below(ns, l, k) => k < u
      /\ \E k \in Int : Below(ns, l, k)
      /\ \A k \in Int : k = u \/ Below(ns, r, k) => Up(ns, l, k)
  BY DEF Pend
<1>1. P \in 1 .. Len(ns) /\ ~ns[P].leaf
  BY PendParent
<1>2. /\ ks \in Seq(Int) /\ rs \in Seq(Nat) /\ Sorted(ks) /\ Distinct(rs) /\ Len(ks) \in Nat
      /\ Len(rs) = Len(ks) + 1
  BY <1>0, <1>1, NodeFacts
<1>3. r \in Nat /\ i \in 1 .. Len(ks) + 1 /\ i + 1 \in 1 .. Len(rs) + 1 /\ i \in 1 .. Len(rs) /\ rs[i] = l
  <2>1. Len(ns) \in Nat /\ r \in 1 .. Len(ns)
    BY ONLY <1>0 DEF Shape
  <2>2. i \in 1 .. Len(rs) /\ rs[i] = l
    OBVIOUS
  <2>3. Len(ks) \in Nat /\ Len(rs) = Len(ks) + 1
    BY ONLY <1>2
  <2> HIDE DEF ks, rs
  <2> QED BY ONLY <2>1, <2>2, <2>3
<1>4. \A j \in 1 .. Len(rs) : \A k \in Int : Below(ns, rs[j], k) => Slot(ks, k, j)
  BY <1>0, <1>1 DEF Order, OrderAt
<1>5. \A k \in Int : k = u \/ Below(ns, r, k) => Slot(ks, k, i)
  BY <1>0, <1>3 DEF Up
<1>6. \A j \in 1 .. Len(rs) : rs[j] # r
  BY <1>0, <1>1, ChildFacts
<1>7. f = InsertAt(ks, i, u) /\ g = InsertAt(rs, i + 1, r)
  OBVIOUS
<1> HIDE DEF ks, rs
<1>8. f \in Seq(Int) /\ With(f, ks, i, u)
  BY ONLY <1>0, <1>2, <1>3, <1>7, InsertAtFacts
<1>9. g \in Seq(Nat) /\ With(g, rs, i + 1, r)
  BY ONLY <1>2, <1>3, <1>7, InsertAtFacts
<1>10. Len(f) = Len(ks) + 1 /\ Len(g) = Len(f) + 1
  BY <1>2, <1>8, <1>9 DEF With
<1>11. Sorted(f)
  <2>1. PICK x \in Int : Below(ns, l, x) /\ x < u
    BY <1>0
  <2>2. Slot(ks, x, i) /\ Slot(ks, u, i)
    BY <2>1, <1>0, <1>3, <1>4, <1>5
  <2>3. \A j \in 1 .. i - 1 : ks[j] < u
    <3>1. \A j \in 1 .. i - 1 : ks[j] \in Int /\ ks[j] <= x
      BY <2>2, <1>2, <1>3, SMTT(30) DEF Slot
    <3> QED BY <3>1, <2>1, <1>0
  <2>4. \A j \in i .. Len(ks) : u < ks[j]
    BY <2>2 DEF Slot
  <2> QED BY ONLY <2>3, <2>4, <1>0, <1>2, <1>3, <1>8, WithSorted
<1>12. \A x : InSeq(f, x) <=> InSeq(ks, x) \/ x = u
  BY ONLY <1>2, <1>3, <1>8, WithMembers
<1>13. \A x : InSeq(g, x) <=> InSeq(rs, x) \/ x = r
  <2>1. Len(rs) \in Nat
    BY <1>2
  <2> QED BY ONLY <2>1, <1>3, <1>9, WithMembers
<1>14. /\ \A j \in 1 .. i : g[j] = rs[j]
       /\ g[i + 1] = r
       /\ \A j \in i + 1 .. Len(rs) : g[j + 1] = rs[j]
  <2>1. \A j \in 1 .. i : j \in 1 .. i + 1 - 1
    BY <1>3
  <2> QED BY <2>1, <1>9, SMTT(30) DEF With
<1>15. \A j \in 1 .. Len(g) : \/ j \in 1 .. i /\ j \in 1 .. Len(rs)
                              \/ j = i + 1
                              \/ j - 1 \in i + 1 .. Len(rs) /\ j - 1 \in 1 .. Len(rs) /\ (j - 1) + 1 = j
  BY <1>2, <1>3, <1>10
<1>16. ASSUME NEW j \in 1 .. Len(g), NEW k \in Int, Below(ns, g[j], k) PROVE Slot(f, k, j)
  <2>1. CASE j \in 1 .. i /\ j \in 1 .. Len(rs)
    <3>1. g[j] = rs[j] /\ Slot(ks, k, j) /\ (j < i \/ j = i) /\ j \in 1 .. Len(ks) + 1
      <4>1. g[j] = rs[j]
        BY ONLY <2>1, <1>14
      <4>2. Slot(ks, k, j)
        BY ONLY <4>1, <2>1, <1>4, <1>16
      <4>3. Len(ks) \in Nat /\ Len(rs) = Len(ks) + 1 /\ i \in 1 .. Len(ks) + 1
        BY ONLY <1>2, <1>3
      <4>4. (j < i \/ j = i) /\ j \in 1 .. Len(ks) + 1
        BY ONLY <4>3, <2>1
      <4> QED BY ONLY <4>1, <4>2, <4>4
    <3>2. j = i => k < u
      BY <3>1, <1>0, <1>3, <1>16
    <3> QED BY <3>1, <3>2, <1>0, <1>2, <1>3, <1>8, <1>11, WithSlot
  <2>2. CASE j = i + 1
    <3>1. Below(ns, r, k)
      BY <2>2, <1>14, <1>16
    <3>2. Slot(ks, k, i) /\ u <= k
      BY <3>1, <1>0, <1>5
    <3>3. k \in Int /\ Slot(f, k, i + 1)
      <4>1. k \in Int
        OBVIOUS
      <4>2. ks \in Seq(Int) /\ u \in Int /\ i \in 1 .. Len(ks) + 1
        BY ONLY <1>0, <1>2, <1>3
      <4> QED BY ONLY <4>1, <4>2, <3>2, <1>8, <1>11, WithSlot, SMTT(30)
    <3> QED BY ONLY <3>3, <2>2
  <2>3. CASE j - 1 \in i + 1 .. Len(rs) /\ j - 1 \in 1 .. Len(rs) /\ (j - 1) + 1 = j
    <3>1. g[(j - 1) + 1] = rs[j - 1]
      BY <2>3, <1>14
    <3>2. Slot(ks, k, j - 1)
      BY <3>1, <2>3, <1>4, <1>16
    <3>3. i < j - 1 /\ j - 1 \in 1 .. Len(ks) + 1
      BY <2>3, <1>2, <1>3
    <3>4. Slot(f, k, (j - 1) + 1)
      <4>1. k \in Int
        OBVIOUS
      <4>2. ks \in Seq(Int) /\ u \in Int /\ i \in 1 .. Len(ks) + 1
        BY ONLY <1>0, <1>2, <1>3
      <4> QED BY ONLY <4>1, <4>2, <3>2, <3>3, <1>8, <1>11, WithSlot, SMTT(30)
    <3> QED BY <3>4, <2>3
  <2> QED BY <2>1, <2>2, <2>3, <1>15
<1>17. Distinct(g)
  <2>1. SUFFICES ASSUME NEW j \in 1 .. Len(g), NEW m \in 1 .. Len(g), g[j] = g[m] PROVE j = m
    BY DEF Distinct
  <2>2. \A y \in 1 .. Len(g) : y = i + 1 \/ \E z \in 1 .. Len(rs) : /\ g[y] = rs[z]
                                                                    /\ y = z \/ y = z + 1
                                                                    /\ y = z <=> z <= i
    <3>1. SUFFICES ASSUME NEW y \in 1 .. Len(g), y # i + 1
                   PROVE  \E z \in 1 .. Len(rs) : /\ g[y] = rs[z]
                                                  /\ y = z \/ y = z + 1
                                                  /\ y = z <=> z <= i
      OBVIOUS
    <3>2. CASE y \in 1 .. i /\ y \in 1 .. Len(rs)
      BY <3>2, <1>3, <1>14
    <3>3. CASE y - 1 \in i + 1 .. Len(rs) /\ y - 1 \in 1 .. Len(rs) /\ (y - 1) + 1 = y
      <4>1. g[y] = rs[y - 1]
        BY <3>3, <1>14
      <4>2. ~(y - 1 <= i) /\ y # y - 1
        BY <3>3, <1>3
      <4> QED BY <4>1, <4>2, <3>3
    <3> QED BY <3>1, <3>2, <3>3, <1>15
  <2>3. CASE j = i + 1 \/ m = i + 1
    <3>1. \A y \in 1 .. Len(g) : y # i + 1 => g[y] # r
      BY ONLY <2>2, <1>6
    <3>2. g[i + 1] = r
      BY ONLY <1>14
    <3> QED BY ONLY <3>1, <3>2, <2>1, <2>3
  <2>4. CASE j # i + 1 /\ m # i + 1
    <3>1. PICK z \in 1 .. Len(rs) : g[j] = rs[z] /\ (j = z \/ j = z + 1) /\ (j = z <=> z <= i)
      BY <2>2, <2>4
    <3>2. PICK x \in 1 .. Len(rs) : g[m] = rs[x] /\ (m = x \/ m = x + 1) /\ (m = x <=> x <= i)
      BY <2>2, <2>4
    <3>3. z = x
      BY <3>1, <3>2, <2>1, <1>2 DEF Distinct
    <3> QED BY <3>1, <3>2, <3>3
  <2> QED BY <2>3, <2>4
<1>18. Spliced(f, g, ks, rs, u, r)
  <2>1. Slot(ks, u, i)
    BY ONLY <1>0, <1>5
  <2> QED BY ONLY <2>1, <1>0, <1>2, <1>3, <1>6, <1>8, <1>9, <1>11, SplicedFacts
<1> QED BY <1>8, <1>9, <1>10, <1>11, <1>12, <1>13, <1>16, <1>17, <1>18 DEF IsFull, ks, rs

\* The children of P and the new one.
FullChild(ns, rt, l, P, r, c) ==
    /\ c \in 1 .. Len(ns) /\ c # rt /\ c # P
    /\ ns[c].leaf = ns[l].leaf
    /\ c # r => ns[c].parent = P

LEMMA FullChildren ==
  ASSUME NEW ns, NEW rt, NEW l, NEW u, NEW r, Pend(ns, rt, l, u, r), l # rt, NEW P, P = ns[l].parent,
         NEW f, NEW g, IsFull(f, g, ns, P, u, r), NEW j \in 1 .. Len(g)
  PROVE  FullChild(ns, rt, l, P, r, g[j])
<1>0. /\ Shape(ns, rt, r) /\ l \in 1 .. Len(ns) /\ r \in 1 .. Len(ns) /\ ns[l].leaf = ns[r].leaf
  BY DEF Pend
<1>1. P \in 1 .. Len(ns) /\ ~ns[P].leaf /\ P # r /\ rt # r
  BY <1>0, PendParent DEF Shape
<1>2. PICK i \in 1 .. Len(ns[P].refs) : ns[P].refs[i] = l
  BY PendParent
<1>3. InSeq(g, g[j])
  BY DEF InSeq
<1>4. InSeq(ns[P].refs, g[j]) \/ g[j] = r
  BY <1>3 DEF IsFull
<1>5. CASE g[j] = r
  BY <1>0, <1>1, <1>5 DEF FullChild
<1>6. CASE InSeq(ns[P].refs, g[j])
  <2>1. PICK m \in 1 .. Len(ns[P].refs) : ns[P].refs[m] = g[j]
    BY <1>6 DEF InSeq
  <2>2. /\ ns[P].refs[m] \in 1 .. Len(ns) /\ ns[P].refs[m] # rt /\ ns[ns[P].refs[m]].parent = P
        /\ ns[ns[P].refs[m]].leaf = ns[ns[P].refs[1]].leaf
    BY ONLY <1>0, <1>1, m \in 1 .. Len(ns[P].refs), ChildFacts, SMTT(30)
  <2>5. ns[ns[P].refs[i]].leaf = ns[ns[P].refs[1]].leaf
    BY ONLY <1>0, <1>1, i \in 1 .. Len(ns[P].refs), ChildFacts, SMTT(30)
  <2>3. ns[l].leaf = ns[ns[P].refs[1]].leaf
    BY <2>5, <1>2
  <2>4. ns[P].parent # P
    <3>1. CASE P = rt
      <4>1. ns[rt].parent = 0
        BY <1>0 DEF Shape
      <4> QED BY <4>1, <3>1, <1>1
    <3>2. CASE P # rt
      BY <3>2, PendParent
    <3> QED BY <3>1, <3>2
  <2> QED BY <2>1, <2>2, <2>3, <2>4 DEF FullChild
<1> QED BY <1>4, <1>5, <1>6

\* A search that the parent, once told, leads to g[j].
LEMMA FullRoute ==
  ASSUME NEW ns, NEW rt, NEW l, NEW u, NEW r, Pend(ns, rt, l, u, r), l # rt, NEW P, P = ns[l].parent,
         NEW f, NEW g, IsFull(f, g, ns, P, u, r),
         NEW j \in 1 .. Len(g), NEW k \in Int, Slot(f, k, j)
  PROVE  Due(ns, rt, l, u, r, g[j], k)
<1> DEFINE ks == ns[P].keys
           rs == ns[P].refs
<1>0. /\ Shape(ns, rt, r) /\ l \in 1 .. Len(ns) /\ l # r /\ u \in Int /\ Up(ns, l, u)
  BY DEF Pend
<1>1. P \in 1 .. Len(ns) /\ ~ns[P].leaf /\ \E i \in 1 .. Len(rs) : rs[i] = l
  BY PendParent
<1>2. /\ ks \in Seq(Int) /\ Sorted(ks) /\ Distinct(rs) /\ Len(rs) = Len(ks) + 1
  BY <1>0, <1>1, NodeFacts
<1>3. FullChild(ns, rt, l, P, r, g[j])
  BY FullChildren
<1>4. g[j] # r => ns[g[j]].parent = P
  BY ONLY <1>3 DEF FullChild
<1>5. \A i \in 1 .. Len(rs) : rs[i] = l => Slot(ks, u, i)
  BY ONLY <1>0, P = ns[l].parent DEF Up
<1>6. PICK i \in 1 .. Len(rs) :
            /\ Slot(ks, k, i)
            /\ g[j] = r => u <= k /\ Slot(ks, u, i)
            /\ g[j] # r => rs[i] = g[j] /\ (Slot(ks, u, i) => k < u)
  <2>1. Spliced(f, g, ks, rs, u, r)
    BY ONLY IsFull(f, g, ns, P, u, r) DEF IsFull
  <2> QED BY ONLY <2>1, j \in 1 .. Len(g), k \in Int, Slot(f, k, j) DEF Spliced
<1> HIDE DEF ks, rs
<1>7. g[j] = l => k < u
  BY ONLY <1>0, <1>5, <1>6
<1>8. g[j] = r => u <= k /\ Up(ns, l, k)
  <2>1. SUFFICES ASSUME g[j] = r PROVE u <= k /\ Up(ns, l, k)
    OBVIOUS
  <2>2. ASSUME NEW n \in 1 .. Len(rs), rs[n] = l PROVE Slot(ks, k, n)
    <3>1. Slot(ks, u, n) /\ Slot(ks, u, i)
      BY ONLY <2>1, <2>2, <1>5, <1>6
    <3>2. n \in 1 .. Len(ks) + 1 /\ i \in 1 .. Len(ks) + 1
      BY ONLY <1>2, <2>2, i \in 1 .. Len(rs)
    <3>3. n = i
      BY ONLY <3>1, <3>2, <1>0, <1>2, SlotUnique
    <3> QED BY ONLY <3>3, <1>6
  <2>3. Up(ns, l, k)
    BY ONLY <2>2, P = ns[l].parent DEF Up, ks, rs
  <2> QED BY ONLY <2>1, <2>3, <1>6
<1>9. g[j] # r => Up(ns, g[j], k)
  <2>1. SUFFICES ASSUME g[j] # r PROVE Up(ns, g[j], k)
    OBVIOUS
  <2>2. \A n \in 1 .. Len(rs) : rs[n] = g[j] => n = i
    BY ONLY <2>1, <1>2, <1>6, i \in 1 .. Len(rs) DEF Distinct
  <2> QED BY ONLY <2>1, <2>2, <1>4, <1>6 DEF Up, ks, rs
<1> QED BY ONLY <1>7, <1>8, <1>9 DEF Due

\* A page keeps all but its parent.
Keeps(ms, ns, p) ==
    /\ ms[p] \in NodeSet /\ ms[p].leaf = ns[p].leaf /\ ms[p].next = ns[p].next
    /\ ms[p].keys = ns[p].keys /\ ms[p].refs = ns[p].refs

LEMMA BelowSame ==
  ASSUME NEW ns, NEW ms, NEW c, ms[c].leaf = ns[c].leaf, ms[c].keys = ns[c].keys,
         ms[c].refs = ns[c].refs,
         ~ns[c].leaf => \A i \in 1 .. Len(ns[c].refs) : ms[ns[c].refs[i]].keys = ns[ns[c].refs[i]].keys
  PROVE  \A k : Below(ms, c, k) => Below(ns, c, k)
BY DEF Below

\* Where leaves keep their keys and none is new, the same keys are stored.
LEMMA SameLeaves ==
  ASSUME NEW ns, NEW ms, Len(ns) \in Nat, Len(ms) \in Nat, Len(ns) <= Len(ms),
         \A p \in 1 .. Len(ns) : ms[p].leaf = ns[p].leaf,
         \A p \in 1 .. Len(ns) : ns[p].leaf => ms[p].keys = ns[p].keys,
         \A p \in 1 .. Len(ms) : p \in 1 .. Len(ns) \/ ~ms[p].leaf
  PROVE  Stored(ms) = Stored(ns)
<1>1. ASSUME NEW k \in Stored(ms) PROVE k \in Stored(ns)
  <2>1. PICK p \in 1 .. Len(ms) : ms[p].leaf /\ InSeq(ms[p].keys, k)
    BY DEF Stored
  <2>2. p \in 1 .. Len(ns)
    BY <2>1
  <2> QED BY <2>1, <2>2 DEF Stored
<1>2. ASSUME NEW k \in Stored(ns) PROVE k \in Stored(ms)
  <2>1. PICK p \in 1 .. Len(ns) : ns[p].leaf /\ InSeq(ns[p].keys, k)
    BY DEF Stored
  <2>2. p \in 1 .. Len(ms)
    OBVIOUS
  <2> QED BY <2>1, <2>2 DEF Stored
<1> QED BY <1>1, <1>2

\* NodeOK of a page that keeps all but its parent.
LEMMA KeepsOK ==
  ASSUME NEW ns, NEW rt, NEW d, Shape(ns, rt, d), NEW p \in 1 .. Len(ns), NEW ms, Keeps(ms, ns, p),
         NEW len \in Nat, Len(ns) <= len, ms[p].parent \in 0 .. len
  PROVE  NodeOK(ms[p], len)
<1>1. NodeOK(ns[p], Len(ns)) /\ Len(ns) \in Nat
  BY DEF Shape
<1>2. ms[p].next \in 0 .. len /\ Sorted(ms[p].keys) /\ ms[p] \in NodeSet
  BY <1>1 DEF NodeOK, Keeps
<1>3. ms[p].leaf => LeafOK(ms[p])
  BY <1>1 DEF NodeOK, Keeps, LeafOK
<1>4. ~ms[p].leaf => InnerOK(ms[p])
  BY <1>1 DEF NodeOK, Keeps, InnerOK
<1> QED BY <1>2, <1>3, <1>4 DEF NodeOK

\* A root N above l and r.
GrowInto(ms, ns, l, u, r, N) ==
    /\ N = Len(ns) + 1 /\ Len(ms) = N /\ ms = [p \in 1 .. N |-> ms[p]]
    /\ \A p \in 1 .. Len(ns) : Keeps(ms, ns, p)
    /\ \A p \in 1 .. Len(ns) : ms[p].parent = IF p = l \/ p = r THEN N ELSE ns[p].parent
    /\ ms[N] \in NodeSet /\ ~ms[N].leaf /\ ms[N].parent = 0 /\ ms[N].next = 0
    /\ Len(ms[N].keys) = 1 /\ ms[N].keys[1] = u
    /\ Len(ms[N].refs) = 2 /\ ms[N].refs[1] = l /\ ms[N].refs[2] = r

LEMMA GrowOK ==
  ASSUME NEW ns, NEW l, NEW u, NEW r, Pend(ns, l, l, u, r), NEW ms, NEW N, GrowInto(ms, ns, l, u, r, N)
  PROVE  Shape(ms, N, 0) /\ Order(ms) /\ Stored(ms) = Stored(ns)
<1>0. /\ Shape(ns, l, r) /\ Order(ns) /\ l \in 1 .. Len(ns) /\ r \in 1 .. Len(ns) /\ l # r /\ u \in Int
      /\ ns[l].leaf = ns[r].leaf
      /\ ~ns[l].leaf => \A i \in 1 .. Len(ns[l].refs) : ns[ns[l].refs[i]].leaf
      /\ \A k \in Int : Below(ns, r, k) => u <= k
      /\ \A k \in Int : Below(ns, l, k) => k < u
  BY DEF Pend
<1>1. /\ N = Len(ns) + 1 /\ Len(ms) = N
      /\ ms[N] \in NodeSet /\ ~ms[N].leaf /\ ms[N].parent = 0 /\ ms[N].next = 0
  BY DEF GrowInto
<1>2. Len(ns) \in Nat /\ N \in Nat /\ N # 0 /\ l # N /\ r # N /\ l # 0 /\ r # 0 /\ Len(ns) <= N
  BY <1>0, <1>1 DEF Shape
<1>3. \A p \in 1 .. N : p \in 1 .. Len(ns) \/ p = N
  BY <1>1, <1>2
<1>4. \A p \in 1 .. Len(ns) : /\ Keeps(ms, ns, p) /\ p \in 1 .. N /\ p # N
                              /\ ms[p].parent = IF p = l \/ p = r THEN N ELSE ns[p].parent
                              /\ ms[p].leaf = ns[p].leaf /\ ms[p].keys = ns[p].keys
                              /\ ms[p].refs = ns[p].refs
  <2>1. SUFFICES ASSUME NEW p \in 1 .. Len(ns)
                 PROVE  /\ Keeps(ms, ns, p) /\ p \in 1 .. N /\ p # N
                        /\ ms[p].parent = IF p = l \/ p = r THEN N ELSE ns[p].parent
                        /\ ms[p].leaf = ns[p].leaf /\ ms[p].keys = ns[p].keys
                        /\ ms[p].refs = ns[p].refs
    OBVIOUS
  <2>2. Keeps(ms, ns, p) /\ ms[p].parent = IF p = l \/ p = r THEN N ELSE ns[p].parent
    BY DEF GrowInto
  <2>3. p \in 1 .. N /\ p # N
    BY <1>1, <1>2
  <2>4. ms[p].leaf = ns[p].leaf /\ ms[p].keys = ns[p].keys /\ ms[p].refs = ns[p].refs
    BY <2>2 DEF Keeps
  <2> QED BY <2>2, <2>3, <2>4
<1>5. /\ Len(ms[N].keys) = 1 /\ ms[N].keys[1] = u
      /\ Len(ms[N].refs) = 2 /\ ms[N].refs[1] = l /\ ms[N].refs[2] = r
  BY DEF GrowInto
<1>6. \A i \in 1 .. 2 : i = 1 \/ i = 2
  OBVIOUS
<1>7. ASSUME NEW p \in 1 .. N PROVE NodeOK(ms[p], N)
  <2>1. CASE p \in 1 .. Len(ns)
    <3>1. ms[p].parent \in 0 .. N
      <4>1. ns[p].parent \in 0 .. Len(ns)
        BY ONLY <2>1, <1>0, NodeFacts
      <4>2. ms[p].parent = N \/ ms[p].parent = ns[p].parent
        BY ONLY <2>1, <1>4
      <4> QED BY ONLY <4>1, <4>2, <1>2
    <3> QED BY <3>1, <2>1, <1>0, <1>2, <1>4, KeepsOK
  <2>2. CASE p = N
    <3>1. Sorted(ms[N].keys)
      BY <1>5 DEF Sorted
    <3>2. Distinct(ms[N].refs)
      BY <1>0, <1>5, <1>6 DEF Distinct
    <3>3. InnerOK(ms[N])
      BY <3>2, <1>5, Capacities DEF InnerOK
    <3> QED BY <3>1, <3>3, <2>2, <1>1, <1>2 DEF NodeOK
  <2> QED BY <2>1, <2>2, <1>3
<1>8. ASSUME NEW p \in 1 .. N, ~ms[p].leaf, NEW i \in 1 .. Len(ms[p].refs) PROVE ChildOK(ms, N, 0, p, i)
  <2>1. CASE p = N
    <3>1. i = 1 \/ i = 2
      BY <2>1, <1>5, <1>6, <1>8
    <3>2. ms[l].leaf = ms[r].leaf /\ ms[l].parent = N /\ ms[r].parent = N /\ l \in 1 .. N /\ r \in 1 .. N
      BY <1>0, <1>4
    <3> QED BY <3>1, <3>2, <2>1, <1>1, <1>2, <1>5 DEF ChildOK
  <2>2. CASE p \in 1 .. Len(ns)
    <3>1. ms[p].refs = ns[p].refs /\ ~ns[p].leaf /\ p # N /\ i \in 1 .. Len(ns[p].refs)
      BY <2>2, <1>4, <1>8
    <3> DEFINE c == ns[p].refs[i]
               o == ns[p].refs[1]
    <3>2. 1 \in 1 .. Len(ns[p].refs)
      BY <3>1, <2>2, <1>0, NodeFacts
    <3>3. /\ c \in 1 .. Len(ns) /\ c # r /\ c # l /\ ns[c].parent = p
          /\ p # l => ns[c].leaf
          /\ ns[c].leaf = ns[o].leaf
      BY <3>1, <2>2, <1>0, ChildFacts, SMTT(30)
    <3>4. o \in 1 .. Len(ns)
      BY <3>1, <3>2, <2>2, <1>0, ChildFacts
    <3>5. ns[c].leaf
      BY <3>1, <3>3, <1>0
    <3>6. ms[p].refs[i] = c /\ ms[p].refs[1] = o
      BY <3>1
    <3> HIDE DEF c, o
    <3>7. c \in 1 .. Len(ms) /\ c # 0 /\ ms[c].parent = p /\ ms[c].leaf /\ ms[c].leaf = ms[o].leaf
      <4>1. c \in 1 .. N /\ ms[c].parent = p /\ ms[c].leaf = ns[c].leaf /\ ms[o].leaf = ns[o].leaf
        BY <3>3, <3>4, <1>4
      <4> QED BY <4>1, <3>3, <3>5, <1>1
    <3> QED BY <3>6, <3>7 DEF ChildOK
  <2> QED BY <2>1, <2>2, <1>3
<1>9. ASSUME NEW p \in 1 .. N, p # N PROVE ParentOK(ms, p)
  <2>1. p \in 1 .. Len(ns)
    BY <1>3, <1>9
  <2>2. CASE p = l \/ p = r
    <3>1. ms[p].parent = N /\ InSeq(ms[N].refs, p)
      <4>1. 1 \in 1 .. Len(ms[N].refs) /\ 2 \in 1 .. Len(ms[N].refs)
        BY <1>5
      <4> QED BY <4>1, <2>1, <2>2, <1>4, <1>5 DEF InSeq
    <3> QED BY <3>1, <1>1, <1>2 DEF ParentOK
  <2>3. CASE p # l /\ p # r
    <3> DEFINE v == ns[p].parent
    <3>1. v \in 1 .. Len(ns) /\ ~ns[v].leaf /\ \E i \in 1 .. Len(ns[v].refs) : ns[v].refs[i] = p
      BY <2>1, <2>3, <1>0, ParentFacts
    <3>2. ms[p].parent = v
      BY <2>1, <2>3, <1>4
    <3> HIDE DEF v
    <3>3. ms[v].refs = ns[v].refs /\ ~ms[v].leaf /\ v # 0
      BY <3>1, <1>4
    <3> QED BY <3>1, <3>2, <3>3 DEF ParentOK, InSeq
  <2> QED BY <2>2, <2>3
<1>10. Shape(ms, N, 0)
  <2>1. N \in 1 .. Len(ms)
    BY <1>1, <1>2
  <2>2. ms = [p \in 1 .. Len(ms) |-> ms[p]]
    BY DEF GrowInto
  <2> QED BY <2>1, <2>2, <1>1, <1>2, <1>7, <1>8, <1>9 DEF Shape
<1>11. \A c \in 1 .. Len(ns) : \A k : Below(ms, c, k) => Below(ns, c, k)
  <2>1. SUFFICES ASSUME NEW c \in 1 .. Len(ns) PROVE \A k : Below(ms, c, k) => Below(ns, c, k)
    OBVIOUS
  <2>2. ms[c].leaf = ns[c].leaf /\ ms[c].keys = ns[c].keys /\ ms[c].refs = ns[c].refs
    BY <1>4
  <2>3. ~ns[c].leaf => \A i \in 1 .. Len(ns[c].refs) : ns[c].refs[i] \in 1 .. Len(ns)
    BY <1>0, ChildFacts
  <2>4. ~ns[c].leaf => \A i \in 1 .. Len(ns[c].refs) : ms[ns[c].refs[i]].keys = ns[ns[c].refs[i]].keys
    BY <2>3, <1>4
  <2> QED BY ONLY <2>2, <2>4, BelowSame
<1>12. ASSUME NEW p \in 1 .. N, ~ms[p].leaf, NEW i \in 1 .. Len(ms[p].refs), NEW k \in Int,
              Below(ms, ms[p].refs[i], k)
       PROVE  Slot(ms[p].keys, k, i)
  <2>1. CASE p = N
    <3>1. i = 1 \/ i = 2
      BY <2>1, <1>5, <1>6, <1>12
    <3>2. CASE i = 1
      <4>1. k < u
        BY <3>2, <2>1, <1>0, <1>5, <1>11, <1>12
      <4> QED BY <4>1, <3>2, <2>1, <1>0, <1>5 DEF Slot
    <3>3. CASE i = 2
      <4>1. u <= k
        BY <3>3, <2>1, <1>0, <1>5, <1>11, <1>12
      <4> QED BY <4>1, <3>3, <2>1, <1>0, <1>5 DEF Slot
    <3> QED BY <3>1, <3>2, <3>3
  <2>2. CASE p \in 1 .. Len(ns)
    <3>1. /\ ms[p].refs = ns[p].refs /\ ms[p].keys = ns[p].keys /\ ~ns[p].leaf
          /\ i \in 1 .. Len(ns[p].refs)
      BY <2>2, <1>4, <1>12
    <3>2. ns[p].refs[i] \in 1 .. Len(ns)
      BY <3>1, <2>2, <1>0, ChildFacts
    <3>3. Below(ns, ns[p].refs[i], k)
      BY <3>1, <3>2, <1>11, <1>12
    <3> QED BY <3>1, <3>3, <2>2, <1>0 DEF Order, OrderAt
  <2> QED BY <2>1, <2>2, <1>3
<1>13. Order(ms)
  BY <1>1, <1>12 DEF Order, OrderAt
<1>14. Stored(ms) = Stored(ns)
  BY <1>1, <1>2, <1>3, <1>4, SameLeaves
<1> QED BY <1>10, <1>13, <1>14

\* A new root leads a search where it would have gone.
LEMMA GrowRoute ==
  ASSUME NEW ns, NEW l, NEW u, NEW r, Pend(ns, l, l, u, r), NEW ms, NEW N, GrowInto(ms, ns, l, u, r, N),
         NEW k \in Int, NEW q, Path(ms, N, k, q)
  PROVE  Route(ns, l, l, u, r, k, q)
<1>0. /\ Shape(ns, l, r) /\ l \in 1 .. Len(ns) /\ r \in 1 .. Len(ns) /\ l # r /\ u \in Int
      /\ ns[l].leaf = ns[r].leaf /\ (ns[l].leaf => ns[r].parent = ns[l].parent)
      /\ ns[l].parent = 0 /\ Len(ns) \in Nat
  BY DEF Pend, Shape
<1>1. /\ N = Len(ns) + 1 /\ Len(ms) = N /\ ~ms[N].leaf
      /\ \A p \in 1 .. Len(ns) : Keeps(ms, ns, p)
      /\ \A p \in 1 .. Len(ns) : ms[p].parent = IF p = l \/ p = r THEN N ELSE ns[p].parent
      /\ Len(ms[N].keys) = 1 /\ ms[N].keys[1] = u
      /\ Len(ms[N].refs) = 2 /\ ms[N].refs[1] = l /\ ms[N].refs[2] = r
  BY DEF GrowInto
<1>2. \A p \in 1 .. Len(ns) : /\ ms[p].leaf = ns[p].leaf /\ ms[p].keys = ns[p].keys
                              /\ ms[p].refs = ns[p].refs /\ p # N /\ p # 0
  <2>1. \A p \in 1 .. Len(ns) : p # N /\ p # 0
    BY ONLY <1>0, <1>1
  <2> QED BY ONLY <2>1, <1>1 DEF Keeps
<1>3. q \in 1 .. Len(ns) /\ ns[q].leaf /\ q # N
  <2>1. q \in 1 .. N /\ ms[q].leaf
    BY ONLY <1>1, Path(ms, N, k, q) DEF Path
  <2>2. q \in 1 .. Len(ns)
    BY ONLY <2>1, <1>0, <1>1
  <2> QED BY ONLY <2>1, <2>2, <1>2
<1>4. Up(ms, q, k) /\ (ms[q].parent # N => Up(ms, ms[q].parent, k))
  BY ONLY <1>3, Path(ms, N, k, q) DEF Path
<1>5. ASSUME NEW c \in 1 .. Len(ns), Up(ms, c, k) PROVE Due(ns, l, l, u, r, c, k)
  <2>1. CASE c = l \/ c = r
    <3>1. ms[c].parent = N
      BY ONLY <2>1, <1>1, <1>5
    <3>2. \A i \in 1 .. 2 : ms[N].refs[i] = c => Slot(ms[N].keys, k, i)
      BY ONLY <3>1, <1>1, <1>5 DEF Up
    <3>3. Slot(ms[N].keys, k, 1) => k < u
      BY ONLY <1>1 DEF Slot
    <3>4. Slot(ms[N].keys, k, 2) => u <= k
      BY ONLY <1>1 DEF Slot
    <3>5. (c = l => k < u) /\ (c = r => u <= k)
      BY ONLY <3>2, <3>3, <3>4, <1>1
    <3> QED BY ONLY <3>5, <2>1 DEF Due
  <2>2. CASE c # l /\ c # r
    <3> DEFINE v == ns[c].parent
    <3>1. v \in 1 .. Len(ns)
      BY <2>2, <1>0, <1>5, ParentFacts
    <3>2. ms[c].parent = v
      BY ONLY <2>2, <1>1, <1>5
    <3> HIDE DEF v
    <3>3. ms[v].keys = ns[v].keys /\ ms[v].refs = ns[v].refs
      BY ONLY <3>1, <1>2
    <3>4. Up(ns, c, k)
      BY ONLY <3>2, <3>3, <1>5 DEF Up, v
    <3> QED BY ONLY <3>4, <2>2 DEF Due
  <2> QED BY ONLY <2>1, <2>2
<1>6. Due(ns, l, l, u, r, q, k)
  BY ONLY <1>3, <1>4, <1>5
<1>7. ASSUME ns[q].parent # 0 PROVE Due(ns, l, l, u, r, ns[q].parent, k)
  <2>1. q # l /\ q # r
    BY ONLY <1>0, <1>3, <1>7
  <2> DEFINE c == ns[q].parent
  <2>2. c \in 1 .. Len(ns)
    BY <2>1, <1>0, <1>3, ParentFacts
  <2>3. ms[q].parent = c
    BY ONLY <2>1, <1>1, <1>3
  <2> HIDE DEF c
  <2>4. Up(ms, c, k)
    BY ONLY <2>2, <2>3, <1>2, <1>4
  <2>5. Due(ns, l, l, u, r, c, k)
    BY ONLY <2>2, <2>4, <1>5
  <2> QED BY ONLY <2>5 DEF c
<1> QED BY ONLY <1>3, <1>6, <1>7 DEF Route

\* None of these steps touches the chain.
LEMMA GrowChain ==
  ASSUME NEW ns, NEW l, NEW u, NEW r, Len(ns) \in Nat, NEW ms, NEW N, GrowInto(ms, ns, l, u, r, N)
  PROVE  SameChain(ms, ns)
<1>1. /\ N = Len(ns) + 1 /\ Len(ms) = N /\ ~ms[N].leaf /\ ms[N].next = 0
      /\ \A p \in 1 .. Len(ns) : Keeps(ms, ns, p)
  BY DEF GrowInto
<1>2. \A p \in 1 .. Len(ns) : ms[p].leaf = ns[p].leaf /\ ms[p].next = ns[p].next
  BY ONLY <1>1 DEF Keeps
<1>3. Len(ms) \in Nat /\ Len(ns) <= Len(ms) /\ \A p \in 1 .. Len(ms) : p \in 1 .. Len(ns) \/ p = N
  BY ONLY <1>1, Len(ns) \in Nat
<1> QED BY ONLY <1>1, <1>2, <1>3, Len(ns) \in Nat DEF SameChain

LEMMA GrowThreaded ==
  ASSUME NEW ns, NEW l, NEW u, NEW r, Pend(ns, l, l, u, r), NEW ms, NEW N, GrowInto(ms, ns, l, u, r, N)
  PROVE  Threaded(ms, N)
<1>1. Woven(ns, l, l, u, r) /\ Len(ns) \in Nat
  BY DEF Pend, Shape
<1>2. SameChain(ms, ns)
  BY <1>1, GrowChain
<1>3. \A k \in Int : \A q : Path(ms, N, k, q) => Route(ns, l, l, u, r, k, q)
  BY GrowRoute
<1> QED BY ONLY <1>1, <1>2, <1>3, WovenThreaded

\* The root leads to P for all that P and its children hold, the new ones too.
Beneath(ns, f, g, k) == InSeq(f, k) \/ \E j \in 1 .. Len(g) : InSeq(ns[g[j]].keys, k)

LEMMA FullUp ==
  ASSUME NEW ns, NEW rt, NEW l, NEW u, NEW r, Pend(ns, rt, l, u, r), l # rt, NEW P, P = ns[l].parent,
         P # rt, NEW f, NEW g, IsFull(f, g, ns, P, u, r), NEW k \in Int, Beneath(ns, f, g, k)
  PROVE  Up(ns, P, k)
<1>0. /\ Shape(ns, rt, r) /\ Order(ns) /\ l \in 1 .. Len(ns) /\ r \in 1 .. Len(ns) /\ u \in Int
      /\ \A x \in Int : x = u \/ Below(ns, r, x) => Up(ns, P, x)
  BY DEF Pend
<1>1. P \in 1 .. Len(ns) /\ ~ns[P].leaf /\ ns[P].parent = rt /\ P # r
  BY PendParent
<1>2. rt \in 1 .. Len(ns) /\ ~ns[rt].leaf
  BY <1>0, <1>1, ParentFacts
<1>3. Below(ns, P, k) => Up(ns, P, k)
  BY <1>0, <1>1, <1>2 DEF Order, OrderAt, Up
<1>4. CASE InSeq(f, k)
  <2>1. InSeq(ns[P].keys, k) \/ k = u
    BY <1>4 DEF IsFull
  <2> QED BY <2>1, <1>0, <1>3 DEF Below
<1>5. ASSUME NEW j \in 1 .. Len(g), InSeq(ns[g[j]].keys, k) PROVE Up(ns, P, k)
  <2>1. InSeq(g, g[j])
    BY DEF InSeq
  <2>2. InSeq(ns[P].refs, g[j]) \/ g[j] = r
    BY <2>1 DEF IsFull
  <2>3. CASE g[j] = r
    BY <2>3, <1>0, <1>5 DEF Below
  <2>4. CASE InSeq(ns[P].refs, g[j])
    <3>1. PICK m \in 1 .. Len(ns[P].refs) : ns[P].refs[m] = g[j]
      BY <2>4 DEF InSeq
    <3>2. Below(ns, P, k)
      BY <3>1, <1>1, <1>5 DEF Below
    <3> QED BY <3>2, <1>3
  <2> QED BY <2>2, <2>3, <2>4
<1> QED BY <1>4, <1>5 DEF Beneath

\* P gets u and r.
FillInto(ms, ns, P, f, g, r) ==
    /\ Len(ms) = Len(ns) /\ ms = [p \in 1 .. Len(ms) |-> ms[p]]
    /\ \A p \in 1 .. Len(ns) : p # P => Keeps(ms, ns, p)
    /\ \A p \in 1 .. Len(ns) : ms[p].parent = IF p = r THEN P ELSE ns[p].parent
    /\ ms[P] \in NodeSet /\ ~ms[P].leaf /\ ms[P].next = ns[P].next
    /\ ms[P].keys = f /\ ms[P].refs = g

HasRoom(ns, P) == Len(ns[P].keys) < INTERNAL_MAX_KEYS

FillStep(ms, ns, rt, l, u, r, P, f, g) ==
    /\ Pend(ns, rt, l, u, r) /\ l # rt /\ P = ns[l].parent
    /\ IsFull(f, g, ns, P, u, r) /\ HasRoom(ns, P) /\ FillInto(ms, ns, P, f, g, r)

LEMMA FillOK ==
  ASSUME NEW ns, NEW rt, NEW l, NEW u, NEW r, NEW P, NEW f, NEW g, NEW ms,
         FillStep(ms, ns, rt, l, u, r, P, f, g)
  PROVE  Shape(ms, rt, 0) /\ Order(ms) /\ Stored(ms) = Stored(ns)
<1>20. /\ Pend(ns, rt, l, u, r) /\ l # rt /\ P = ns[l].parent
       /\ IsFull(f, g, ns, P, u, r) /\ HasRoom(ns, P) /\ FillInto(ms, ns, P, f, g, r)
  BY DEF FillStep
<1> USE <1>20
<1>0. /\ Shape(ns, rt, r) /\ Order(ns) /\ l \in 1 .. Len(ns) /\ r \in 1 .. Len(ns) /\ l # r
  BY DEF Pend
<1>1. /\ P \in 1 .. Len(ns) /\ ~ns[P].leaf /\ P # r /\ rt # r /\ rt \in 1 .. Len(ns)
      /\ ~ns[l].leaf => P = rt
      /\ P # rt => ns[P].parent = rt
      /\ Len(ns) \in Nat /\ ns[rt].parent = 0
  BY <1>0, PendParent DEF Shape
<1>2. /\ Len(ms) = Len(ns)
      /\ ms[P] \in NodeSet /\ ~ms[P].leaf /\ ms[P].next = ns[P].next
      /\ ms[P].keys = f /\ ms[P].refs = g
  BY DEF FillInto
<1>3. \A p \in 1 .. Len(ns) : /\ ms[p].parent = IF p = r THEN P ELSE ns[p].parent
                              /\ p # P => Keeps(ms, ns, p)
  BY DEF FillInto
<1>4. \A p \in 1 .. Len(ns) : p # P => /\ ms[p].leaf = ns[p].leaf /\ ms[p].keys = ns[p].keys
                                       /\ ms[p].refs = ns[p].refs
  BY <1>3 DEF Keeps
<1>5. \A p \in 1 .. Len(ns) : ms[p].leaf = ns[p].leaf
  <2>1. ms[P].leaf = FALSE /\ ns[P].leaf = FALSE
    <3>1. ms[P].leaf \in BOOLEAN /\ ns[P].leaf \in BOOLEAN
      BY <1>0, <1>1, <1>2, NodeFacts DEF NodeSet
    <3> QED BY <3>1, <1>1, <1>2
  <2> QED BY <2>1, <1>4
<1>6. /\ f \in Seq(Int) /\ g \in Seq(Nat) /\ Len(f) \in Nat
      /\ Len(f) = Len(ns[P].keys) + 1 /\ Len(g) = Len(f) + 1
      /\ Sorted(f) /\ Distinct(g)
      /\ \A x : InSeq(g, x) <=> InSeq(ns[P].refs, x) \/ x = r
      /\ \A j \in 1 .. Len(g) : \A k \in Int : Below(ns, g[j], k) => Slot(f, k, j)
  BY ONLY IsFull(f, g, ns, P, u, r) DEF IsFull
<1>7. Len(f) \in 1 .. INTERNAL_MAX_KEYS
  <2>1. Len(ns[P].keys) \in Nat /\ INTERNAL_MAX_KEYS \in Nat
    BY <1>0, <1>1, NodeFacts, Capacities
  <2>2. Len(f) = Len(ns[P].keys) + 1
    BY <1>6
  <2> QED BY ONLY <2>1, <2>2, HasRoom(ns, P) DEF HasRoom
<1>8. \A j \in 1 .. Len(g) : /\ g[j] \in 1 .. Len(ns) /\ g[j] # rt /\ g[j] # P
                             /\ ns[g[j]].leaf = ns[l].leaf
                             /\ g[j] # r => ns[g[j]].parent = P
  <2>1. \A j \in 1 .. Len(g) : FullChild(ns, rt, l, P, r, g[j])
    BY FullChildren
  <2> QED BY <2>1 DEF FullChild
<1>9. ASSUME NEW p \in 1 .. Len(ns) PROVE NodeOK(ms[p], Len(ns))
  <2>1. ms[p].parent \in 0 .. Len(ns)
    BY <1>0, <1>1, <1>3, NodeFacts
  <2>2. CASE p # P
    BY <2>1, <2>2, <1>0, <1>1, <1>3, KeepsOK
  <2>3. CASE p = P
    <3>1. ms[P].next \in 0 .. Len(ns)
      BY <1>0, <1>1, <1>2, NodeFacts
    <3>2. Sorted(ms[P].keys) /\ InnerOK(ms[P])
      BY <1>2, <1>6, <1>7 DEF InnerOK
    <3> QED BY <3>1, <3>2, <2>1, <2>3, <1>2 DEF NodeOK
  <2> QED BY <2>2, <2>3
<1>10. ASSUME NEW p \in 1 .. Len(ns), ~ms[p].leaf, NEW i \in 1 .. Len(ms[p].refs)
       PROVE  ChildOK(ms, rt, 0, p, i)
  <2>1. CASE p = P
    <3>1. i \in 1 .. Len(g) /\ 1 \in 1 .. Len(g)
      BY <2>1, <1>2, <1>6, <1>10, SMTT(30)
    <3> DEFINE c == g[i]
               o == g[1]
    <3>2. /\ c \in 1 .. Len(ns) /\ c # P /\ ns[c].leaf = ns[l].leaf /\ (c # r => ns[c].parent = P)
          /\ o \in 1 .. Len(ns) /\ ns[o].leaf = ns[l].leaf
      BY <3>1, <1>8
    <3>3. ms[p].refs[i] = c /\ ms[p].refs[1] = o
      BY <2>1, <1>2
    <3> HIDE DEF c, o
    <3>4. ms[c].leaf = ns[l].leaf /\ ms[o].leaf = ns[l].leaf /\ ms[c].parent = P
      BY <3>2, <1>3, <1>5
    <3>5. p # rt => ms[c].leaf
      BY <3>4, <2>1, <1>1
    <3>6. c \in 1 .. Len(ms) /\ c # 0
      BY <3>2, <1>1, <1>2
    <3> QED BY <3>3, <3>4, <3>5, <3>6, <2>1 DEF ChildOK
  <2>2. CASE p # P
    <3>1. ms[p].refs = ns[p].refs /\ ~ns[p].leaf /\ i \in 1 .. Len(ns[p].refs)
      BY <2>2, <1>4, <1>10
    <3> DEFINE c == ns[p].refs[i]
               o == ns[p].refs[1]
    <3>2. 1 \in 1 .. Len(ns[p].refs)
      BY <3>1, <1>0, NodeFacts
    <3>3. /\ c \in 1 .. Len(ns) /\ c # r /\ ns[c].parent = p
          /\ p # rt => ns[c].leaf
          /\ ns[c].leaf = ns[o].leaf
      BY <3>1, <1>0, ChildFacts
    <3>4. o \in 1 .. Len(ns)
      BY <3>1, <3>2, <1>0, ChildFacts
    <3>6. ms[p].refs[i] = c /\ ms[p].refs[1] = o
      BY <3>1
    <3> HIDE DEF c, o
    <3>7. ms[c].leaf = ns[c].leaf /\ ms[o].leaf = ns[o].leaf /\ ms[c].parent = p
      BY <3>3, <3>4, <1>3, <1>5
    <3>8. c \in 1 .. Len(ms) /\ c # 0
      BY <3>3, <1>1, <1>2
    <3> QED BY <3>3, <3>6, <3>7, <3>8 DEF ChildOK
  <2> QED BY <2>1, <2>2
<1>11. ASSUME NEW p \in 1 .. Len(ns), p # rt PROVE ParentOK(ms, p)
  <2>1. CASE p = r
    <3>1. ms[p].parent = P /\ InSeq(ms[P].refs, p) /\ P # 0
      BY <2>1, <1>1, <1>2, <1>3, <1>6
    <3> QED BY <3>1, <1>2 DEF ParentOK
  <2>2. CASE p # r
    <3> DEFINE v == ns[p].parent
    <3>1. v \in 1 .. Len(ns) /\ ~ns[v].leaf /\ \E i \in 1 .. Len(ns[v].refs) : ns[v].refs[i] = p
      BY <2>2, <1>0, <1>11, ParentFacts
    <3>2. ms[p].parent = v
      BY <2>2, <1>3
    <3> HIDE DEF v
    <3>3. InSeq(ns[v].refs, p) /\ v # 0 /\ ~ms[v].leaf
      BY <3>1, <1>1, <1>5 DEF InSeq
    <3>4. InSeq(ms[v].refs, p)
      BY <3>1, <3>3, <1>2, <1>4, <1>6
    <3> QED BY <3>2, <3>3, <3>4 DEF ParentOK
  <2> QED BY <2>1, <2>2
<1>12. Shape(ms, rt, 0)
  <2>1. ms = [p \in 1 .. Len(ms) |-> ms[p]]
    BY DEF FillInto
  <2>2. ms[rt].parent = 0 /\ rt # 0
    BY <1>1, <1>3
  <2> QED BY <2>1, <2>2, <1>1, <1>2, <1>9, <1>10, <1>11 DEF Shape
\* A page that is not P and has not P as a child.
<1>13. ASSUME NEW c \in 1 .. Len(ns), c # P,
              ~ns[c].leaf => \A i \in 1 .. Len(ns[c].refs) : ns[c].refs[i] # P
       PROVE  \A k : Below(ms, c, k) => Below(ns, c, k)
  <2>2. ms[c].leaf = ns[c].leaf /\ ms[c].keys = ns[c].keys /\ ms[c].refs = ns[c].refs
    BY <1>4, <1>13
  <2>3. ~ns[c].leaf => \A i \in 1 .. Len(ns[c].refs) : ns[c].refs[i] \in 1 .. Len(ns)
    BY <1>0, ChildFacts
  <2>4. ~ns[c].leaf => \A i \in 1 .. Len(ns[c].refs) : ms[ns[c].refs[i]].keys = ns[ns[c].refs[i]].keys
    BY <2>3, <1>4, <1>13
  <2> QED BY ONLY <2>2, <2>4, BelowSame
<1>14. ASSUME NEW i \in 1 .. Len(g), NEW k \in Int, Below(ms, g[i], k) PROVE Slot(f, k, i)
  <2> DEFINE c == g[i]
  <2>1. c \in 1 .. Len(ns) /\ c # P /\ ns[c].leaf = ns[l].leaf /\ c = g[i]
    BY <1>8
  <2> HIDE DEF c
  <2>2. ~ns[c].leaf => \A m \in 1 .. Len(ns[c].refs) : ns[c].refs[m] # P
    <3>1. ~ns[c].leaf => P = rt
      BY <2>1, <1>1
    <3>2. ~ns[c].leaf => \A m \in 1 .. Len(ns[c].refs) : ns[c].refs[m] # rt
      BY <2>1, <1>0, ChildFacts
    <3> QED BY <3>1, <3>2
  <2>3. Below(ns, c, k)
    BY <2>1, <2>2, <1>13, <1>14
  <2> QED BY <2>1, <2>3, <1>6
<1>15. ASSUME NEW p \in 1 .. Len(ns), p # P, ~ns[p].leaf, NEW i \in 1 .. Len(ns[p].refs), NEW k \in Int,
              Below(ms, ns[p].refs[i], k)
       PROVE  Slot(ns[p].keys, k, i)
  <2> DEFINE c == ns[p].refs[i]
  <2>1. c \in 1 .. Len(ns) /\ c # rt /\ ns[c].parent = p /\ (p # rt => ns[c].leaf) /\ c = ns[p].refs[i]
    BY <1>0, <1>15, ChildFacts
  <2> HIDE DEF c
  <2>2. CASE c # P
    <3>1. ASSUME ~ns[c].leaf, NEW m \in 1 .. Len(ns[c].refs) PROVE ns[ns[c].refs[m]].leaf
      <4>1. Shape(ns, rt, r) /\ c \in 1 .. Len(ns) /\ c # rt
        BY ONLY <2>1, <1>0
      <4> QED BY ONLY <4>1, <3>1, ChildFacts, SMTT(30)
    <3>2. Below(ns, c, k)
      BY <3>1, <2>1, <2>2, <1>1, <1>13, <1>15
    <3> QED BY <3>2, <2>1, <1>0, <1>15 DEF Order, OrderAt
  <2>3. CASE c = P
    <3>1. InSeq(f, k) \/ \E j \in 1 .. Len(g) : InSeq(ns[g[j]].keys, k)
      <4>1. InSeq(f, k) \/ \E j \in 1 .. Len(g) : InSeq(ms[g[j]].keys, k)
        BY <2>1, <2>3, <1>2, <1>15 DEF Below
      <4> QED BY <4>1, <1>4, <1>8
    <3>2. Up(ns, P, k)
      <4>1. Beneath(ns, f, g, k)
        BY ONLY <3>1 DEF Beneath
      <4>2. P # rt
        BY ONLY <2>1, <2>3
      <4>3. k \in Int
        OBVIOUS
      <4> QED BY ONLY <4>1, <4>2, <4>3, <1>20, FullUp
    <3> QED BY <3>2, <2>1, <2>3, <1>15 DEF Up
  <2> QED BY <2>2, <2>3
<1>16. Order(ms)
  <2>1. SUFFICES ASSUME NEW p \in 1 .. Len(ms), ~ms[p].leaf, NEW i \in 1 .. Len(ms[p].refs), NEW k \in Int,
                        Below(ms, ms[p].refs[i], k)
                 PROVE  Slot(ms[p].keys, k, i)
    BY DEF Order, OrderAt
  <2>2. CASE p = P
    BY <2>1, <2>2, <1>2, <1>14
  <2>3. CASE p # P
    <3>1. p \in 1 .. Len(ns) /\ ~ns[p].leaf /\ ms[p].keys = ns[p].keys /\ ms[p].refs = ns[p].refs
      BY <2>1, <2>3, <1>2, <1>4
    <3>2. i \in 1 .. Len(ns[p].refs) /\ Below(ms, ns[p].refs[i], k)
      BY <3>1, <2>1
    <3> QED BY <3>1, <3>2, <2>3, <1>15
  <2> QED BY <2>2, <2>3
<1>17. Stored(ms) = Stored(ns)
  <2>1. \A p \in 1 .. Len(ns) : ns[p].leaf => ms[p].keys = ns[p].keys
    BY <1>1, <1>4
  <2>2. Len(ns) <= Len(ms) /\ Len(ms) \in Nat /\ \A p \in 1 .. Len(ms) : p \in 1 .. Len(ns)
    BY <1>1, <1>2
  <2> QED BY <2>1, <2>2, <1>1, <1>5, SameLeaves
<1> QED BY <1>12, <1>16, <1>17

\* The root of a tree that has a parent to tell is not a leaf.
LEMMA RootInner ==
  ASSUME NEW ns, NEW rt, NEW l, NEW u, NEW r, Pend(ns, rt, l, u, r), l # rt, NEW P, P = ns[l].parent
  PROVE  ~ns[rt].leaf
<1>1. P \in 1 .. Len(ns) /\ ~ns[P].leaf /\ P # r /\ (P # rt => ns[P].parent = rt)
  BY PendParent
<1>2. Shape(ns, rt, r)
  BY DEF Pend
<1>3. CASE P = rt
  BY ONLY <1>1, <1>3
<1>4. CASE P # rt
  BY ONLY <1>1, <1>2, <1>4, ParentFacts
<1> QED BY ONLY <1>3, <1>4

\* A parent that takes u and r leads a search where it would have gone.
LEMMA FillRoute ==
  ASSUME NEW ns, NEW rt, NEW l, NEW u, NEW r, NEW P, NEW f, NEW g, NEW ms,
         FillStep(ms, ns, rt, l, u, r, P, f, g),
         Shape(ms, rt, 0), NEW k \in Int, NEW q, Path(ms, rt, k, q)
  PROVE  Route(ns, rt, l, u, r, k, q)
<1>0. /\ Pend(ns, rt, l, u, r) /\ l # rt /\ P = ns[l].parent
      /\ IsFull(f, g, ns, P, u, r) /\ FillInto(ms, ns, P, f, g, r)
  BY DEF FillStep
<1>1. /\ Shape(ns, rt, r) /\ l \in 1 .. Len(ns) /\ r \in 1 .. Len(ns) /\ l # r /\ rt # r
      /\ ns[l].leaf = ns[r].leaf /\ (ns[l].leaf => ns[r].parent = ns[l].parent)
  BY ONLY <1>0 DEF Pend, Shape
<1>2. P \in 1 .. Len(ns) /\ ~ns[P].leaf /\ ~ns[rt].leaf /\ P # r /\ P # l
  BY ONLY <1>0, PendParent, RootInner
<1>3. /\ Len(ms) = Len(ns) /\ ~ms[P].leaf /\ ms[P].keys = f /\ ms[P].refs = g
      /\ \A p \in 1 .. Len(ns) : /\ ms[p].parent = IF p = r THEN P ELSE ns[p].parent
                                 /\ p # P => Keeps(ms, ns, p)
  BY ONLY <1>0 DEF FillInto
<1>4. \A p \in 1 .. Len(ns) : p # P => /\ ms[p].leaf = ns[p].leaf /\ ms[p].keys = ns[p].keys
                                       /\ ms[p].refs = ns[p].refs
  BY ONLY <1>3 DEF Keeps
<1>5. q \in 1 .. Len(ns) /\ ms[q].leaf /\ ns[q].leaf /\ q # P /\ q # rt /\ q # 0
  <2>1. q \in 1 .. Len(ns) /\ ms[q].leaf
    BY ONLY <1>3, Path(ms, rt, k, q) DEF Path
  <2>2. q # P
    BY ONLY <2>1, <1>3
  <2>3. ns[q].leaf
    BY ONLY <2>1, <2>2, <1>4
  <2> QED BY ONLY <2>1, <2>2, <2>3, <1>2
<1>6. Up(ms, q, k) /\ (ms[q].parent # rt => Up(ms, ms[q].parent, k))
  BY ONLY <1>5, Path(ms, rt, k, q) DEF Path
<1>7. ASSUME NEW c \in 1 .. Len(ns), c # rt, Up(ms, c, k) PROVE Due(ns, rt, l, u, r, c, k)
  <2> DEFINE v == ms[c].parent
  <2>1. v \in 1 .. Len(ns) /\ \E j \in 1 .. Len(ms[v].refs) : ms[v].refs[j] = c
    <3>1. c # 0
      OBVIOUS
    <3> QED BY ONLY <3>1, <1>3, <1>7, Shape(ms, rt, 0), ParentFacts
  <2>2. PICK j \in 1 .. Len(ms[v].refs) : ms[v].refs[j] = c
    BY ONLY <2>1
  <2>3. Slot(ms[v].keys, k, j)
    BY ONLY <2>2, <1>7 DEF Up
  <2>9. v = ms[c].parent
    OBVIOUS
  <2> HIDE DEF v
  <2>4. CASE v = P
    <3>1. j \in 1 .. Len(g) /\ g[j] = c /\ Slot(f, k, j)
      BY ONLY <2>2, <2>3, <2>4, <1>3
    <3>2. Due(ns, rt, l, u, r, g[j], k)
      BY ONLY <3>1, <1>0, k \in Int, FullRoute
    <3> QED BY ONLY <3>1, <3>2
  <2>5. CASE v # P
    <3>1. c # r /\ ns[c].parent = v
      BY ONLY <2>5, <2>9, <1>3, <1>7
    <3>2. c # l
      BY ONLY <3>1, <2>5, <1>0
    <3>3. ms[v].keys = ns[v].keys /\ ms[v].refs = ns[v].refs
      BY ONLY <2>1, <2>5, <1>4
    <3>4. Up(ns, c, k)
      BY ONLY <3>1, <3>3, <2>9, <1>7 DEF Up
    <3> QED BY ONLY <3>1, <3>2, <3>4 DEF Due
  <2> QED BY ONLY <2>4, <2>5
<1>8. Due(ns, rt, l, u, r, q, k)
  BY ONLY <1>5, <1>6, <1>7
<1>9. Due(ns, rt, l, u, r, ns[q].parent, k)
  <2> DEFINE c == ms[q].parent
  <2>1. c \in 1 .. Len(ns)
    BY ONLY <1>3, <1>5, Shape(ms, rt, 0), ParentFacts
  <2>2. ns[q].parent = c
    BY ONLY <1>0, <1>1, <1>3, <1>5
  <2>3. c # rt => Up(ms, c, k)
    BY ONLY <1>6
  <2> HIDE DEF c
  <2>4. c # rt => Due(ns, rt, l, u, r, c, k)
    BY ONLY <2>1, <2>3, <1>7
  <2>5. Due(ns, rt, l, u, r, rt, k)
    BY ONLY <1>0, <1>1 DEF Due
  <2>6. Due(ns, rt, l, u, r, c, k)
    BY ONLY <2>4, <2>5
  <2> QED BY ONLY <2>2, <2>6
<1> QED BY ONLY <1>5, <1>8, <1>9 DEF Route

LEMMA FillChain ==
  ASSUME NEW ns, NEW P, NEW f, NEW g, NEW r, NEW rt, NEW d, Shape(ns, rt, d), P \in 1 .. Len(ns), ~ns[P].leaf,
         NEW ms, FillInto(ms, ns, P, f, g, r)
  PROVE  SameChain(ms, ns)
<1>1. /\ Len(ms) = Len(ns) /\ ms[P] \in NodeSet /\ ~ms[P].leaf /\ ms[P].next = ns[P].next
      /\ \A p \in 1 .. Len(ns) : p # P => Keeps(ms, ns, p)
  BY DEF FillInto
<1>2. ms[P].leaf = ns[P].leaf /\ Len(ns) \in Nat
  <2>1. ns[P].leaf \in BOOLEAN /\ Len(ns) \in Nat
    BY NodeFacts
  <2>2. ms[P].leaf \in BOOLEAN
    BY ONLY <1>1 DEF NodeSet
  <2> QED BY ONLY <2>1, <2>2, <1>1, ~ns[P].leaf
<1>3. \A p \in 1 .. Len(ns) : ms[p].leaf = ns[p].leaf /\ ms[p].next = ns[p].next
  BY ONLY <1>1, <1>2 DEF Keeps
<1>4. Len(ms) \in Nat /\ Len(ns) <= Len(ms)
  BY ONLY <1>1, <1>2
<1> QED BY ONLY <1>1, <1>2, <1>3, <1>4 DEF SameChain

LEMMA FillThreaded ==
  ASSUME NEW ns, NEW rt, NEW l, NEW u, NEW r, NEW P, NEW f, NEW g, NEW ms,
         FillStep(ms, ns, rt, l, u, r, P, f, g), Shape(ms, rt, 0)
  PROVE  Threaded(ms, rt)
<1>1. /\ Pend(ns, rt, l, u, r) /\ l # rt /\ P = ns[l].parent /\ FillInto(ms, ns, P, f, g, r)
  BY DEF FillStep
<1>2. Woven(ns, rt, l, u, r) /\ Shape(ns, rt, r)
  BY ONLY <1>1 DEF Pend
<1>3. P \in 1 .. Len(ns) /\ ~ns[P].leaf
  BY ONLY <1>1, PendParent
<1>4. SameChain(ms, ns)
  BY ONLY <1>1, <1>2, <1>3, FillChain
<1>5. \A k \in Int : \A q : Path(ms, rt, k, q) => Route(ns, rt, l, u, r, k, q)
  BY FillRoute
<1> QED BY ONLY <1>2, <1>4, <1>5, WovenThreaded

\* The keys f are cut into f1, the middle one and f2, the children g into g1
\* and g2.
IsCut(f1, g1, f2, g2, f, g, m) ==
    /\ m \in Nat /\ m >= 1 /\ m + 1 < Len(f) /\ Len(f) \in Nat /\ Len(g) = Len(f) + 1
    /\ f1 \in Seq(Int) /\ f2 \in Seq(Int) /\ g1 \in Seq(Nat) /\ g2 \in Seq(Nat)
    /\ Len(f1) = m /\ Len(g1) = m + 1 /\ Len(f2) = Len(f) - (m + 1) /\ Len(g2) = Len(g) - (m + 1)
    /\ \A j \in 1 .. m : f1[j] = f[j]
    /\ \A j \in 1 .. m + 1 : g1[j] = g[j]
    /\ \A j \in 1 .. Len(f2) : f2[j] = f[m + 1 + j]
    /\ \A j \in 1 .. Len(g2) : g2[j] = g[m + 1 + j]

LEMMA CutFacts ==
  ASSUME NEW f \in Seq(Int), NEW g \in Seq(Nat), Len(g) = Len(f) + 1, Len(f) >= 3,
         NEW m, m = Len(f) \div 2
  PROVE  IsCut(SubSeq(f, 1, m), SubSeq(g, 1, m + 1), SubSeq(f, m + 2, Len(f)),
               SubSeq(g, m + 2, Len(f) + 1), f, g, m)
<1>1. Len(f) \in Nat /\ Len(g) \in Nat
  OBVIOUS
<1>2. m \in Nat /\ m >= 1 /\ m + 1 < Len(f)
  BY <1>1
<1>3. /\ SubSeq(f, 1, m) \in Seq(Int) /\ Len(SubSeq(f, 1, m)) = m
      /\ \A j \in 1 .. m : SubSeq(f, 1, m)[j] = f[j]
  <2>1. 1 \in 1 .. Len(f) + 1 /\ m \in 0 .. Len(f) /\ 1 <= m + 1
    BY <1>1, <1>2
  <2>2. /\ SubSeq(f, 1, m) \in Seq(Int) /\ Len(SubSeq(f, 1, m)) = m - 1 + 1
        /\ \A j \in 1 .. m - 1 + 1 : SubSeq(f, 1, m)[j] = f[1 + j - 1]
    <3>1. f \in Seq(Int)
      OBVIOUS
    <3> QED BY ONLY <3>1, <2>1, PartFacts
  <2>3. m - 1 + 1 = m /\ \A j \in 1 .. m : 1 + j - 1 = j
    BY <1>2
  <2> QED BY ONLY <2>2, <2>3
<1>4. /\ SubSeq(g, 1, m + 1) \in Seq(Nat) /\ Len(SubSeq(g, 1, m + 1)) = m + 1
      /\ \A j \in 1 .. m + 1 : SubSeq(g, 1, m + 1)[j] = g[j]
  <2>1. 1 \in 1 .. Len(g) + 1 /\ m + 1 \in 0 .. Len(g) /\ 1 <= m + 1 + 1
    BY <1>1, <1>2
  <2> DEFINE e == m + 1
  <2>3. e - 1 + 1 = e /\ \A j \in 1 .. e : 1 + j - 1 = j
    BY <1>2
  <2> HIDE DEF e
  <2>4. 1 \in 1 .. Len(g) + 1 /\ e \in 0 .. Len(g) /\ 1 <= e + 1
    BY <2>1 DEF e
  <2>2. /\ SubSeq(g, 1, e) \in Seq(Nat) /\ Len(SubSeq(g, 1, e)) = e - 1 + 1
        /\ \A j \in 1 .. e - 1 + 1 : SubSeq(g, 1, e)[j] = g[1 + j - 1]
    <3>1. g \in Seq(Nat)
      OBVIOUS
    <3> QED BY ONLY <3>1, <2>4, PartFacts
  <2>5. /\ SubSeq(g, 1, e) \in Seq(Nat) /\ Len(SubSeq(g, 1, e)) = e
        /\ \A j \in 1 .. e : SubSeq(g, 1, e)[j] = g[j]
    BY ONLY <2>2, <2>3
  <2> QED BY ONLY <2>5 DEF e
<1>5. /\ SubSeq(f, m + 2, Len(f)) \in Seq(Int) /\ Len(SubSeq(f, m + 2, Len(f))) = Len(f) - (m + 1)
      /\ \A j \in 1 .. Len(f) - (m + 1) : SubSeq(f, m + 2, Len(f))[j] = f[m + 1 + j]
  <2>1. m + 2 \in 1 .. Len(f) + 1 /\ Len(f) \in 0 .. Len(f) /\ m + 2 <= Len(f) + 1
    BY <1>1, <1>2
  <2> DEFINE len == Len(f)
             b == m + 2
  <2>4. f \in Seq(Int) /\ b \in 1 .. Len(f) + 1 /\ len \in 0 .. Len(f) /\ b <= len + 1
    BY <2>1
  <2>3. len - b + 1 = len - (m + 1) /\ \A j \in 1 .. len - (m + 1) : b + j - 1 = m + 1 + j
    BY <1>1, <1>2
  <2>5. len = Len(f) /\ b = m + 2
    OBVIOUS
  <2> HIDE DEF len, b
  <2>2. /\ SubSeq(f, b, len) \in Seq(Int) /\ Len(SubSeq(f, b, len)) = len - b + 1
        /\ \A j \in 1 .. len - b + 1 : SubSeq(f, b, len)[j] = f[b + j - 1]
    BY ONLY <2>4, PartFacts
  <2> QED BY ONLY <2>5, <2>2, <2>3
<1>6. /\ SubSeq(g, m + 2, Len(f) + 1) \in Seq(Nat)
      /\ Len(SubSeq(g, m + 2, Len(f) + 1)) = Len(g) - (m + 1)
      /\ \A j \in 1 .. Len(g) - (m + 1) : SubSeq(g, m + 2, Len(f) + 1)[j] = g[m + 1 + j]
  <2>1. m + 2 \in 1 .. Len(g) + 1 /\ Len(g) \in 0 .. Len(g) /\ m + 2 <= Len(g) + 1 /\ Len(f) + 1 = Len(g)
    BY <1>1, <1>2
  <2> DEFINE len == Len(g)
             b == m + 2
  <2>4. g \in Seq(Nat) /\ b \in 1 .. Len(g) + 1 /\ len \in 0 .. Len(g) /\ b <= len + 1
    BY <2>1
  <2>3. len - b + 1 = len - (m + 1) /\ \A j \in 1 .. len - (m + 1) : b + j - 1 = m + 1 + j
    BY <1>1, <1>2
  <2>5. len = Len(g) /\ b = m + 2
    OBVIOUS
  <2> HIDE DEF len, b
  <2>2. /\ SubSeq(g, b, len) \in Seq(Nat) /\ Len(SubSeq(g, b, len)) = len - b + 1
        /\ \A j \in 1 .. len - b + 1 : SubSeq(g, b, len)[j] = g[b + j - 1]
    BY ONLY <2>4, PartFacts
  <2> QED BY ONLY <2>5, <2>1, <2>2, <2>3
<1> QED BY <1>1, <1>2, <1>3, <1>4, <1>5, <1>6 DEF IsCut

\* What the cut keeps.
CutKeeps(f1, g1, f2, g2, f, g, m) ==
    /\ Sorted(f1) /\ Sorted(f2) /\ Distinct(g1) /\ Distinct(g2)
    /\ f[m + 1] \in Int /\ InSeq(f, f[m + 1]) /\ f[1] \in Int /\ InSeq(f1, f[1])
    /\ \A x \in Int : InSeq(f1, x) => InSeq(f, x) /\ x < f[m + 1]
    /\ \A x \in Int : InSeq(f2, x) => InSeq(f, x) /\ f[m + 1] <= x
    /\ \A j \in 1 .. m + 1 : \A k \in Int : Slot(f, k, j) => Slot(f1, k, j) /\ k < f[m + 1]
    /\ \A j \in 1 .. Len(g2) : \A k \in Int : Slot(f, k, m + 1 + j) => Slot(f2, k, j) /\ f[m + 1] <= k
    /\ \A i \in 1 .. m + 1 : \A j \in 1 .. Len(g2) : g1[i] # g2[j]
    /\ \A x : InSeq(g, x) <=> InSeq(g1, x) \/ InSeq(g2, x)

LEMMA CutKeepsFacts ==
  ASSUME NEW f \in Seq(Int), NEW g, NEW f1, NEW g1, NEW f2, NEW g2, NEW m,
         IsCut(f1, g1, f2, g2, f, g, m), Sorted(f), Distinct(g)
  PROVE  CutKeeps(f1, g1, f2, g2, f, g, m)
<1> DEFINE len == Len(f)
           n2 == Len(f2)
<1>1. /\ m \in Nat /\ m >= 1 /\ m + 1 < len /\ len \in Nat /\ Len(g) = len + 1
      /\ Len(f1) = m /\ Len(g1) = m + 1 /\ n2 = len - (m + 1) /\ Len(g2) = len + 1 - (m + 1)
  BY DEF IsCut
<1>2. /\ \A j \in 1 .. m : f1[j] = f[j]
      /\ \A j \in 1 .. m + 1 : g1[j] = g[j]
      /\ \A j \in 1 .. n2 : f2[j] = f[m + 1 + j]
      /\ \A j \in 1 .. Len(g2) : g2[j] = g[m + 1 + j]
  BY DEF IsCut
<1>3. \A j \in 1 .. len : f[j] \in Int
  OBVIOUS
<1>4. /\ \A i, j \in 1 .. len : i < j => f[i] < f[j]
      /\ \A i, j \in 1 .. len + 1 : g[i] = g[j] => i = j
  BY <1>1 DEF Sorted, Distinct
<1> HIDE DEF len, n2
<1>5. /\ \A j \in 1 .. m : j \in 1 .. len /\ j < m + 1
      /\ \A j \in 1 .. n2 : m + 1 + j \in 1 .. len /\ m + 1 < m + 1 + j
      /\ \A j \in 1 .. m + 1 : j \in 1 .. len + 1
      /\ \A j \in 1 .. Len(g2) : m + 1 + j \in 1 .. len + 1 /\ m + 1 < m + 1 + j
      /\ m + 1 \in 1 .. len /\ 1 \in 1 .. m /\ 1 \in 1 .. len
  BY <1>1
<1>6. Sorted(f1)
  <2>1. SUFFICES ASSUME NEW i \in 1 .. m, NEW j \in 1 .. m, i < j PROVE f1[i] < f1[j]
    BY <1>1 DEF Sorted
  <2> QED BY <2>1, <1>2, <1>4, <1>5
<1>7. Sorted(f2)
  <2>1. SUFFICES ASSUME NEW i \in 1 .. n2, NEW j \in 1 .. n2, i < j PROVE f2[i] < f2[j]
    BY DEF Sorted, n2
  <2>2. m + 1 + i < m + 1 + j
    BY <2>1, <1>1
  <2> QED BY <2>2, <1>2, <1>4, <1>5
<1>8. Distinct(g1)
  <2>1. SUFFICES ASSUME NEW i \in 1 .. m + 1, NEW j \in 1 .. m + 1, g1[i] = g1[j] PROVE i = j
    BY <1>1 DEF Distinct
  <2> QED BY <2>1, <1>2, <1>4, <1>5
<1>9. Distinct(g2)
  <2>1. SUFFICES ASSUME NEW i \in 1 .. Len(g2), NEW j \in 1 .. Len(g2), g2[i] = g2[j] PROVE i = j
    BY DEF Distinct
  <2>2. m + 1 + i = m + 1 + j
    BY <2>1, <1>2, <1>4, <1>5, SMTT(30)
  <2> QED BY <2>2, <1>1
<1>10. f[m + 1] \in Int /\ InSeq(f, f[m + 1]) /\ f[1] \in Int /\ InSeq(f1, f[1])
  BY <1>1, <1>2, <1>3, <1>5 DEF InSeq, len
<1>11. \A x \in Int : InSeq(f1, x) => InSeq(f, x) /\ x < f[m + 1]
  <2>1. SUFFICES ASSUME NEW j \in 1 .. m PROVE InSeq(f, f1[j]) /\ f1[j] < f[m + 1]
    BY <1>1 DEF InSeq
  <2> QED BY <1>2, <1>4, <1>5 DEF InSeq, len
<1>12. \A x \in Int : InSeq(f2, x) => InSeq(f, x) /\ f[m + 1] <= x
  <2>1. SUFFICES ASSUME NEW j \in 1 .. n2 PROVE InSeq(f, f2[j]) /\ f[m + 1] <= f2[j]
    BY DEF InSeq, n2
  <2>2. f[m + 1] < f[m + 1 + j] /\ f[m + 1] \in Int /\ f[m + 1 + j] \in Int
    BY <1>3, <1>4, <1>5
  <2>3. InSeq(f, f[m + 1 + j])
    BY <1>5 DEF InSeq, len
  <2> QED BY <2>2, <2>3, <1>2
<1>13. ASSUME NEW j \in 1 .. m + 1, NEW k \in Int, Slot(f, k, j) PROVE Slot(f1, k, j) /\ k < f[m + 1]
  <2>1. /\ \A i \in 1 .. j - 1 : f[i] <= k
        /\ \A i \in j .. len : k < f[i]
    BY <1>13 DEF Slot, len
  <2>2. /\ \A i \in 1 .. j - 1 : i \in 1 .. m
        /\ \A i \in j .. m : i \in 1 .. m /\ i \in j .. len
        /\ m + 1 \in j .. len
    BY <1>1
  <2>3. /\ \A i \in 1 .. j - 1 : f1[i] <= k
        /\ \A i \in j .. Len(f1) : k < f1[i]
    BY <2>1, <2>2, <1>1, <1>2
  <2> QED BY <2>1, <2>2, <2>3 DEF Slot
<1>14. ASSUME NEW j \in 1 .. Len(g2), NEW k \in Int, Slot(f, k, m + 1 + j)
       PROVE  Slot(f2, k, j) /\ f[m + 1] <= k
  <2>1. /\ \A i \in 1 .. (m + 1 + j) - 1 : f[i] <= k
        /\ \A i \in m + 1 + j .. len : k < f[i]
    BY <1>14 DEF Slot, len
  <2>2. /\ \A i \in 1 .. j - 1 : m + 1 + i \in 1 .. (m + 1 + j) - 1 /\ i \in 1 .. n2
        /\ \A i \in j .. n2 : m + 1 + i \in m + 1 + j .. len /\ i \in 1 .. n2
        /\ m + 1 \in 1 .. (m + 1 + j) - 1
    BY <1>1
  <2>3. /\ \A i \in 1 .. j - 1 : f2[i] <= k
        /\ \A i \in j .. n2 : k < f2[i]
    BY <2>1, <2>2, <1>2
  <2> QED BY <2>1, <2>2, <2>3 DEF Slot, n2
<1>15. ASSUME NEW i \in 1 .. m + 1, NEW j \in 1 .. Len(g2) PROVE g1[i] # g2[j]
  <2>1. i # m + 1 + j
    BY <1>1
  <2>2. g1[i] = g[i] /\ g2[j] = g[m + 1 + j]
    BY ONLY <1>2, <1>15
  <2>3. i \in 1 .. len + 1 /\ m + 1 + j \in 1 .. len + 1
    BY ONLY <1>5, <1>15
  <2>4. g[i] = g[m + 1 + j] => i = m + 1 + j
    BY ONLY <2>3, <1>4
  <2> QED BY ONLY <2>1, <2>2, <2>4
<1>16. \A x : InSeq(g, x) <=> InSeq(g1, x) \/ InSeq(g2, x)
  <2>1. ASSUME NEW x, InSeq(g, x) PROVE InSeq(g1, x) \/ InSeq(g2, x)
    <3>1. PICK j \in 1 .. len + 1 : g[j] = x
      BY <2>1, <1>1 DEF InSeq
    <3>2. CASE j \in 1 .. m + 1
      BY <3>1, <3>2, <1>1, <1>2 DEF InSeq
    <3>3. CASE j \notin 1 .. m + 1
      <4>1. j - (m + 1) \in 1 .. Len(g2) /\ m + 1 + (j - (m + 1)) = j
        BY <3>3, <1>1
      <4>2. g2[j - (m + 1)] = x
        BY <4>1, <3>1, <1>2
      <4> QED BY <4>1, <4>2 DEF InSeq
    <3> QED BY <3>2, <3>3
  <2>2. ASSUME NEW x, InSeq(g1, x) PROVE InSeq(g, x)
    BY <2>2, <1>1, <1>2, <1>5 DEF InSeq
  <2>3. ASSUME NEW x, InSeq(g2, x) PROVE InSeq(g, x)
    BY <2>3, <1>1, <1>2, <1>5, SMTT(30) DEF InSeq
  <2> QED BY <2>1, <2>2, <2>3
<1> QED BY <1>6, <1>7, <1>8, <1>9, <1>10, <1>11, <1>12, <1>13, <1>14, <1>15, <1>16 DEF CutKeeps

\* P keeps f1 and g1, and the new page N gets f2 and g2.
HalveInto(ms, ns, P, f1, g1, f2, g2, N) ==
    /\ N = Len(ns) + 1 /\ Len(ms) = N /\ ms = [p \in 1 .. N |-> ms[p]]
    /\ \A p \in 1 .. Len(ns) : p # P => Keeps(ms, ns, p)
    /\ \A p \in 1 .. Len(ns) : ms[p].parent = IF InSeq(g2, p) THEN N ELSE ns[p].parent
    /\ ms[P] \in NodeSet /\ ~ms[P].leaf /\ ms[P].next = ns[P].next
    /\ ms[P].keys = f1 /\ ms[P].refs = g1
    /\ ms[N] \in NodeSet /\ ~ms[N].leaf /\ ms[N].next = 0 /\ ms[N].parent = 0
    /\ ms[N].keys = f2 /\ ms[N].refs = g2

HalveStep(ms, ns, rt, l, u, r, P, f, g, f1, g1, f2, g2, m, N) ==
    /\ Pend(ns, rt, l, u, r) /\ l # rt /\ ns[l].leaf /\ P = ns[l].parent
    /\ IsFull(f, g, ns, P, u, r) /\ Len(ns[P].keys) = INTERNAL_MAX_KEYS
    /\ IsCut(f1, g1, f2, g2, f, g, m) /\ HalveInto(ms, ns, P, f1, g1, f2, g2, N)

\* The two halves of the keys f lead where f does.
LEMMA CutSlots ==
  ASSUME NEW f \in Seq(Int), NEW g, NEW f1, NEW g1, NEW f2, NEW g2, NEW m,
         IsCut(f1, g1, f2, g2, f, g, m), Sorted(f), NEW k \in Int
  PROVE  /\ \A j \in 1 .. m + 1 : Slot(f1, k, j) /\ k < f[m + 1] => Slot(f, k, j)
         /\ \A j \in 1 .. Len(g2) : Slot(f2, k, j) /\ f[m + 1] <= k => Slot(f, k, m + 1 + j)
<1>1. /\ m \in Nat /\ m >= 1 /\ m + 1 < Len(f) /\ Len(f) \in Nat /\ Len(g) = Len(f) + 1
      /\ Len(f1) = m /\ Len(f2) = Len(f) - (m + 1) /\ Len(g2) = Len(f) + 1 - (m + 1)
  BY DEF IsCut
<1>2. /\ \A j \in 1 .. m : f1[j] = f[j]
      /\ \A j \in 1 .. Len(f2) : f2[j] = f[m + 1 + j]
  BY DEF IsCut
<1>3. \A j \in 1 .. Len(f) : f[j] \in Int
  OBVIOUS
<1>4. \A i, j \in 1 .. Len(f) : i < j => f[i] < f[j]
  BY DEF Sorted
<1>5. m + 1 \in 1 .. Len(f) /\ f[m + 1] \in Int
  BY ONLY <1>1, <1>3
<1>6. ASSUME NEW j \in 1 .. m + 1, Slot(f1, k, j), k < f[m + 1] PROVE Slot(f, k, j)
  <2>1. ASSUME NEW i \in 1 .. j - 1 PROVE f[i] <= k
    <3>1. i \in 1 .. m
      BY ONLY <1>1, <2>1, j \in 1 .. m + 1
    <3> QED BY ONLY <3>1, <2>1, <1>2, <1>6 DEF Slot
  <2>2. ASSUME NEW i \in j .. Len(f) PROVE k < f[i]
    <3>1. CASE i <= m
      <4>1. i \in 1 .. m /\ i \in j .. Len(f1)
        BY ONLY <1>1, <2>2, <3>1, j \in 1 .. m + 1
      <4> QED BY ONLY <4>1, <1>2, <1>6 DEF Slot
    <3>2. CASE ~(i <= m)
      <4>1. i \in 1 .. Len(f) /\ (i = m + 1 \/ m + 1 < i)
        BY ONLY <1>1, <2>2, <3>2, j \in 1 .. m + 1
      <4>2. f[i] \in Int /\ (i = m + 1 \/ f[m + 1] < f[i])
        BY ONLY <4>1, <1>3, <1>4, <1>5
      <4> QED BY ONLY <4>2, <1>5, <1>6, k \in Int
    <3> QED BY ONLY <3>1, <3>2
  <2> QED BY ONLY <2>1, <2>2 DEF Slot
<1>7. ASSUME NEW j \in 1 .. Len(g2), Slot(f2, k, j), f[m + 1] <= k PROVE Slot(f, k, m + 1 + j)
  <2>1. ASSUME NEW i \in 1 .. (m + 1 + j) - 1 PROVE f[i] <= k
    <3>1. CASE i <= m + 1
      <4>1. i \in 1 .. Len(f) /\ (i = m + 1 \/ i < m + 1)
        BY ONLY <1>1, <2>1, <3>1
      <4>2. f[i] \in Int /\ (i = m + 1 \/ f[i] < f[m + 1])
        BY ONLY <4>1, <1>3, <1>4, <1>5
      <4> QED BY ONLY <4>2, <1>5, <1>7, k \in Int
    <3>2. CASE ~(i <= m + 1)
      <4> DEFINE n == i - (m + 1)
      <4>1. n \in 1 .. j - 1 /\ n \in 1 .. Len(f2) /\ m + 1 + n = i
        BY ONLY <1>1, <2>1, <3>2, j \in 1 .. Len(g2)
      <4> HIDE DEF n
      <4>2. f2[n] = f[i]
        BY ONLY <4>1, <1>2
      <4> QED BY ONLY <4>1, <4>2, <1>7 DEF Slot
    <3> QED BY ONLY <3>1, <3>2
  <2>2. ASSUME NEW i \in m + 1 + j .. Len(f) PROVE k < f[i]
    <3> DEFINE n == i - (m + 1)
    <3>1. n \in j .. Len(f2) /\ n \in 1 .. Len(f2) /\ m + 1 + n = i
      BY ONLY <1>1, <2>2, j \in 1 .. Len(g2)
    <3> HIDE DEF n
    <3>2. f2[n] = f[i]
      BY ONLY <3>1, <1>2
    <3> QED BY ONLY <3>1, <3>2, <1>7 DEF Slot
  <2> QED BY ONLY <2>1, <2>2 DEF Slot
<1> QED BY ONLY <1>6, <1>7

\* When the parent of leaves is split, a search would go where it would have gone.
LEMMA HalveRoute ==
  ASSUME NEW ns, NEW rt, NEW l, NEW u, NEW r, NEW P, NEW f, NEW g,
         NEW f1, NEW g1, NEW f2, NEW g2, NEW m, NEW ms, NEW N,
         HalveStep(ms, ns, rt, l, u, r, P, f, g, f1, g1, f2, g2, m, N),
         Shape(ms, rt, N),
         NEW k \in Int, NEW q, Route(ms, rt, P, f[m + 1], N, k, q)
  PROVE  Route(ns, rt, l, u, r, k, q)
<1>0. /\ Pend(ns, rt, l, u, r) /\ l # rt /\ ns[l].leaf /\ P = ns[l].parent
      /\ IsFull(f, g, ns, P, u, r)
      /\ IsCut(f1, g1, f2, g2, f, g, m) /\ HalveInto(ms, ns, P, f1, g1, f2, g2, N)
  BY DEF HalveStep
<1>1. /\ Shape(ns, rt, r) /\ l \in 1 .. Len(ns) /\ r \in 1 .. Len(ns) /\ l # r /\ rt # r
      /\ ns[r].leaf /\ ns[r].parent = P /\ Len(ns) \in Nat
  BY ONLY <1>0 DEF Pend, Shape
<1>2. /\ P \in 1 .. Len(ns) /\ ~ns[P].leaf /\ ~ns[rt].leaf /\ P # r /\ P # l
      /\ P # rt => ns[P].parent = rt
  BY ONLY <1>0, PendParent, RootInner
<1>3. /\ N = Len(ns) + 1 /\ Len(ms) = N
      /\ ~ms[P].leaf /\ ms[P].keys = f1 /\ ms[P].refs = g1
      /\ ~ms[N].leaf /\ ms[N].keys = f2 /\ ms[N].refs = g2
      /\ \A p \in 1 .. Len(ns) : /\ ms[p].parent = IF InSeq(g2, p) THEN N ELSE ns[p].parent
                                 /\ p # P => Keeps(ms, ns, p)
  BY ONLY <1>0 DEF HalveInto
<1>4. \A p \in 1 .. Len(ns) : p # P => /\ ms[p].leaf = ns[p].leaf /\ ms[p].keys = ns[p].keys
                                       /\ ms[p].refs = ns[p].refs
  BY ONLY <1>3 DEF Keeps
<1>5. /\ f \in Seq(Int) /\ Sorted(f) /\ Distinct(g)
      /\ \A x : InSeq(g, x) <=> InSeq(ns[P].refs, x) \/ x = r
  BY ONLY <1>0 DEF IsFull
<1>6. CutKeeps(f1, g1, f2, g2, f, g, m)
  BY ONLY <1>0, <1>5, CutKeepsFacts
<1>7. /\ \A x : InSeq(g, x) <=> InSeq(g1, x) \/ InSeq(g2, x)
      /\ \A i \in 1 .. m + 1 : \A j \in 1 .. Len(g2) : g1[i] # g2[j]
  BY ONLY <1>6 DEF CutKeeps
<1>8. /\ Len(g1) = m + 1
      /\ \A j \in 1 .. m + 1 : g1[j] = g[j] /\ j \in 1 .. Len(g)
      /\ \A j \in 1 .. Len(g2) : g2[j] = g[m + 1 + j] /\ m + 1 + j \in 1 .. Len(g)
  <2>1. /\ m \in Nat /\ m + 1 < Len(f) /\ Len(f) \in Nat /\ Len(g) = Len(f) + 1
        /\ Len(g2) = Len(g) - (m + 1) /\ Len(g1) = m + 1
        /\ \A j \in 1 .. m + 1 : g1[j] = g[j]
        /\ \A j \in 1 .. Len(g2) : g2[j] = g[m + 1 + j]
    BY ONLY <1>0 DEF IsCut
  <2>2. /\ \A j \in 1 .. m + 1 : j \in 1 .. Len(g)
        /\ \A j \in 1 .. Len(g2) : m + 1 + j \in 1 .. Len(g)
    BY ONLY <2>1
  <2> QED BY ONLY <2>1, <2>2
<1>9. \A j \in 1 .. Len(g) : g[j] \in 1 .. Len(ns) /\ ns[g[j]].leaf /\ ns[g[j]].parent = P
  <2>1. \A j \in 1 .. Len(g) : FullChild(ns, rt, l, P, r, g[j])
    BY ONLY <1>0, FullChildren
  <2> QED BY ONLY <2>1, <1>0, <1>1 DEF FullChild
<1>10. \A p \in 1 .. Len(ns) : p # N /\ p # 0
  BY ONLY <1>1, <1>3
<1>11. q \in 1 .. Len(ns) /\ ms[q].leaf /\ ns[q].leaf /\ q # P /\ q # rt /\ q # 0 /\ q # N
  <2>1. q \in 1 .. N /\ ms[q].leaf
    BY ONLY <1>3, Route(ms, rt, P, f[m + 1], N, k, q) DEF Route
  <2>2. q # P /\ q # N
    BY ONLY <2>1, <1>3
  <2>3. q \in 1 .. Len(ns)
    BY ONLY <2>1, <2>2, <1>1, <1>3
  <2>4. ns[q].leaf
    BY ONLY <2>1, <2>2, <2>3, <1>4
  <2> QED BY ONLY <2>1, <2>2, <2>3, <2>4, <1>2, <1>10
<1> DEFINE v == f[m + 1]
           c == ms[q].parent
<1>12. c \in 1 .. N /\ ~ms[c].leaf /\ \E j \in 1 .. Len(ms[c].refs) : ms[c].refs[j] = q
  BY ONLY <1>3, <1>11, Shape(ms, rt, N), ParentFacts
<1>13. Up(ms, q, k) /\ Due(ms, rt, P, v, N, c, k)
  <2>1. c # 0
    BY ONLY <1>1, <1>3, <1>12
  <2> QED BY ONLY <2>1, <1>11, Route(ms, rt, P, f[m + 1], N, k, q) DEF Route, Due
<1>14. PICK j \in 1 .. Len(ms[c].refs) : ms[c].refs[j] = q
  BY ONLY <1>12
<1>15. Slot(ms[c].keys, k, j)
  BY ONLY <1>13, <1>14 DEF Up
<1>16. c = ms[q].parent
  OBVIOUS
<1> HIDE DEF c, v
\* The way to P is as it was.
<1>17. P # rt /\ Up(ms, P, k) => Up(ns, P, k)
  <2>1. SUFFICES ASSUME P # rt, Up(ms, P, k) PROVE Up(ns, P, k)
    OBVIOUS
  <2>2. ~InSeq(g2, P)
    <3>1. \A n \in 1 .. Len(g2) : g2[n] # P
      BY ONLY <1>2, <1>8, <1>9
    <3> QED BY ONLY <3>1 DEF InSeq
  <2>3. ms[P].parent = rt /\ ns[P].parent = rt
    BY ONLY <2>1, <2>2, <1>2, <1>3
  <2>4. rt \in 1 .. Len(ns)
    BY ONLY <1>1 DEF Shape
  <2>5. ms[rt].keys = ns[rt].keys /\ ms[rt].refs = ns[rt].refs
    BY ONLY <2>1, <2>4, <1>4
  <2> QED BY ONLY <2>1, <2>3, <2>5 DEF Up
<1>18. ASSUME NEW n \in 1 .. Len(g), g[n] = q, Slot(f, k, n), P # rt => Up(ms, P, k)
       PROVE  Route(ns, rt, l, u, r, k, q)
  <2>1. Due(ns, rt, l, u, r, g[n], k)
    BY ONLY <1>0, <1>18, k \in Int, FullRoute
  <2>2. ns[q].parent = P
    BY ONLY <1>9, <1>18
  <2>3. Due(ns, rt, l, u, r, P, k)
    BY ONLY <1>2, <1>17, <1>18 DEF Due
  <2> QED BY ONLY <2>1, <2>2, <2>3, <1>11, <1>18 DEF Route
<1>19. CASE c = P
  <2>1. j \in 1 .. m + 1 /\ g1[j] = q /\ Slot(f1, k, j)
    BY ONLY <1>3, <1>8, <1>14, <1>15, <1>19
  <2>2. k < v /\ (P # rt => Up(ms, P, k))
    BY ONLY <1>2, <1>10, <1>13, <1>19 DEF Due
  <2>3. Slot(f, k, j)
    BY ONLY <2>1, <2>2, <1>0, <1>5, k \in Int, CutSlots DEF v
  <2>4. j \in 1 .. Len(g) /\ g[j] = q
    BY ONLY <2>1, <1>8
  <2> QED BY ONLY <2>2, <2>3, <2>4, <1>18
<1>20. CASE c = N
  <2>1. j \in 1 .. Len(g2) /\ g2[j] = q /\ Slot(f2, k, j)
    BY ONLY <1>3, <1>14, <1>15, <1>20
  <2>2. v <= k /\ (P # rt => Up(ms, P, k))
    BY ONLY <1>13, <1>20 DEF Due
  <2>3. Slot(f, k, m + 1 + j)
    BY ONLY <2>1, <2>2, <1>0, <1>5, k \in Int, CutSlots DEF v
  <2>4. m + 1 + j \in 1 .. Len(g) /\ g[m + 1 + j] = q
    BY ONLY <2>1, <1>8
  <2> QED BY ONLY <2>2, <2>3, <2>4, <1>18
<1>21. CASE c # P /\ c # N
  <2>1. c \in 1 .. Len(ns) /\ ~ns[c].leaf /\ ms[c].keys = ns[c].keys /\ ms[c].refs = ns[c].refs
    <3>1. c \in 1 .. Len(ns)
      BY ONLY <1>1, <1>3, <1>12, <1>21
    <3> QED BY ONLY <3>1, <1>4, <1>12, <1>21
  <2>2. ns[q].parent = c
    BY ONLY <1>3, <1>11, <1>16, <1>21
  <2>3. q # l /\ q # r /\ c # l /\ c # r
    BY ONLY <2>1, <2>2, <1>0, <1>1, <1>21
  <2>4. Up(ns, q, k)
    BY ONLY <2>1, <2>2, <1>13, <1>16 DEF Up
  <2>5. Due(ns, rt, l, u, r, q, k)
    BY ONLY <2>3, <2>4 DEF Due
  <2>6. ASSUME c # rt PROVE Up(ns, c, k)
    <3>1. Up(ms, c, k)
      BY ONLY <2>6, <1>13, <1>21 DEF Due
    <3>2. ns[c].parent = rt /\ InSeq(ns[rt].refs, c) /\ ~ns[rt].leaf /\ rt \in 1 .. Len(ns)
      <4>1. c # r
        BY ONLY <2>3
      <4>2. /\ ns[c].parent = rt /\ ns[c].parent \in 1 .. Len(ns)
            /\ \E i \in 1 .. Len(ns[ns[c].parent].refs) : ns[ns[c].parent].refs[i] = c
        BY ONLY <4>1, <2>1, <2>6, <1>1, ParentFacts
      <4> QED BY ONLY <4>2, <1>2 DEF InSeq
    <3>3. ~InSeq(g, c)
      BY ONLY <2>1, <1>9 DEF InSeq
    <3>4. ~InSeq(g2, c) /\ ~InSeq(ns[P].refs, c)
      BY ONLY <3>3, <1>5, <1>7
    <3>5. rt # P
      BY ONLY <3>2, <3>4
    <3>6. ms[c].parent = rt /\ ms[rt].keys = ns[rt].keys /\ ms[rt].refs = ns[rt].refs
      BY ONLY <3>2, <3>4, <3>5, <2>1, <1>3, <1>4
    <3> QED BY ONLY <3>1, <3>2, <3>6 DEF Up
  <2>7. Due(ns, rt, l, u, r, c, k)
    BY ONLY <2>3, <2>6 DEF Due
  <2> QED BY ONLY <2>2, <2>5, <2>7, <1>11 DEF Route
<1> QED BY ONLY <1>19, <1>20, <1>21

LEMMA HalveChain ==
  ASSUME NEW ns, NEW P, NEW f1, NEW g1, NEW f2, NEW g2, NEW N, NEW rt, NEW d, Shape(ns, rt, d),
         P \in 1 .. Len(ns), ~ns[P].leaf, NEW ms, HalveInto(ms, ns, P, f1, g1, f2, g2, N)
  PROVE  SameChain(ms, ns)
<1>1. /\ N = Len(ns) + 1 /\ Len(ms) = N /\ ~ms[N].leaf /\ ms[N].next = 0
      /\ ms[P] \in NodeSet /\ ~ms[P].leaf /\ ms[P].next = ns[P].next
      /\ \A p \in 1 .. Len(ns) : p # P => Keeps(ms, ns, p)
  BY DEF HalveInto
<1>2. ms[P].leaf = ns[P].leaf /\ Len(ns) \in Nat
  <2>1. ns[P].leaf \in BOOLEAN /\ Len(ns) \in Nat
    BY NodeFacts
  <2>2. ms[P].leaf \in BOOLEAN
    BY ONLY <1>1 DEF NodeSet
  <2> QED BY ONLY <2>1, <2>2, <1>1, ~ns[P].leaf
<1>3. \A p \in 1 .. Len(ns) : ms[p].leaf = ns[p].leaf /\ ms[p].next = ns[p].next
  BY ONLY <1>1, <1>2 DEF Keeps
<1>4. Len(ms) \in Nat /\ Len(ns) <= Len(ms) /\ \A p \in 1 .. Len(ms) : p \in 1 .. Len(ns) \/ p = N
  BY ONLY <1>1, <1>2
<1> QED BY ONLY <1>1, <1>2, <1>3, <1>4 DEF SameChain

\* The parent of leaves is split, and the split is to be told to its parent.
LEMMA HalveOK ==
  ASSUME NEW ns, NEW rt, NEW l, NEW u, NEW r, NEW P, NEW f, NEW g,
         NEW f1, NEW g1, NEW f2, NEW g2, NEW m, NEW ms, NEW N,
         HalveStep(ms, ns, rt, l, u, r, P, f, g, f1, g1, f2, g2, m, N)
  PROVE  Pend(ms, rt, P, f[m + 1], N) /\ Stored(ms) = Stored(ns)
<1>40. /\ Pend(ns, rt, l, u, r) /\ l # rt /\ ns[l].leaf /\ P = ns[l].parent
       /\ IsFull(f, g, ns, P, u, r) /\ Len(ns[P].keys) = INTERNAL_MAX_KEYS
       /\ IsCut(f1, g1, f2, g2, f, g, m) /\ HalveInto(ms, ns, P, f1, g1, f2, g2, N)
  BY DEF HalveStep
<1> USE <1>40
<1>0. /\ Shape(ns, rt, r) /\ Order(ns) /\ l \in 1 .. Len(ns) /\ r \in 1 .. Len(ns) /\ l # r
      /\ ns[l].leaf => ns[r].parent = P
  BY DEF Pend
<1>1. /\ P \in 1 .. Len(ns) /\ ~ns[P].leaf /\ P # r /\ rt # r /\ rt \in 1 .. Len(ns)
      /\ P # rt => ns[P].parent = rt
      /\ Len(ns) \in Nat /\ ns[rt].parent = 0
  BY <1>0, PendParent DEF Shape
<1>2. /\ N = Len(ns) + 1 /\ Len(ms) = N
      /\ ms[P] \in NodeSet /\ ~ms[P].leaf /\ ms[P].next = ns[P].next
      /\ ms[P].keys = f1 /\ ms[P].refs = g1
      /\ ms[N] \in NodeSet /\ ~ms[N].leaf /\ ms[N].next = 0 /\ ms[N].parent = 0
      /\ ms[N].keys = f2 /\ ms[N].refs = g2
  BY DEF HalveInto
<1>3. \A p \in 1 .. Len(ns) : /\ ms[p].parent = IF InSeq(g2, p) THEN N ELSE ns[p].parent
                              /\ p # P => Keeps(ms, ns, p)
  BY DEF HalveInto
<1>4. \A p \in 1 .. Len(ns) : p # P => /\ ms[p].leaf = ns[p].leaf /\ ms[p].keys = ns[p].keys
                                       /\ ms[p].refs = ns[p].refs
  BY <1>3 DEF Keeps
<1>5. \A p \in 1 .. Len(ns) : ms[p].leaf = ns[p].leaf
  <2>1. ms[P].leaf = FALSE /\ ns[P].leaf = FALSE
    <3>1. ms[P].leaf \in BOOLEAN /\ ns[P].leaf \in BOOLEAN
      BY <1>0, <1>1, <1>2, NodeFacts DEF NodeSet
    <3> QED BY <3>1, <1>1, <1>2
  <2> QED BY <2>1, <1>4
<1>6. /\ f \in Seq(Int) /\ Len(f) \in Nat /\ Len(f) = Len(ns[P].keys) + 1
      /\ Sorted(f) /\ Distinct(g)
      /\ \A x : InSeq(g, x) <=> InSeq(ns[P].refs, x) \/ x = r
      /\ \A j \in 1 .. Len(g) : \A k \in Int : Below(ns, g[j], k) => Slot(f, k, j)
  BY DEF IsFull
<1>7. /\ m \in Nat /\ m >= 1 /\ m + 1 < Len(f) /\ Len(g) = Len(f) + 1
      /\ f1 \in Seq(Int) /\ f2 \in Seq(Int) /\ g1 \in Seq(Nat) /\ g2 \in Seq(Nat)
      /\ Len(f1) = m /\ Len(g1) = m + 1 /\ Len(f2) = Len(f) - (m + 1) /\ Len(g2) = Len(g) - (m + 1)
  BY DEF IsCut
<1>8. /\ \A j \in 1 .. m + 1 : g1[j] = g[j] /\ j \in 1 .. Len(g)
      /\ \A j \in 1 .. Len(g2) : g2[j] = g[m + 1 + j] /\ m + 1 + j \in 1 .. Len(g)
  <2>1. /\ \A j \in 1 .. m + 1 : j \in 1 .. Len(g)
        /\ \A j \in 1 .. Len(g2) : m + 1 + j \in 1 .. Len(g)
    <3>1. /\ m \in Nat /\ m + 1 < Len(f) /\ Len(f) \in Nat /\ Len(g) = Len(f) + 1
          /\ Len(g2) = Len(g) - (m + 1)
      BY <1>6, <1>7
    <3> QED BY ONLY <3>1
  <2> QED BY <2>1 DEF IsCut
<1>9. CutKeeps(f1, g1, f2, g2, f, g, m)
  BY <1>6, CutKeepsFacts
<1>10. \A j \in 1 .. Len(g) : /\ g[j] \in 1 .. Len(ns) /\ g[j] # rt /\ g[j] # P /\ ns[g[j]].leaf
                              /\ ns[g[j]].parent = P
  <2>1. \A j \in 1 .. Len(g) : FullChild(ns, rt, l, P, r, g[j])
    BY FullChildren
  <2>2. ns[r].parent = P
    BY <1>0
  <2> QED BY <2>1, <2>2 DEF FullChild
\* The children of the two halves.
<1>11. /\ \A j \in 1 .. m + 1 : /\ g1[j] \in 1 .. Len(ns) /\ ms[g1[j]].leaf /\ ms[g1[j]].parent = P
                                /\ ms[g1[j]].keys = ns[g1[j]].keys
       /\ \A j \in 1 .. Len(g2) : /\ g2[j] \in 1 .. Len(ns) /\ ms[g2[j]].leaf /\ ms[g2[j]].parent = N
                                  /\ ms[g2[j]].keys = ns[g2[j]].keys
  <2>1. ASSUME NEW j \in 1 .. m + 1
        PROVE  /\ g1[j] \in 1 .. Len(ns) /\ ms[g1[j]].leaf /\ ms[g1[j]].parent = P
               /\ ms[g1[j]].keys = ns[g1[j]].keys
    <3>1. g1[j] \in 1 .. Len(ns) /\ g1[j] # P /\ ns[g1[j]].leaf /\ ns[g1[j]].parent = P
      BY <1>8, <1>10
    <3>2. ~InSeq(g2, g1[j])
      BY <1>9 DEF CutKeeps, InSeq
    <3> QED BY <3>1, <3>2, <1>3, <1>4
  <2>2. ASSUME NEW j \in 1 .. Len(g2)
        PROVE  /\ g2[j] \in 1 .. Len(ns) /\ ms[g2[j]].leaf /\ ms[g2[j]].parent = N
               /\ ms[g2[j]].keys = ns[g2[j]].keys
    <3>1. g2[j] \in 1 .. Len(ns) /\ g2[j] # P /\ ns[g2[j]].leaf
      BY <1>8, <1>10
    <3>2. InSeq(g2, g2[j])
      BY DEF InSeq
    <3> QED BY <3>1, <3>2, <1>3, <1>4
  <2> QED BY <2>1, <2>2
<1>12. /\ \A p \in 1 .. N : p \in 1 .. Len(ns) \/ p = N
       /\ \A p \in 1 .. Len(ns) : p \in 1 .. N /\ p # N /\ p # 0
       /\ N \in 1 .. N /\ N \in Nat /\ N # 0 /\ Len(ns) <= N
  BY <1>1, <1>2
<1>13. Len(f1) \in 1 .. INTERNAL_MAX_KEYS /\ Len(f2) \in 1 .. INTERNAL_MAX_KEYS
  <2>1. INTERNAL_MAX_KEYS \in Nat /\ Len(f) = INTERNAL_MAX_KEYS + 1
    BY <1>6, Capacities
  <2>2. /\ m \in Nat /\ m >= 1 /\ m + 1 < Len(f) /\ Len(f1) = m /\ Len(f2) = Len(f) - (m + 1)
    BY <1>7
  <2> QED BY ONLY <2>1, <2>2
<1>14. Len(g1) = Len(f1) + 1 /\ Len(g2) = Len(f2) + 1
  <2>1. m \in Nat /\ Len(f) \in Nat /\ Len(g) = Len(f) + 1
    BY <1>6, <1>7
  <2> QED BY <2>1, <1>7
<1>15. ASSUME NEW p \in 1 .. N PROVE NodeOK(ms[p], N)
  <2>1. p \in 1 .. Len(ns) => ms[p].parent \in 0 .. N
    <3>1. SUFFICES ASSUME p \in 1 .. Len(ns) PROVE ms[p].parent \in 0 .. N
      OBVIOUS
    <3>2. ns[p].parent \in 0 .. Len(ns)
      BY <3>1, <1>0, NodeFacts
    <3>3. ms[p].parent = N \/ ms[p].parent = ns[p].parent
      BY <3>1, <1>3
    <3> QED BY <3>2, <3>3, <1>1, <1>12
  <2>2. CASE p \in 1 .. Len(ns) /\ p # P
    BY <2>1, <2>2, <1>0, <1>3, <1>12, KeepsOK
  <2>3. CASE p = P
    <3>1. ms[P].next \in 0 .. N
      BY <1>0, <1>1, <1>2, <1>12, NodeFacts
    <3>2. Sorted(ms[P].keys) /\ InnerOK(ms[P])
      BY <1>2, <1>9, <1>13, <1>14 DEF InnerOK, CutKeeps
    <3> QED BY <3>1, <3>2, <2>1, <2>3, <1>1, <1>2 DEF NodeOK
  <2>4. CASE p = N
    <3>1. ms[N].next \in 0 .. N /\ ms[N].parent \in 0 .. N
      BY <1>2, <1>12
    <3>2. Sorted(ms[N].keys) /\ InnerOK(ms[N])
      BY <1>2, <1>9, <1>13, <1>14 DEF InnerOK, CutKeeps
    <3> QED BY <3>1, <3>2, <2>4, <1>2 DEF NodeOK
  <2> QED BY <2>2, <2>3, <2>4, <1>12
<1>16. ASSUME NEW p \in 1 .. N, ~ms[p].leaf, NEW i \in 1 .. Len(ms[p].refs)
       PROVE  ChildOK(ms, rt, N, p, i)
  <2>1. CASE p = P
    <3>1. i \in 1 .. m + 1 /\ 1 \in 1 .. m + 1
      BY <2>1, <1>2, <1>7, <1>16
    <3> DEFINE c == g1[i]
               o == g1[1]
    <3>2. c \in 1 .. Len(ns) /\ ms[c].leaf /\ ms[c].parent = P /\ o \in 1 .. Len(ns) /\ ms[o].leaf
      BY <3>1, <1>11
    <3>3. ms[p].refs[i] = c /\ ms[p].refs[1] = o
      BY <2>1, <1>2
    <3> HIDE DEF c, o
    <3>4. ms[c].leaf = ms[o].leaf
      BY <3>2, <1>0, <1>5, NodeFacts
    <3>5. c \in 1 .. Len(ms) /\ c # N
      BY <3>2, <1>2, <1>12
    <3> QED BY <3>2, <3>3, <3>4, <3>5, <2>1 DEF ChildOK
  <2>2. CASE p = N
    <3>1. i \in 1 .. Len(g2) /\ 1 \in 1 .. Len(g2)
      BY <2>2, <1>2, <1>13, <1>14, <1>16
    <3> DEFINE c == g2[i]
               o == g2[1]
    <3>2. c \in 1 .. Len(ns) /\ ms[c].leaf /\ ms[c].parent = N /\ o \in 1 .. Len(ns) /\ ms[o].leaf
      BY <3>1, <1>11
    <3>3. ms[p].refs[i] = c /\ ms[p].refs[1] = o
      BY <2>2, <1>2
    <3> HIDE DEF c, o
    <3>4. ms[c].leaf = ms[o].leaf
      BY <3>2, <1>0, <1>5, NodeFacts
    <3>5. c \in 1 .. Len(ms) /\ c # N
      BY <3>2, <1>2, <1>12
    <3> QED BY <3>2, <3>3, <3>4, <3>5, <2>2 DEF ChildOK
  <2>3. CASE p \in 1 .. Len(ns) /\ p # P
    <3>1. ms[p].refs = ns[p].refs /\ ~ns[p].leaf /\ i \in 1 .. Len(ns[p].refs)
      BY <2>3, <1>4, <1>16
    <3> DEFINE c == ns[p].refs[i]
               o == ns[p].refs[1]
    <3>2. 1 \in 1 .. Len(ns[p].refs)
      BY <3>1, <2>3, <1>0, NodeFacts
    <3>3. /\ c \in 1 .. Len(ns) /\ ns[c].parent = p
          /\ p # rt => ns[c].leaf
          /\ ns[c].leaf = ns[o].leaf
      BY <3>1, <2>3, <1>0, ChildFacts
    <3>4. o \in 1 .. Len(ns)
      BY <3>1, <3>2, <2>3, <1>0, ChildFacts
    <3>6. ms[p].refs[i] = c /\ ms[p].refs[1] = o
      BY <3>1
    <3> HIDE DEF c, o
    <3>7. ~InSeq(g2, c)
      BY <3>3, <2>3, <1>8, <1>10, SMTT(30) DEF InSeq
    <3>8. ms[c].leaf = ns[c].leaf /\ ms[o].leaf = ns[o].leaf /\ ms[c].parent = p
      BY <3>3, <3>4, <3>7, <1>3, <1>5
    <3>9. c \in 1 .. Len(ms) /\ c # N
      BY <3>3, <1>2, <1>12
    <3> QED BY <3>3, <3>6, <3>8, <3>9 DEF ChildOK
  <2> QED BY <2>1, <2>2, <2>3, <1>12
<1>17. ASSUME NEW p \in 1 .. N, p # rt, p # N PROVE ParentOK(ms, p)
  <2>0. p \in 1 .. Len(ns)
    BY <1>12, <1>17
  <2>1. CASE InSeq(g1, p)
    <3>1. PICK j \in 1 .. m + 1 : g1[j] = p
      BY <2>1, <1>7 DEF InSeq
    <3>2. ms[p].parent = P /\ P # 0
      BY <3>1, <1>1, <1>11
    <3> QED BY <3>2, <2>1, <1>2 DEF ParentOK
  <2>2. CASE InSeq(g2, p)
    <3>1. ms[p].parent = N
      BY <2>0, <2>2, <1>3
    <3> QED BY <3>1, <2>2, <1>2, <1>12 DEF ParentOK
  <2>3. CASE ~InSeq(g1, p) /\ ~InSeq(g2, p)
    <3> DEFINE v == ns[p].parent
    <3>1. ~InSeq(g, p)
      BY <2>3, <1>9 DEF CutKeeps
    <3>2. p # r /\ ~InSeq(ns[P].refs, p)
      BY <3>1, <1>6
    <3>3. v \in 1 .. Len(ns) /\ ~ns[v].leaf /\ \E i \in 1 .. Len(ns[v].refs) : ns[v].refs[i] = p
      BY <3>2, <2>0, <1>0, <1>17, ParentFacts, SMTT(30)
    <3>4. ms[p].parent = v
      BY <2>0, <2>3, <1>3
    <3> HIDE DEF v
    <3>5. InSeq(ns[v].refs, p) /\ v # 0 /\ ~ms[v].leaf /\ v # P
      BY <3>2, <3>3, <1>1, <1>5 DEF InSeq
    <3>6. InSeq(ms[v].refs, p)
      BY <3>3, <3>5, <1>4
    <3> QED BY <3>4, <3>5, <3>6 DEF ParentOK
  <2> QED BY <2>1, <2>2, <2>3
<1>18. ms[P].parent = ns[P].parent /\ ms[rt].parent = 0
  <2>1. ~InSeq(g2, P) /\ ~InSeq(g2, rt)
    BY <1>8, <1>10 DEF InSeq
  <2> QED BY <2>1, <1>1, <1>3
<1>19. Shape(ms, rt, N)
  <2>1. ms = [p \in 1 .. Len(ms) |-> ms[p]]
    BY DEF HalveInto
  <2>2. rt # N /\ rt \in 1 .. Len(ms)
    BY <1>1, <1>2, <1>12
  <2> QED BY <2>1, <2>2, <1>2, <1>12, <1>15, <1>16, <1>17, <1>18 DEF Shape
\* What is below the halves is in their place.
<1>20. ASSUME NEW k \in Int, Below(ms, P, k)
       PROVE  k < f[m + 1] /\ (InSeq(f, k) \/ \E j \in 1 .. Len(g) : InSeq(ns[g[j]].keys, k))
  <2>1. InSeq(f1, k) \/ \E j \in 1 .. m + 1 : InSeq(ms[g1[j]].keys, k)
    BY <1>2, <1>7, <1>20 DEF Below
  <2>2. CASE InSeq(f1, k)
    BY <2>2, <1>9 DEF CutKeeps
  <2>3. ASSUME NEW j \in 1 .. m + 1, InSeq(ms[g1[j]].keys, k)
        PROVE  k < f[m + 1] /\ \E i \in 1 .. Len(g) : InSeq(ns[g[i]].keys, k)
    <3>1. InSeq(ns[g[j]].keys, k) /\ j \in 1 .. Len(g)
      BY <2>3, <1>8, <1>11
    <3>2. Slot(f, k, j)
      BY <3>1, <1>6 DEF Below
    <3> QED BY <3>1, <3>2, <1>9 DEF CutKeeps
  <2> QED BY <2>1, <2>2, <2>3
<1>21. ASSUME NEW k \in Int, Below(ms, N, k)
       PROVE  f[m + 1] <= k /\ (InSeq(f, k) \/ \E j \in 1 .. Len(g) : InSeq(ns[g[j]].keys, k))
  <2>1. InSeq(f2, k) \/ \E j \in 1 .. Len(g2) : InSeq(ms[g2[j]].keys, k)
    BY <1>2, <1>21 DEF Below
  <2>2. CASE InSeq(f2, k)
    BY <2>2, <1>9 DEF CutKeeps
  <2>3. ASSUME NEW j \in 1 .. Len(g2), InSeq(ms[g2[j]].keys, k)
        PROVE  f[m + 1] <= k /\ \E i \in 1 .. Len(g) : InSeq(ns[g[i]].keys, k)
    <3>1. InSeq(ns[g[m + 1 + j]].keys, k) /\ m + 1 + j \in 1 .. Len(g)
      BY <2>3, <1>8, <1>11
    <3>2. Slot(f, k, m + 1 + j)
      BY <3>1, <1>6 DEF Below
    <3> QED BY <3>1, <3>2, <1>9 DEF CutKeeps
  <2> QED BY <2>1, <2>2, <2>3
<1>22. ASSUME P # rt, NEW k \in Int, InSeq(f, k) \/ \E j \in 1 .. Len(g) : InSeq(ns[g[j]].keys, k)
       PROVE  Up(ns, P, k)
  <2>1. Beneath(ns, f, g, k)
    BY ONLY <1>22 DEF Beneath
  <2> QED BY ONLY <2>1, <1>22, <1>40, FullUp
<1>23. ASSUME NEW p \in 1 .. Len(ns), p # P, ~ns[p].leaf, NEW i \in 1 .. Len(ns[p].refs), NEW k \in Int,
              Below(ms, ns[p].refs[i], k)
       PROVE  Slot(ns[p].keys, k, i)
  <2> DEFINE c == ns[p].refs[i]
  <2>1. c \in 1 .. Len(ns) /\ c # rt /\ ns[c].parent = p /\ (p # rt => ns[c].leaf) /\ c = ns[p].refs[i]
    BY <1>0, <1>23, ChildFacts
  <2> HIDE DEF c
  <2>2. CASE c # P
    <3>1. ~ns[c].leaf => \A x \in 1 .. Len(ns[c].refs) :
              ns[ns[c].refs[x]].leaf /\ ns[c].refs[x] \in 1 .. Len(ns)
      <4>1. ASSUME ~ns[c].leaf, NEW x \in 1 .. Len(ns[c].refs)
            PROVE  ns[ns[c].refs[x]].leaf /\ ns[c].refs[x] \in 1 .. Len(ns)
        <5>1. Shape(ns, rt, r) /\ c \in 1 .. Len(ns) /\ c # rt
          BY ONLY <2>1, <1>0
        <5> QED BY ONLY <5>1, <4>1, ChildFacts, SMTT(30)
      <4> QED BY ONLY <4>1
    <3>2. ~ns[c].leaf => \A x \in 1 .. Len(ns[c].refs) : ms[ns[c].refs[x]].keys = ns[ns[c].refs[x]].keys
      BY <3>1, <1>1, <1>4
    <3>3. ms[c].leaf = ns[c].leaf /\ ms[c].keys = ns[c].keys /\ ms[c].refs = ns[c].refs
      BY <2>1, <2>2, <1>4
    <3>4. \A x : Below(ms, c, x) => Below(ns, c, x)
      BY ONLY <3>2, <3>3, BelowSame
    <3> QED BY <3>4, <2>1, <1>0, <1>23 DEF Order, OrderAt
  <2>3. CASE c = P
    <3>1. Up(ns, P, k)
      BY <2>1, <2>3, <1>20, <1>22, <1>23
    <3> QED BY <3>1, <2>1, <2>3, <1>23 DEF Up
  <2> QED BY <2>2, <2>3
<1>24. Order(ms)
  <2>1. SUFFICES ASSUME NEW p \in 1 .. N, ~ms[p].leaf, NEW i \in 1 .. Len(ms[p].refs), NEW k \in Int,
                        Below(ms, ms[p].refs[i], k)
                 PROVE  Slot(ms[p].keys, k, i)
    BY <1>2 DEF Order, OrderAt
  <2>2. CASE p = P
    <3>1. i \in 1 .. m + 1 /\ Below(ms, g1[i], k)
      BY <2>1, <2>2, <1>2, <1>7
    <3>2. Below(ns, g[i], k)
      BY <3>1, <1>8, <1>11 DEF Below
    <3>3. Slot(f, k, i)
      BY <3>1, <3>2, <1>6, <1>8
    <3> QED BY <3>1, <3>3, <2>2, <1>2, <1>9 DEF CutKeeps
  <2>3. CASE p = N
    <3>1. i \in 1 .. Len(g2) /\ Below(ms, g2[i], k)
      BY <2>1, <2>3, <1>2
    <3>2. Below(ns, g[m + 1 + i], k)
      BY <3>1, <1>8, <1>11 DEF Below
    <3>3. Slot(f, k, m + 1 + i)
      BY <3>1, <3>2, <1>6, <1>8
    <3> QED BY <3>1, <3>3, <2>3, <1>2, <1>9 DEF CutKeeps
  <2>4. CASE p \in 1 .. Len(ns) /\ p # P
    <3>1. ~ns[p].leaf /\ ms[p].keys = ns[p].keys /\ ms[p].refs = ns[p].refs
      BY <2>1, <2>4, <1>4
    <3>2. i \in 1 .. Len(ns[p].refs) /\ Below(ms, ns[p].refs[i], k)
      BY <3>1, <2>1
    <3> QED BY <3>1, <3>2, <2>4, <1>23
  <2> QED BY <2>1, <2>2, <2>3, <2>4, <1>12
<1>25. ASSUME P # rt, NEW k \in Int, k = f[m + 1] \/ Below(ms, N, k) PROVE Up(ms, P, k)
  <2>1. InSeq(f, k) \/ \E j \in 1 .. Len(g) : InSeq(ns[g[j]].keys, k)
    <3>1. InSeq(f, f[m + 1])
      BY <1>9 DEF CutKeeps
    <3> QED BY <3>1, <1>21, <1>25
  <2>2. Up(ns, P, k)
    BY <2>1, <1>22, <1>25
  <2>3. ms[P].parent = rt /\ ns[P].parent = rt /\ ms[rt].refs = ns[rt].refs /\ ms[rt].keys = ns[rt].keys
    BY <1>1, <1>4, <1>18, <1>25
  <2> QED BY <2>2, <2>3 DEF Up
<1>26. Stored(ms) = Stored(ns)
  <2>1. \A p \in 1 .. Len(ns) : ns[p].leaf => ms[p].keys = ns[p].keys
    BY <1>1, <1>4
  <2>2. \A p \in 1 .. Len(ms) : p \in 1 .. Len(ns) \/ ~ms[p].leaf
    BY <1>2, <1>12
  <2> QED BY <2>1, <2>2, <1>1, <1>2, <1>5, <1>12, SameLeaves
<1>27. Pend(ms, rt, P, f[m + 1], N)
  <2>1. /\ P \in 1 .. Len(ms) /\ N \in 1 .. Len(ms) /\ P # N
        /\ f[m + 1] \in Int
    BY <1>1, <1>2, <1>9, <1>12 DEF CutKeeps
  <2>2. ms[P].leaf = ms[N].leaf /\ ~ms[P].leaf
    <3>1. ms[P].leaf \in BOOLEAN /\ ms[N].leaf \in BOOLEAN
      BY <1>2 DEF NodeSet
    <3> QED BY <3>1, <1>2
  <2>3. \A i \in 1 .. Len(ms[P].refs) : ms[ms[P].refs[i]].leaf
    BY <1>2, <1>7, <1>11
  <2>4. \E k \in Int : Below(ms, P, k)
    BY <1>2, <1>9 DEF CutKeeps, Below
  <2>5. P # rt => ms[P].parent = rt
    BY <1>1, <1>18
  <2>6. Woven(ms, rt, P, f[m + 1], N)
    <3>1. Woven(ns, rt, l, u, r)
      BY ONLY <1>40 DEF Pend
    <3>2. SameChain(ms, ns)
      BY ONLY <1>0, <1>1, <1>40, HalveChain
    <3>3. \A k \in Int : \A q : Route(ms, rt, P, f[m + 1], N, k, q) => Route(ns, rt, l, u, r, k, q)
      BY ONLY <1>19, HalveStep(ms, ns, rt, l, u, r, P, f, g, f1, g1, f2, g2, m, N), HalveRoute
    <3> QED BY ONLY <3>1, <3>2, <3>3, WovenOn
  <2> QED BY <2>1, <2>2, <2>3, <2>4, <2>5, <2>6, <1>19, <1>20, <1>21, <1>24, <1>25 DEF Pend
<1> QED BY <1>26, <1>27

-----------------------------------------------------------------------------
(* What insert_into_parent does.                                           *)

\* The pages pids get the parent x.
Reparent(os, pids, x) ==
    [p \in DOMAIN os |-> IF p \in pids THEN SetParentId(os[p], x) ELSE os[p]]

LEMMA SetParentIs ==
  ASSUME NEW os, NEW rt, NEW pids, NEW x
  PROVE  SetParent([nodes |-> os, root |-> rt], pids, x) = [nodes |-> Reparent(os, pids, x), root |-> rt]
BY DEF SetParent, Reparent, SetParentId

IsReparent(ms, os, n, pids, x) ==
    /\ Len(ms) = n /\ ms = [p \in 1 .. n |-> ms[p]]
    /\ \A p \in 1 .. n : Keeps(ms, os, p)
    /\ \A p \in 1 .. n : ms[p].parent = IF p \in pids THEN x ELSE os[p].parent

LEMMA ReparentFacts ==
  ASSUME NEW n \in Nat, NEW os, DOMAIN os = 1 .. n, \A p \in 1 .. n : os[p] \in NodeSet,
         NEW pids, NEW x \in Nat, NEW ms, ms = Reparent(os, pids, x)
  PROVE  IsReparent(ms, os, n, pids, x)
<1>1. ms = [p \in 1 .. n |-> IF p \in pids THEN SetParentId(os[p], x) ELSE os[p]]
  BY DEF Reparent
<1>2. \A p \in 1 .. n : ms[p] = IF p \in pids THEN SetParentId(os[p], x) ELSE os[p]
  BY <1>1
<1>3. ms = [p \in 1 .. n |-> ms[p]]
  BY <1>1
<1>4. Len(ms) = n
  BY ONLY <1>3, n \in Nat, FunctionIsSeq
<1>5. ASSUME NEW p \in 1 .. n
      PROVE  Keeps(ms, os, p) /\ ms[p].parent = IF p \in pids THEN x ELSE os[p].parent
  <2> DEFINE b == os[p]
             a == ms[p]
  <2>1. b \in NodeSet
    OBVIOUS
  <2>2. CASE p \in pids
    <3>1. a = SetParentId(b, x)
      BY <2>2, <1>2
    <3> HIDE DEF a, b
    <3>2. a = [leaf |-> b.leaf, keys |-> b.keys, refs |-> b.refs, parent |-> x, next |-> b.next]
      BY ONLY <2>1, <3>1, NodeExcept
    <3>3. b.leaf \in BOOLEAN /\ b.keys \in Seq(Int) /\ b.refs \in Seq(Nat) /\ b.next \in Nat
      BY <2>1 DEF NodeSet
    <3>4. /\ a \in NodeSet /\ a.leaf = b.leaf /\ a.next = b.next /\ a.keys = b.keys /\ a.refs = b.refs
          /\ a.parent = x
      BY ONLY <3>2, <3>3, x \in Nat DEF NodeSet
    <3> QED BY <3>4, <2>2 DEF Keeps, a, b
  <2>3. CASE p \notin pids
    BY <2>1, <2>3, <1>2 DEF Keeps
  <2> QED BY <2>2, <2>3
<1> QED BY <1>3, <1>4, <1>5 DEF IsReparent

LEMMA AppendOne ==
  ASSUME NEW ns, Len(ns) \in Nat, ns = [p \in 1 .. Len(ns) |-> ns[p]], NEW b, NEW os, os = Append(ns, b)
  PROVE  /\ DOMAIN os = 1 .. Len(ns) + 1 /\ os[Len(ns) + 1] = b
         /\ \A p \in 1 .. Len(ns) : os[p] = ns[p]
<1> DEFINE T == {ns[p] : p \in 1 .. Len(ns)} \cup {b}
           n == Len(ns)
<1>1. ns \in [1 .. n -> T]
  OBVIOUS
<1>2. ns \in Seq(T) /\ b \in T
  BY <1>1, SeqDef
<1> HIDE DEF T
<1>3. os \in Seq(T) /\ Len(os) = n + 1 /\ (\A j \in 1 .. n : os[j] = ns[j]) /\ os[n + 1] = b
  BY <1>2, AppendProperties
<1> QED BY <1>3, LenProperties

\* The record that SetKeys makes.
LEMMA SetKeysFacts ==
  ASSUME NEW n \in NodeSet, NEW f \in Seq(Int), NEW g \in Seq(Nat), NEW a, a = SetKeys(n, f, g)
  PROVE  /\ a \in NodeSet /\ a.leaf = n.leaf /\ a.keys = f /\ a.refs = g
         /\ a.parent = n.parent /\ a.next = n.next
<1>1. a = [leaf |-> n.leaf, keys |-> f, refs |-> g, parent |-> n.parent, next |-> n.next]
  BY ONLY n \in NodeSet, a = SetKeys(n, f, g), NodeExcept
<1>2. n.leaf \in BOOLEAN /\ n.parent \in Nat /\ n.next \in Nat
  BY DEF NodeSet
<1> QED BY ONLY <1>1, <1>2, f \in Seq(Int), g \in Seq(Nat) DEF NodeSet

\* Nodes, whatever tree they make.
Pages(ns, l, u, r) ==
    /\ Len(ns) \in Nat /\ ns = [p \in 1 .. Len(ns) |-> ns[p]]
    /\ \A p \in 1 .. Len(ns) : ns[p] \in NodeSet
    /\ u \in Int /\ l \in 1 .. Len(ns) /\ r \in 1 .. Len(ns)

LEMMA PendPages ==
  ASSUME NEW ns, NEW rt, NEW l, NEW u, NEW r, Pend(ns, rt, l, u, r)
  PROVE  Pages(ns, l, u, r)
<1>1. Shape(ns, rt, r) /\ u \in Int /\ l \in 1 .. Len(ns) /\ r \in 1 .. Len(ns)
  BY DEF Pend
<1>2. Len(ns) \in Nat /\ ns = [p \in 1 .. Len(ns) |-> ns[p]]
  BY <1>1 DEF Shape
<1>3. \A p \in 1 .. Len(ns) : ns[p] \in NodeSet
  BY <1>1, NodeFacts
<1> QED BY ONLY <1>1, <1>2, <1>3 DEF Pages

LEMMA GrowRootIs ==
  ASSUME NEW ns, NEW l, NEW u, NEW r, Pages(ns, l, u, r),
         NEW s, s = Pending([nodes |-> ns, root |-> l], l, u, r), NEW N, N = Len(ns) + 1
  PROVE  \E ms : /\ GrowRoot(s) = Pending([nodes |-> ms, root |-> N], l, u, 0)
                 /\ GrowInto(ms, ns, l, u, r, N)
<1> DEFINE top == [EmptyInternal EXCEPT !.keys = <<u>>, !.refs = <<l, r>>]
           os == Append(ns, top)
           ids == {l, r}
           ms == Reparent(os, ids, N)
<1>0. u \in Int /\ l \in 1 .. Len(ns) /\ r \in 1 .. Len(ns)
  BY DEF Pages
<1>1. /\ Len(ns) \in Nat /\ ns = [p \in 1 .. Len(ns) |-> ns[p]] /\ N \in Nat /\ l \in Nat /\ r \in Nat
      /\ l # N /\ r # N
  BY <1>0 DEF Pages
<1>2. \A p \in 1 .. Len(ns) : ns[p] \in NodeSet
  BY DEF Pages
<1>4. /\ top \in NodeSet /\ ~top.leaf /\ top.parent = 0 /\ top.next = 0
      /\ Len(top.keys) = 1 /\ top.keys[1] = u
      /\ Len(top.refs) = 2 /\ top.refs[1] = l /\ top.refs[2] = r
  <2>1. <<u>> \in Seq(Int) /\ <<l, r>> \in Seq(Nat)
    BY <1>0, <1>1
  <2>2. EmptyInternal \in NodeSet /\ ~EmptyInternal.leaf /\ EmptyInternal.parent = 0 /\ EmptyInternal.next = 0
    BY DEF EmptyInternal, NodeSet, INVALID_PAGE_ID
  <2> DEFINE one == <<u>>
             two == <<l, r>>
  <2>3. top = SetKeys(EmptyInternal, one, two) /\ one \in Seq(Int) /\ two \in Seq(Nat)
    BY <2>1 DEF SetKeys
  <2>5. Len(one) = 1 /\ one[1] = u /\ Len(two) = 2 /\ two[1] = l /\ two[2] = r
    OBVIOUS
  <2> HIDE DEF top, one, two
  <2>4. /\ top \in NodeSet /\ top.leaf = EmptyInternal.leaf /\ top.keys = one /\ top.refs = two
        /\ top.parent = EmptyInternal.parent /\ top.next = EmptyInternal.next
    BY ONLY <2>2, <2>3, SetKeysFacts
  <2> QED BY ONLY <2>2, <2>4, <2>5
<1>5. GrowRoot(s) = Pending(SetParent([nodes |-> os, root |-> N], {l, r}, N), l, u, 0)
  BY DEF GrowRoot, Pending, NewPageId, INVALID_PAGE_ID
<1> HIDE DEF top
<1>6. DOMAIN os = 1 .. N /\ os[N] = top /\ \A p \in 1 .. Len(ns) : os[p] = ns[p]
  BY <1>1, AppendOne
<1> HIDE DEF os
<1>7. \A p \in 1 .. N : os[p] \in NodeSet
  <2>1. \A p \in 1 .. N : p \in 1 .. Len(ns) \/ p = N
    BY <1>1
  <2> QED BY <2>1, <1>2, <1>4, <1>6
<1>9. SetParent([nodes |-> os, root |-> N], ids, N) = [nodes |-> ms, root |-> N]
  <2> HIDE DEF ids
  <2> QED BY SetParentIs
<1>13. IsReparent(ms, os, N, ids, N)
  <2> HIDE DEF ids
  <2> QED BY <1>1, <1>6, <1>7, ReparentFacts
<1> HIDE DEF ms
<1>8. /\ Len(ms) = N /\ ms = [p \in 1 .. N |-> ms[p]]
      /\ \A p \in 1 .. N : Keeps(ms, os, p)
      /\ \A p \in 1 .. N : ms[p].parent = IF p = l \/ p = r THEN N ELSE os[p].parent
  BY <1>13 DEF IsReparent
<1>10. ASSUME NEW p \in 1 .. Len(ns)
       PROVE  Keeps(ms, ns, p) /\ ms[p].parent = IF p = l \/ p = r THEN N ELSE ns[p].parent
  <2>1. p \in 1 .. N /\ os[p] = ns[p]
    BY <1>1, <1>6
  <2> QED BY <2>1, <1>8 DEF Keeps
<1>11. /\ ms[N] \in NodeSet /\ ~ms[N].leaf /\ ms[N].parent = 0 /\ ms[N].next = 0
       /\ Len(ms[N].keys) = 1 /\ ms[N].keys[1] = u
       /\ Len(ms[N].refs) = 2 /\ ms[N].refs[1] = l /\ ms[N].refs[2] = r
  <2>1. N \in 1 .. N
    BY <1>1
  <2>2. Keeps(ms, os, N) /\ ms[N].parent = os[N].parent
    BY <2>1, <1>1, <1>8
  <2> QED BY <2>2, <1>4, <1>6 DEF Keeps
<1>12. GrowInto(ms, ns, l, u, r, N)
  BY <1>8, <1>10, <1>11 DEF GrowInto
<1> QED BY <1>5, <1>9, <1>12

PutAfter(n, i, u, r) == SetKeys(n, InsertAt(n.keys, i, u), InsertAt(n.refs, i + 1, r))

\* A page after InsertAfter, which finds l among the children.
LEMMA InsertAfterIs ==
  ASSUME NEW n \in NodeSet, Distinct(n.refs), NEW i \in 1 .. Len(n.refs), NEW l, n.refs[i] = l, NEW u, NEW r
  PROVE  InsertAfter(n, l, u, r) = PutAfter(n, i, u, r)
<1>1. DOMAIN n.refs = 1 .. Len(n.refs)
  BY DEF NodeSet
<1>2. \A j \in DOMAIN n.refs : n.refs[j] = l => j = i
  BY <1>1 DEF Distinct
<1>3. (CHOOSE j \in DOMAIN n.refs : n.refs[j] = l) = i
  BY <1>1, <1>2
<1> QED BY <1>3 DEF InsertAfter, SetKeys, PutAfter

LEMMA FillParentIs ==
  ASSUME NEW ns, NEW rt, NEW l, NEW u, NEW r, Pend(ns, rt, l, u, r), l # rt, NEW P, P = ns[l].parent,
         NEW s, s = Pending([nodes |-> ns, root |-> rt], l, u, r)
  PROVE  \E ms, f, g : /\ FillParent(s) = Pending([nodes |-> ms, root |-> rt], l, u, 0)
                       /\ IsFull(f, g, ns, P, u, r) /\ FillInto(ms, ns, P, f, g, r)
<1>0. Shape(ns, rt, r) /\ u \in Int /\ l \in 1 .. Len(ns) /\ r \in 1 .. Len(ns)
  BY DEF Pend
<1>1. /\ Len(ns) \in Nat /\ ns = [p \in 1 .. Len(ns) |-> ns[p]] /\ DOMAIN ns = 1 .. Len(ns)
  BY <1>0 DEF Shape
<1>2. P \in 1 .. Len(ns) /\ ~ns[P].leaf /\ P # r /\ P \in Nat
  BY <1>1, PendParent
<1>3. \A p \in 1 .. Len(ns) : ns[p] \in NodeSet
  BY <1>0, NodeFacts
<1>4. PICK i \in 1 .. Len(ns[P].refs) : ns[P].refs[i] = l
  BY PendParent
<1> DEFINE f == InsertAt(ns[P].keys, i, u)
           g == InsertAt(ns[P].refs, i + 1, r)
           full == SetKeys(ns[P], f, g)
           os == [ns EXCEPT ![P] = full]
           ids == {r}
           ms == Reparent(os, ids, P)
<1>5. IsFull(f, g, ns, P, u, r)
  BY <1>4, FullFacts
<1>6. InsertAfter(ns[P], l, u, r) = full
  <2>1. ns[P] \in NodeSet /\ Distinct(ns[P].refs)
    BY <1>0, <1>2, NodeFacts
  <2> DEFINE n == ns[P]
  <2>2. n \in NodeSet /\ Distinct(n.refs) /\ i \in 1 .. Len(n.refs) /\ n.refs[i] = l
    BY <2>1, <1>4
  <2>3. full = PutAfter(n, i, u, r)
    BY DEF PutAfter
  <2> HIDE DEF n, full
  <2>4. InsertAfter(n, l, u, r) = PutAfter(n, i, u, r)
    BY ONLY <2>2, InsertAfterIs
  <2> QED BY ONLY <2>3, <2>4 DEF n
<1>7. /\ full \in NodeSet /\ full.leaf = ns[P].leaf /\ full.keys = f /\ full.refs = g
      /\ full.parent = ns[P].parent /\ full.next = ns[P].next
  <2>1. f \in Seq(Int) /\ g \in Seq(Nat) /\ ns[P] \in NodeSet
    BY <1>2, <1>3, <1>5 DEF IsFull
  <2> HIDE DEF f, g
  <2> QED BY <2>1, SetKeysFacts
<1> HIDE DEF f, g, full
<1>8. FillParent(s) = Pending(SetParent([nodes |-> os, root |-> rt], ids, P), l, u, 0)
  <2>1. /\ s.t = [nodes |-> ns, root |-> rt] /\ s.left = l /\ s.key = u /\ s.right = r
        /\ s.t.nodes = ns
    BY DEF Pending
  <2>2. [s.t EXCEPT !.nodes[P] = InsertAfter(@, l, u, r)] = [nodes |-> os, root |-> rt]
    BY <2>1, <1>6
  <2> HIDE DEF os
  <2> QED BY <2>1, <2>2 DEF FillParent, INVALID_PAGE_ID
<1>9. SetParent([nodes |-> os, root |-> rt], ids, P) = [nodes |-> ms, root |-> rt]
  <2> HIDE DEF ids, os
  <2> QED BY SetParentIs
<1>10. DOMAIN os = 1 .. Len(ns) /\ \A p \in 1 .. Len(ns) : os[p] = IF p = P THEN full ELSE ns[p]
  BY <1>1, <1>2
<1> HIDE DEF os
<1>11. \A p \in 1 .. Len(ns) : os[p] \in NodeSet
  BY <1>3, <1>7, <1>10
<1>12. IsReparent(ms, os, Len(ns), ids, P)
  <2> HIDE DEF ids
  <2> QED BY <1>1, <1>2, <1>10, <1>11, ReparentFacts
<1> HIDE DEF ms
<1>13. /\ Len(ms) = Len(ns) /\ ms = [p \in 1 .. Len(ns) |-> ms[p]]
       /\ \A p \in 1 .. Len(ns) : Keeps(ms, os, p)
       /\ \A p \in 1 .. Len(ns) : ms[p].parent = IF p = r THEN P ELSE os[p].parent
  BY <1>12 DEF IsReparent
<1>14. ASSUME NEW p \in 1 .. Len(ns), p # P PROVE Keeps(ms, ns, p)
  BY <1>10, <1>13, <1>14 DEF Keeps
<1>15. \A p \in 1 .. Len(ns) : os[p].parent = ns[p].parent
  BY <1>7, <1>10
<1>16. /\ ms[P] \in NodeSet /\ ~ms[P].leaf /\ ms[P].next = ns[P].next /\ ms[P].keys = f /\ ms[P].refs = g
  <2>1. Keeps(ms, os, P) /\ os[P] = full
    BY <1>2, <1>10, <1>13
  <2> QED BY <2>1, <1>2, <1>7 DEF Keeps
<1>17. FillInto(ms, ns, P, f, g, r)
  <2>1. \A p \in 1 .. Len(ns) : ms[p].parent = IF p = r THEN P ELSE ns[p].parent
    BY <1>13, <1>15
  <2>2. Len(ms) = Len(ns) /\ ms = [p \in 1 .. Len(ms) |-> ms[p]]
    BY <1>13
  <2> QED BY <2>1, <2>2, <1>14, <1>16 DEF FillInto
<1>18. FillParent(s) = Pending([nodes |-> ms, root |-> rt], l, u, 0)
  BY <1>8, <1>9
<1> QED BY ONLY <1>5, <1>17, <1>18

\* SplitParent with its local definitions as parameters.
SplitBy(s, P, full, m, N, left, right, t) ==
    /\ P = s.t.nodes[s.left].parent
    /\ InsertAfter(s.t.nodes[P], s.left, s.key, s.right) = full
    /\ Len(full.keys) \div 2 = m
    /\ NewPageId(s.t) = N
    /\ left = [full EXCEPT !.keys = SubSeq(@, 1, m), !.refs = SubSeq(@, 1, m + 1)]
    /\ right = [EmptyInternal EXCEPT !.keys = SubSeq(full.keys, m + 2, Len(full.keys)),
                                     !.refs = SubSeq(full.refs, m + 2, Len(full.keys) + 1)]
    /\ [s.t EXCEPT !.nodes = Append([s.t.nodes EXCEPT ![P] = left], right)] = t

LEMMA SplitParentBy ==
  ASSUME NEW s, NEW P, NEW full, NEW m, NEW N, NEW left, NEW right, NEW t,
         SplitBy(s, P, full, m, N, left, right, t)
  PROVE  SplitParent(s) = Pending(SetParent(t, ToSet(right.refs), N), P, full.keys[m + 1], N)
BY Zenon DEF SplitParent, SplitBy

LEMMA SplitParentIs ==
  ASSUME NEW ns, NEW rt, NEW l, NEW u, NEW r, Pend(ns, rt, l, u, r), l # rt, NEW P, P = ns[l].parent,
         Len(ns[P].keys) = INTERNAL_MAX_KEYS,
         NEW s, s = Pending([nodes |-> ns, root |-> rt], l, u, r), NEW N, N = Len(ns) + 1
  PROVE  \E ms, f, g, f1, g1, f2, g2, m :
             /\ SplitParent(s) = Pending([nodes |-> ms, root |-> rt], P, f[m + 1], N)
             /\ IsFull(f, g, ns, P, u, r) /\ IsCut(f1, g1, f2, g2, f, g, m)
             /\ HalveInto(ms, ns, P, f1, g1, f2, g2, N)
<1>0. Shape(ns, rt, r) /\ u \in Int /\ l \in 1 .. Len(ns) /\ r \in 1 .. Len(ns)
  BY DEF Pend
<1>1. /\ Len(ns) \in Nat /\ ns = [p \in 1 .. Len(ns) |-> ns[p]] /\ N \in Nat
  BY <1>0 DEF Shape
<1>2. P \in 1 .. Len(ns) /\ ~ns[P].leaf /\ P # r /\ P # N
  BY <1>1, PendParent
<1>3. \A p \in 1 .. Len(ns) : ns[p] \in NodeSet
  BY <1>0, NodeFacts
<1>4. PICK i \in 1 .. Len(ns[P].refs) : ns[P].refs[i] = l
  BY PendParent
<1> DEFINE f == InsertAt(ns[P].keys, i, u)
           g == InsertAt(ns[P].refs, i + 1, r)
           full == SetKeys(ns[P], f, g)
           m == Len(f) \div 2
           f1 == SubSeq(f, 1, m)
           g1 == SubSeq(g, 1, m + 1)
           f2 == SubSeq(f, m + 2, Len(f))
           g2 == SubSeq(g, m + 2, Len(f) + 1)
           left == SetKeys(full, f1, g1)
           right == SetKeys(EmptyInternal, f2, g2)
           os == Append([ns EXCEPT ![P] = left], right)
           ids == ToSet(g2)
           ms == Reparent(os, ids, N)
<1>5. IsFull(f, g, ns, P, u, r)
  BY <1>4, FullFacts
<1>6. InsertAfter(ns[P], l, u, r) = full
  <2>1. ns[P] \in NodeSet /\ Distinct(ns[P].refs)
    BY <1>0, <1>2, NodeFacts
  <2> DEFINE n == ns[P]
  <2>2. n \in NodeSet /\ Distinct(n.refs) /\ i \in 1 .. Len(n.refs) /\ n.refs[i] = l
    BY <2>1, <1>4
  <2>3. full = PutAfter(n, i, u, r)
    BY DEF PutAfter
  <2> HIDE DEF n, full
  <2>4. InsertAfter(n, l, u, r) = PutAfter(n, i, u, r)
    BY ONLY <2>2, InsertAfterIs
  <2> QED BY ONLY <2>3, <2>4 DEF n
<1> HIDE DEF f, g
<1>7. f \in Seq(Int) /\ g \in Seq(Nat) /\ Len(g) = Len(f) + 1 /\ Len(f) >= 3
  <2>1. /\ f \in Seq(Int) /\ g \in Seq(Nat) /\ Len(g) = Len(f) + 1 /\ Len(f) = Len(ns[P].keys) + 1
    BY <1>5 DEF IsFull
  <2>2. INTERNAL_MAX_KEYS \in Nat /\ INTERNAL_MAX_KEYS >= 2
    BY Capacities
  <2>3. Len(f) >= 3
    BY ONLY <2>1, <2>2, Len(ns[P].keys) = INTERNAL_MAX_KEYS
  <2> QED BY <2>1, <2>3
<1>8. /\ full \in NodeSet /\ full.leaf = ns[P].leaf /\ full.keys = f /\ full.refs = g
      /\ full.parent = ns[P].parent /\ full.next = ns[P].next
  <2>1. ns[P] \in NodeSet
    BY <1>2, <1>3
  <2> QED BY <2>1, <1>7, SetKeysFacts
<1> HIDE DEF full
<1>9. IsCut(f1, g1, f2, g2, f, g, m)
  BY <1>7, CutFacts
<1>10. SplitParent(s) = Pending(SetParent([nodes |-> os, root |-> rt], ids, N), P, f[m + 1], N)
  <2>1. /\ s.t = [nodes |-> ns, root |-> rt] /\ s.left = l /\ s.key = u /\ s.right = r
        /\ s.t.nodes = ns /\ s.t.nodes[l].parent = P
    BY DEF Pending
  <2>2. right = [EmptyInternal EXCEPT !.keys = SubSeq(f, m + 2, Len(f)), !.refs = SubSeq(g, m + 2, Len(f) + 1)]
    BY DEF SetKeys
  <2>3. left = [full EXCEPT !.keys = SubSeq(@, 1, m), !.refs = SubSeq(@, 1, m + 1)]
    BY <1>8 DEF SetKeys
  <2>4. right.refs = g2
    <3>1. EmptyInternal \in NodeSet
      BY DEF EmptyInternal, NodeSet, INVALID_PAGE_ID
    <3>2. f2 \in Seq(Int) /\ g2 \in Seq(Nat)
      BY <1>9 DEF IsCut
    <3> HIDE DEF f2, g2
    <3> QED BY <3>1, <3>2, SetKeysFacts
  <2>5. [s.t EXCEPT !.nodes = Append([s.t.nodes EXCEPT ![P] = left], right)] = [nodes |-> os, root |-> rt]
    <3>1. \A x : [s.t EXCEPT !.nodes = x] = [nodes |-> x, root |-> rt]
      BY <2>1
    <3>2. os = Append([s.t.nodes EXCEPT ![P] = left], right)
      BY <2>1
    <3> HIDE DEF os
    <3> QED BY ONLY <3>1, <3>2
  <2>6. Len(full.keys) \div 2 = m /\ NewPageId(s.t) = N
    BY <2>1, <1>8 DEF NewPageId
  <2>7. right = [EmptyInternal EXCEPT !.keys = SubSeq(full.keys, m + 2, Len(full.keys)),
                                     !.refs = SubSeq(full.refs, m + 2, Len(full.keys) + 1)]
    BY <2>2, <1>8
  <2>8. InsertAfter(s.t.nodes[P], s.left, s.key, s.right) = full
    BY <2>1, <1>6
  <2> HIDE DEF left, right, os, m
  <2>9. SplitParent(s) = Pending(SetParent([nodes |-> os, root |-> rt], ToSet(right.refs), N), P, full.keys[m + 1], N)
    <3> DEFINE t == [nodes |-> os, root |-> rt]
    <3>1. [s.t EXCEPT !.nodes = Append([s.t.nodes EXCEPT ![P] = left], right)] = t
      BY <2>5
    <3> HIDE DEF t
    <3>2. P = s.t.nodes[s.left].parent
      BY <2>1
    <3>3. SplitBy(s, P, full, m, N, left, right, t)
      BY ONLY <3>1, <3>2, <2>3, <2>6, <2>7, <2>8, Zenon DEF SplitBy
    <3>4. SplitParent(s) = Pending(SetParent(t, ToSet(right.refs), N), P, full.keys[m + 1], N)
      BY ONLY <3>3, SplitParentBy
    <3> QED BY ONLY <3>4 DEF t
  <2> QED BY <2>9, <2>4, <1>8
<1>11. /\ f1 \in Seq(Int) /\ f2 \in Seq(Int) /\ g1 \in Seq(Nat) /\ g2 \in Seq(Nat)
  BY <1>9 DEF IsCut
<1> HIDE DEF f1, g1, f2, g2, m
<1>12. /\ left \in NodeSet /\ left.leaf = ns[P].leaf /\ left.keys = f1 /\ left.refs = g1
       /\ left.parent = ns[P].parent /\ left.next = ns[P].next
  <2>1. /\ left \in NodeSet /\ left.leaf = full.leaf /\ left.keys = f1 /\ left.refs = g1
        /\ left.parent = full.parent /\ left.next = full.next
    BY <1>8, <1>11, SetKeysFacts
  <2> HIDE DEF left
  <2> QED BY <2>1, <1>8
<1>13. /\ right \in NodeSet /\ ~right.leaf /\ right.keys = f2 /\ right.refs = g2
       /\ right.parent = 0 /\ right.next = 0
  <2>1. EmptyInternal \in NodeSet /\ ~EmptyInternal.leaf /\ EmptyInternal.parent = 0 /\ EmptyInternal.next = 0
    BY DEF EmptyInternal, NodeSet, INVALID_PAGE_ID
  <2>2. /\ right \in NodeSet /\ right.leaf = EmptyInternal.leaf /\ right.keys = f2 /\ right.refs = g2
        /\ right.parent = EmptyInternal.parent /\ right.next = EmptyInternal.next
    BY <2>1, <1>11, SetKeysFacts
  <2> HIDE DEF right
  <2> QED BY <2>1, <2>2
<1> HIDE DEF left, right
<1>14. SetParent([nodes |-> os, root |-> rt], ids, N) = [nodes |-> ms, root |-> rt]
  <2> HIDE DEF ids, os
  <2> QED BY SetParentIs
<1>15. SplitInto(os, ns, P, left, right)
  BY <1>1, <1>2, AppendNode
<1> HIDE DEF os
<1>16. /\ DOMAIN os = 1 .. N
       /\ \A p \in 1 .. N : os[p] = IF p = P THEN left ELSE IF p = N THEN right ELSE ns[p]
  BY <1>15 DEF SplitInto
<1>17. \A p \in 1 .. N : os[p] \in NodeSet
  <2>1. \A p \in 1 .. N : p \in 1 .. Len(ns) \/ p = N
    BY <1>1
  <2> QED BY <2>1, <1>3, <1>12, <1>13, <1>16
<1>18. IsReparent(ms, os, N, ids, N)
  <2> HIDE DEF ids
  <2> QED BY <1>1, <1>16, <1>17, ReparentFacts
<1>19. \A p : p \in ids <=> InSeq(g2, p)
  <2>1. DOMAIN g2 = 1 .. Len(g2)
    BY <1>11
  <2> QED BY ONLY <2>1, Zenon DEF ToSet, InSeq
<1> HIDE DEF ms, ids
<1>20. /\ Len(ms) = N /\ ms = [p \in 1 .. N |-> ms[p]]
       /\ \A p \in 1 .. N : Keeps(ms, os, p)
       /\ \A p \in 1 .. N : ms[p].parent = IF InSeq(g2, p) THEN N ELSE os[p].parent
  BY <1>18, <1>19 DEF IsReparent
<1>21. \A p \in 1 .. Len(ns) : p \in 1 .. N /\ p # N
  BY <1>1
<1>22. ASSUME NEW p \in 1 .. Len(ns), p # P PROVE Keeps(ms, ns, p)
  BY <1>16, <1>20, <1>21, <1>22 DEF Keeps
<1>23. \A p \in 1 .. Len(ns) : os[p].parent = ns[p].parent
  BY <1>12, <1>16, <1>21
<1>24. /\ ms[P] \in NodeSet /\ ~ms[P].leaf /\ ms[P].next = ns[P].next /\ ms[P].keys = f1 /\ ms[P].refs = g1
  <2>1. Keeps(ms, os, P) /\ os[P] = left
    BY <1>2, <1>16, <1>20, <1>21
  <2> QED BY <2>1, <1>2, <1>12 DEF Keeps
<1>25. /\ ms[N] \in NodeSet /\ ~ms[N].leaf /\ ms[N].next = 0 /\ ms[N].keys = f2 /\ ms[N].refs = g2
       /\ ms[N].parent = 0
  <2>1. N \in 1 .. N
    BY <1>1
  <2>2. Keeps(ms, os, N) /\ os[N] = right
    BY <2>1, <1>2, <1>16, <1>20
  <2>3. ~InSeq(g2, N)
    <3>1. ASSUME NEW j \in 1 .. Len(g2) PROVE g2[j] # N
      <4>1. g2[j] = g[m + 1 + j] /\ m + 1 + j \in 1 .. Len(g)
        <5>1. m \in Nat /\ Len(f) \in Nat /\ Len(g) = Len(f) + 1 /\ Len(g2) = Len(g) - (m + 1)
          BY <1>9 DEF IsCut
        <5>2. m + 1 + j \in 1 .. Len(g)
          BY <5>1
        <5> QED BY <5>2, <1>9 DEF IsCut
      <4>2. g[m + 1 + j] \in 1 .. Len(ns)
        <5>1. FullChild(ns, rt, l, P, r, g[m + 1 + j])
          BY <4>1, <1>5, FullChildren
        <5> QED BY <5>1 DEF FullChild
      <4> QED BY <4>1, <4>2, <1>1
    <3> QED BY <3>1 DEF InSeq
  <2> QED BY <2>1, <2>2, <2>3, <1>13, <1>20 DEF Keeps
<1>26. HalveInto(ms, ns, P, f1, g1, f2, g2, N)
  <2>1. \A p \in 1 .. Len(ns) : ms[p].parent = IF InSeq(g2, p) THEN N ELSE ns[p].parent
    BY <1>20, <1>21, <1>23
  <2>2. N = Len(ns) + 1 /\ Len(ms) = N /\ ms = [p \in 1 .. N |-> ms[p]]
    BY <1>20
  <2> QED BY ONLY <2>1, <2>2, <1>22, <1>24, <1>25 DEF HalveInto
<1>27. SplitParent(s) = Pending([nodes |-> ms, root |-> rt], P, f[m + 1], N)
  BY <1>10, <1>14
<1> QED BY ONLY <1>5, <1>9, <1>26, <1>27

\* The calls of insert_into_parent, one per level.
IsClimb(f, s, L) == f = [level \in 0 .. L |-> IF level = 0 THEN s ELSE InsertIntoParent(f[level - 1])]

LEMMA ClimbChoose ==
  ASSUME NEW s
  PROVE  Climb(s) = (CHOOSE f : IsClimb(f, s, Len(s.t.nodes)))[Len(s.t.nodes)].t
BY Zenon DEF Climb, IsClimb

LEMMA ClimbUnique ==
  ASSUME NEW s, NEW L \in Nat, NEW f, NEW h, IsClimb(f, s, L), IsClimb(h, s, L)
  PROVE  f[L] = h[L]
<1> DEFINE T == {i \in 0 .. L : f[i] # h[i]}
<1>1. \A i \in 0 .. L : /\ f[i] = IF i = 0 THEN s ELSE InsertIntoParent(f[i - 1])
                        /\ h[i] = IF i = 0 THEN s ELSE InsertIntoParent(h[i - 1])
  <2>1. \A i \in 0 .. L : f[i] = IF i = 0 THEN s ELSE InsertIntoParent(f[i - 1])
    BY ONLY IsClimb(f, s, L), Zenon DEF IsClimb
  <2>2. \A i \in 0 .. L : h[i] = IF i = 0 THEN s ELSE InsertIntoParent(h[i - 1])
    BY ONLY IsClimb(h, s, L), Zenon DEF IsClimb
  <2> QED BY ONLY <2>1, <2>2
<1>2. ASSUME T # {} PROVE FALSE
  <2>1. T \in SUBSET Nat
    OBVIOUS
  <2>2. PICK x \in T : \A y \in T : x <= y
    BY <1>2, <2>1, LeastNat
  <2>3. x \in 0 .. L /\ f[x] # h[x]
    OBVIOUS
  <2>4. x # 0
    BY <2>3, <1>1
  <2>5. x - 1 \in 0 .. L /\ ~(x <= x - 1)
    BY <2>3, <2>4
  <2>6. f[x - 1] = h[x - 1]
    BY <2>2, <2>5
  <2> QED BY <2>3, <2>4, <2>6, <1>1
<1>3. L \in 0 .. L
  OBVIOUS
<1> QED BY <1>2, <1>3

\* The climb is over after three calls, or after one.
LEMMA ClimbIs ==
  ASSUME NEW s, Len(s.t.nodes) \in Nat, NEW a, a = InsertIntoParent(s), NEW b, b = InsertIntoParent(a),
         NEW c, c = InsertIntoParent(b), c.right = 0,
         \/ a.right = 0 /\ Len(s.t.nodes) >= 1
         \/ b.right = 0 /\ Len(s.t.nodes) >= 2
         \/ Len(s.t.nodes) >= 3
  PROVE  Climb(s) = c.t
<1> DEFINE L == Len(s.t.nodes)
           w == [level \in 0 .. L |-> IF level = 0 THEN s ELSE IF level = 1 THEN a ELSE IF level = 2 THEN b ELSE c]
<1>1. InsertIntoParent(c) = c /\ (a.right = 0 => b = a) /\ (b.right = 0 => c = b)
  BY DEF InsertIntoParent, INVALID_PAGE_ID
<1>2. w = [level \in 0 .. L |-> w[level]]
  OBVIOUS
<1>3. \A level \in 0 .. L : w[level] = IF level = 0 THEN s ELSE IF level = 1 THEN a ELSE IF level = 2 THEN b ELSE c
  OBVIOUS
<1>4. L \in Nat /\ ((a.right = 0 /\ L >= 1) \/ (b.right = 0 /\ L >= 2) \/ L >= 3)
  OBVIOUS
<1> HIDE DEF w, L
<1>5. ASSUME NEW level \in 0 .. L PROVE w[level] = IF level = 0 THEN s ELSE InsertIntoParent(w[level - 1])
  <2>1. CASE level = 0
    BY <2>1, <1>3
  <2>2. CASE level # 0
    <3>1. level - 1 \in 0 .. L
      BY <2>2, <1>4
    <3>2. /\ level - 1 = 0 <=> level = 1
          /\ level - 1 = 1 <=> level = 2
          /\ level - 1 = 2 <=> level = 3
      BY <2>2, <1>4
    <3>3. w[level - 1] = IF level = 1 THEN s ELSE IF level = 2 THEN a ELSE IF level = 3 THEN b ELSE c
      BY ONLY <3>1, <3>2, <1>3
    <3>4. w[level] = IF level = 1 THEN a ELSE IF level = 2 THEN b ELSE c
      BY ONLY <2>2, <1>3, level \in 0 .. L
    <3>5. w[level] = InsertIntoParent(w[level - 1])
      BY ONLY <3>3, <3>4, <1>1, a = InsertIntoParent(s), b = InsertIntoParent(a), c = InsertIntoParent(b)
    <3> QED BY ONLY <3>5, <2>2
  <2> QED BY ONLY <2>1, <2>2
<1>6. IsClimb(w, s, L)
  <2>1. w = [level \in 0 .. L |-> IF level = 0 THEN s ELSE InsertIntoParent(w[level - 1])]
    BY ONLY <1>2, <1>5
  <2> QED BY ONLY <2>1 DEF IsClimb
<1> DEFINE f == CHOOSE h : IsClimb(h, s, L)
<1>7. IsClimb(f, s, L)
  BY ONLY <1>6, Zenon
<1>8. Climb(s) = f[L].t
  BY ONLY ClimbChoose DEF L
<1> HIDE DEF f
<1>9. f[L] = w[L]
  BY ONLY <1>4, <1>6, <1>7, ClimbUnique
<1>10. w[L] = c
  <2>1. L \in 0 .. L
    BY <1>4
  <2>2. w[L] = IF L = 0 THEN s ELSE IF L = 1 THEN a ELSE IF L = 2 THEN b ELSE c
    BY ONLY <2>1, <1>3
  <2> QED BY ONLY <2>2, <1>1, <1>4
<1> QED BY ONLY <1>8, <1>9, <1>10

LEMMA Calls ==
  ASSUME NEW ns, NEW rt, NEW l, NEW u, NEW r, NEW s, s = Pending([nodes |-> ns, root |-> rt], l, u, r)
  PROVE  /\ s.right = r /\ s.t.nodes = ns /\ s.t.root = rt
         /\ r = 0 => InsertIntoParent(s) = s
         /\ r # 0 /\ l = rt => InsertIntoParent(s) = GrowRoot(s)
         /\ r # 0 /\ l # rt /\ Len(ns[ns[l].parent].keys) < INTERNAL_MAX_KEYS => InsertIntoParent(s) = FillParent(s)
         /\ r # 0 /\ l # rt /\ ~(Len(ns[ns[l].parent].keys) < INTERNAL_MAX_KEYS) => InsertIntoParent(s) = SplitParent(s)
<1>1. s.right = r /\ s.left = l /\ s.t.nodes = ns /\ s.t.root = rt
  BY DEF Pending
<1>2. InsertIntoParent(s) = IF r = 0 THEN s ELSE IF l = rt THEN GrowRoot(s)
                            ELSE IF Len(ns[ns[l].parent].keys) < INTERNAL_MAX_KEYS THEN FillParent(s) ELSE SplitParent(s)
  BY ONLY <1>1, Zenon DEF InsertIntoParent, INVALID_PAGE_ID
<1> QED BY ONLY <1>1, <1>2

\* What the climb makes of the nodes ns.
Climbed(t, ns) ==
    Flat(t.nodes, t.root) =>
        Stands(t.nodes, t.root) /\ Stored(t.nodes) = Stored(ns)

LEMMA ClimbedIs ==
  ASSUME NEW ns, NEW ms, NEW rt, NEW s, NEW l, NEW u, s = Pending([nodes |-> ms, root |-> rt], l, u, 0),
         Stands(ms, rt) /\ Stored(ms) = Stored(ns)
  PROVE  Climbed(s.t, ns) /\ s.right = 0
<1>1. s.t.nodes = ms /\ s.t.root = rt /\ s.right = 0
  BY Calls
<1> QED BY ONLY <1>1, Stands(ms, rt) /\ Stored(ms) = Stored(ns) DEF Climbed

\* The root was split.
LEMMA RootCall ==
  ASSUME NEW ns, NEW l, NEW u, NEW r, Pend(ns, l, l, u, r),
         NEW s, s = Pending([nodes |-> ns, root |-> l], l, u, r), NEW a, a = InsertIntoParent(s)
  PROVE  Climbed(a.t, ns) /\ a.right = 0
<1>0. r # 0 /\ Pages(ns, l, u, r)
  BY PendPages DEF Pages
<1>1. a = GrowRoot(s)
  BY ONLY <1>0, a = InsertIntoParent(s), s = Pending([nodes |-> ns, root |-> l], l, u, r), Calls
<1> DEFINE N == Len(ns) + 1
<1>2. PICK ms : /\ GrowRoot(s) = Pending([nodes |-> ms, root |-> N], l, u, 0)
                /\ GrowInto(ms, ns, l, u, r, N)
  BY <1>0, GrowRootIs
<1> HIDE DEF N
<1>3. Stands(ms, N) /\ Stored(ms) = Stored(ns)
  BY ONLY <1>2, Pend(ns, l, l, u, r), GrowOK, GrowThreaded DEF Stands
<1> QED BY ONLY <1>1, <1>2, <1>3, ClimbedIs

\* The parent has room.
LEMMA RoomCall ==
  ASSUME NEW ns, NEW rt, NEW l, NEW u, NEW r, Pend(ns, rt, l, u, r), l # rt,
         Len(ns[ns[l].parent].keys) < INTERNAL_MAX_KEYS,
         NEW s, s = Pending([nodes |-> ns, root |-> rt], l, u, r), NEW a, a = InsertIntoParent(s)
  PROVE  Climbed(a.t, ns) /\ a.right = 0
<1>0. r # 0
  BY PendPages DEF Pages
<1>1. a = FillParent(s)
  BY ONLY <1>0, l # rt, Len(ns[ns[l].parent].keys) < INTERNAL_MAX_KEYS, a = InsertIntoParent(s),
          s = Pending([nodes |-> ns, root |-> rt], l, u, r), Calls
<1> DEFINE P == ns[l].parent
<1>2. HasRoom(ns, P) /\ P = ns[l].parent
  BY DEF HasRoom
<1> HIDE DEF P
<1>3. PICK ms, f, g : /\ FillParent(s) = Pending([nodes |-> ms, root |-> rt], l, u, 0)
                      /\ IsFull(f, g, ns, P, u, r) /\ FillInto(ms, ns, P, f, g, r)
  BY ONLY <1>2, Pend(ns, rt, l, u, r), l # rt, s = Pending([nodes |-> ns, root |-> rt], l, u, r), FillParentIs
<1>4. Stands(ms, rt) /\ Stored(ms) = Stored(ns)
  <2>1. IsFull(f, g, ns, P, u, r) /\ FillInto(ms, ns, P, f, g, r)
    BY ONLY <1>3
  <2>2. FillStep(ms, ns, rt, l, u, r, P, f, g)
    BY ONLY <2>1, <1>2, Pend(ns, rt, l, u, r), l # rt DEF FillStep
  <2>3. Shape(ms, rt, 0) /\ Order(ms) /\ Stored(ms) = Stored(ns)
    BY ONLY <2>2, FillOK
  <2>4. Threaded(ms, rt)
    BY ONLY <2>2, <2>3, FillThreaded
  <2> QED BY ONLY <2>3, <2>4 DEF Stands
<1> QED BY ONLY <1>1, <1>3, <1>4, ClimbedIs

LEMMA FullParent ==
  ASSUME NEW ns, NEW rt, NEW l, NEW u, NEW r, Pend(ns, rt, l, u, r), l # rt,
         ~(Len(ns[ns[l].parent].keys) < INTERNAL_MAX_KEYS)
  PROVE  Len(ns[ns[l].parent].keys) = INTERNAL_MAX_KEYS
<1> DEFINE P == ns[l].parent
<1>0. Shape(ns, rt, r)
  BY DEF Pend
<1>1. P \in 1 .. Len(ns) /\ ~ns[P].leaf
  BY PendParent
<1>2. Len(ns[P].keys) \in 1 .. INTERNAL_MAX_KEYS
  BY <1>0, <1>1 DEF Shape, NodeOK, InnerOK
<1> HIDE DEF P
<1>3. ~(Len(ns[P].keys) < INTERNAL_MAX_KEYS)
  BY DEF P
<1>4. Len(ns[P].keys) = INTERNAL_MAX_KEYS
  BY ONLY <1>2, <1>3, Capacities
<1> QED BY ONLY <1>4 DEF P

FullHere(ns, rt, l, u, r, P) ==
    Pend(ns, rt, l, u, r) /\ l # rt /\ P = ns[l].parent /\ ~(Len(ns[P].keys) < INTERNAL_MAX_KEYS)

Cut(ms, ns, P, u, r, f, g, f1, g1, f2, g2, m, N) ==
    /\ IsFull(f, g, ns, P, u, r) /\ IsCut(f1, g1, f2, g2, f, g, m)
    /\ HalveInto(ms, ns, P, f1, g1, f2, g2, N)

\* a is what the split of P makes of ns.
Halved(a, ns, rt, u, r, P, N) ==
    \E ms, f, g, f1, g1, f2, g2, m :
        /\ a = Pending([nodes |-> ms, root |-> rt], P, f[m + 1], N)
        /\ Cut(ms, ns, P, u, r, f, g, f1, g1, f2, g2, m, N)

\* The parent is full: what its split is.
LEMMA FullCall ==
  ASSUME NEW ns, NEW rt, NEW l, NEW u, NEW r, NEW P, FullHere(ns, rt, l, u, r, P),
         NEW s, s = Pending([nodes |-> ns, root |-> rt], l, u, r), NEW a, a = InsertIntoParent(s)
  PROVE  Halved(a, ns, rt, u, r, P, Len(ns) + 1)
<1>9. Pend(ns, rt, l, u, r) /\ l # rt /\ P = ns[l].parent /\ ~(Len(ns[P].keys) < INTERNAL_MAX_KEYS)
  BY DEF FullHere
<1> USE <1>9
<1> DEFINE N == Len(ns) + 1
<1>8. N = Len(ns) + 1
  OBVIOUS
<1> HIDE DEF N
<1>0. r # 0
  BY PendPages DEF Pages
<1>1. a = SplitParent(s)
  BY ONLY <1>0, l # rt, P = ns[l].parent, ~(Len(ns[P].keys) < INTERNAL_MAX_KEYS), a = InsertIntoParent(s),
          s = Pending([nodes |-> ns, root |-> rt], l, u, r), Calls
<1>2. Len(ns[P].keys) = INTERNAL_MAX_KEYS
  BY ONLY Pend(ns, rt, l, u, r), l # rt, P = ns[l].parent, ~(Len(ns[P].keys) < INTERNAL_MAX_KEYS), FullParent
<1>3. \E ms, f, g, f1, g1, f2, g2, m :
             /\ a = Pending([nodes |-> ms, root |-> rt], P, f[m + 1], N)
             /\ IsFull(f, g, ns, P, u, r) /\ IsCut(f1, g1, f2, g2, f, g, m)
             /\ HalveInto(ms, ns, P, f1, g1, f2, g2, N)
  BY ONLY <1>1, <1>2, Pend(ns, rt, l, u, r), l # rt, P = ns[l].parent,
                s = Pending([nodes |-> ns, root |-> rt], l, u, r), <1>8, SplitParentIs
<1>4. Halved(a, ns, rt, u, r, P, N)
  BY ONLY <1>3 DEF Halved, Cut
<1> QED BY ONLY <1>4 DEF N

\* The split of P is done and P's parent has to be told.
AfterHalving(a, ns, rt, P) ==
    \E ms, v, N : /\ a = Pending([nodes |-> ms, root |-> rt], P, v, N)
                  /\ Pend(ms, rt, P, v, N) /\ Stored(ms) = Stored(ns) /\ ~ms[P].leaf

LEMMA TwoCalls ==
  ASSUME NEW ns, NEW rt, NEW l, NEW u, NEW r, NEW P, FullHere(ns, rt, l, u, r, P), ns[l].leaf,
         NEW s, s = Pending([nodes |-> ns, root |-> rt], l, u, r), NEW a, a = InsertIntoParent(s)
  PROVE  AfterHalving(a, ns, rt, P)
<1> DEFINE N == Len(ns) + 1
<1>1. Halved(a, ns, rt, u, r, P, N)
  BY FullCall
<1> HIDE DEF N
<1>2. PICK ms, f, g, f1, g1, f2, g2, m :
        /\ a = Pending([nodes |-> ms, root |-> rt], P, f[m + 1], N)
        /\ Cut(ms, ns, P, u, r, f, g, f1, g1, f2, g2, m, N)
  BY ONLY <1>1 DEF Halved
<1>3. Pend(ns, rt, l, u, r) /\ l # rt /\ P = ns[l].parent /\ Len(ns[P].keys) = INTERNAL_MAX_KEYS
  BY FullParent DEF FullHere
<1>4. HalveStep(ms, ns, rt, l, u, r, P, f, g, f1, g1, f2, g2, m, N)
  BY ONLY <1>2, <1>3, ns[l].leaf DEF HalveStep, Cut
<1>5. Pend(ms, rt, P, f[m + 1], N) /\ Stored(ms) = Stored(ns)
  BY ONLY <1>4, HalveOK
<1> DEFINE v == f[m + 1]
<1>6. /\ a = Pending([nodes |-> ms, root |-> rt], P, v, N)
      /\ Pend(ms, rt, P, v, N) /\ Stored(ms) = Stored(ns) /\ ~ms[P].leaf
  BY ONLY <1>2, <1>5 DEF HalveInto, Cut
<1> HIDE DEF v
<1> QED BY ONLY <1>6 DEF AfterHalving

\* The pages after a split of P.
LEMMA HalvedPages ==
  ASSUME NEW ns, NEW rt, NEW l, NEW u, NEW r, NEW P, FullHere(ns, rt, l, u, r, P),
         NEW f, NEW g, NEW f1, NEW g1, NEW f2, NEW g2, NEW m, NEW ms, NEW N,
         Cut(ms, ns, P, u, r, f, g, f1, g1, f2, g2, m, N)
  PROVE  /\ Pages(ms, P, f[m + 1], N)
         /\ ~ms[P].leaf /\ 1 \in 1 .. Len(ms[P].refs) /\ ms[P].refs[1] \in 1 .. Len(ms)
         /\ ms[ms[P].refs[1]].leaf = ns[l].leaf
<1>20. /\ Pend(ns, rt, l, u, r) /\ l # rt /\ P = ns[l].parent
       /\ IsFull(f, g, ns, P, u, r) /\ IsCut(f1, g1, f2, g2, f, g, m)
       /\ HalveInto(ms, ns, P, f1, g1, f2, g2, N)
  BY DEF FullHere, Cut
<1> USE <1>20
<1>1. Pages(ns, l, u, r) /\ P \in 1 .. Len(ns) /\ ~ns[P].leaf
  BY PendPages, PendParent
<1>2. Len(ns) \in Nat /\ \A p \in 1 .. Len(ns) : ns[p] \in NodeSet
  BY ONLY <1>1 DEF Pages
<1>3. /\ N = Len(ns) + 1 /\ Len(ms) = N /\ ms = [p \in 1 .. N |-> ms[p]]
      /\ \A p \in 1 .. Len(ns) : p # P => Keeps(ms, ns, p)
      /\ ms[P] \in NodeSet /\ ~ms[P].leaf /\ ms[P].refs = g1 /\ ms[N] \in NodeSet
  BY ONLY HalveInto(ms, ns, P, f1, g1, f2, g2, N) DEF HalveInto
<1>4. N \in Nat /\ P \in 1 .. N /\ N \in 1 .. N /\ \A p \in 1 .. N : p \in 1 .. Len(ns) \/ p = N
  BY ONLY <1>1, <1>2, <1>3
<1>5. \A p \in 1 .. N : ms[p] \in NodeSet
  BY ONLY <1>3, <1>4 DEF Keeps
<1>6. /\ f \in Seq(Int) /\ m \in Nat /\ m + 1 \in 1 .. Len(f)
      /\ Len(g1) = m + 1 /\ g1[1] = g[1] /\ 1 \in 1 .. Len(g)
  <2>1. f \in Seq(Int) /\ g \in Seq(Nat) /\ Len(g) = Len(f) + 1
    BY ONLY IsFull(f, g, ns, P, u, r) DEF IsFull
  <2>4. /\ m \in Nat /\ m + 1 < Len(f) /\ Len(f) \in Nat /\ Len(g1) = m + 1
        /\ \A j \in 1 .. m + 1 : g1[j] = g[j]
    BY ONLY IsCut(f1, g1, f2, g2, f, g, m), Zenon DEF IsCut
  <2>5. m + 1 \in 1 .. Len(f)
    BY ONLY <2>4
  <2>2. m \in Nat /\ m + 1 \in 1 .. Len(f) /\ Len(g1) = m + 1 /\ \A j \in 1 .. m + 1 : g1[j] = g[j]
    BY ONLY <2>4, <2>5
  <2>3. 1 \in 1 .. m + 1 /\ 1 \in 1 .. Len(g)
    BY ONLY <2>1, <2>2
  <2> QED BY ONLY <2>1, <2>2, <2>3
<1>7. f[m + 1] \in Int
  BY ONLY <1>6
<1>8. Pages(ms, P, f[m + 1], N)
  BY ONLY <1>3, <1>4, <1>5, <1>7 DEF Pages
<1>9. FullChild(ns, rt, l, P, r, g[1])
  BY <1>6, FullChildren
<1>10. g[1] \in 1 .. Len(ns) /\ g[1] # P /\ ns[g[1]].leaf = ns[l].leaf
  BY ONLY <1>9 DEF FullChild
<1>11. ms[g[1]].leaf = ns[l].leaf
  BY ONLY <1>3, <1>10 DEF Keeps
<1>12. 1 \in 1 .. Len(g1) /\ g[1] \in 1 .. N
  BY ONLY <1>2, <1>3, <1>6, <1>10
<1> QED BY ONLY <1>3, <1>6, <1>8, <1>11, <1>12

\* Two full levels below a new root make four levels.
LEMMA FourLevels ==
  ASSUME NEW ns, NEW rt, NEW l, NEW u, NEW r, NEW P, FullHere(ns, rt, l, u, r, P), ~ns[l].leaf,
         NEW s, s = Pending([nodes |-> ns, root |-> rt], l, u, r), NEW a, a = InsertIntoParent(s),
         NEW b, b = InsertIntoParent(a), NEW os
  PROVE  Climbed(b.t, os) /\ b.right = 0
<1> DEFINE N == Len(ns) + 1
<1>1. Halved(a, ns, rt, u, r, P, N)
  BY FullCall
<1>2. rt = P
  <2>1. Pend(ns, rt, l, u, r) /\ l # rt /\ P = ns[l].parent
    BY DEF FullHere
  <2> QED BY ONLY <2>1, ~ns[l].leaf, PendParent
<1> HIDE DEF N
<1>3. PICK ms, f, g, f1, g1, f2, g2, m :
        /\ a = Pending([nodes |-> ms, root |-> rt], P, f[m + 1], N)
        /\ Cut(ms, ns, P, u, r, f, g, f1, g1, f2, g2, m, N)
  BY ONLY <1>1 DEF Halved
<1> DEFINE v == f[m + 1]
<1>4. /\ Pages(ms, P, v, N)
      /\ ~ms[P].leaf /\ 1 \in 1 .. Len(ms[P].refs) /\ ms[P].refs[1] \in 1 .. Len(ms)
      /\ ~ms[ms[P].refs[1]].leaf
  <2>1. Cut(ms, ns, P, u, r, f, g, f1, g1, f2, g2, m, N)
    BY ONLY <1>3
  <2>2. /\ Pages(ms, P, f[m + 1], N)
        /\ ~ms[P].leaf /\ 1 \in 1 .. Len(ms[P].refs) /\ ms[P].refs[1] \in 1 .. Len(ms)
        /\ ms[ms[P].refs[1]].leaf = ns[l].leaf
    BY ONLY <2>1, FullHere(ns, rt, l, u, r, P), HalvedPages
  <2> QED BY ONLY <2>2, ~ns[l].leaf
<1>5. a = Pending([nodes |-> ms, root |-> P], P, v, N)
  BY ONLY <1>2, <1>3
<1> HIDE DEF v
<1>6. N # 0 /\ P \in 1 .. Len(ms)
  BY ONLY <1>4 DEF Pages
<1>7. b = GrowRoot(a)
  BY ONLY <1>5, <1>6, b = InsertIntoParent(a), Calls
<1> DEFINE M == Len(ms) + 1
<1>8. PICK xs : /\ GrowRoot(a) = Pending([nodes |-> xs, root |-> M], P, v, 0)
                /\ GrowInto(xs, ms, P, v, N, M)
  BY ONLY <1>4, <1>5, GrowRootIs
<1> HIDE DEF M
<1>9. /\ \A p \in 1 .. Len(ms) : Keeps(xs, ms, p)
      /\ ~xs[M].leaf /\ Len(xs[M].refs) = 2 /\ xs[M].refs[1] = P
  BY ONLY <1>8 DEF GrowInto
<1>10. /\ ~xs[P].leaf /\ xs[P].refs = ms[P].refs /\ ~xs[ms[P].refs[1]].leaf
  BY ONLY <1>4, <1>6, <1>9 DEF Keeps
<1>11. ~Flat(xs, M)
  <2>1. 1 \in 1 .. Len(xs[M].refs) /\ 1 \in 1 .. Len(xs[P].refs)
    BY ONLY <1>4, <1>9, <1>10
  <2> QED BY ONLY <2>1, <1>9, <1>10 DEF Flat
<1>12. b.t.nodes = xs /\ b.t.root = M /\ b.right = 0
  BY ONLY <1>7, <1>8, Calls
<1> QED BY ONLY <1>11, <1>12 DEF Climbed

LEMMA ClimbedTrans ==
  ASSUME NEW t, NEW ms, NEW ns, Climbed(t, ms), Stored(ms) = Stored(ns)
  PROVE  Climbed(t, ns)
BY DEF Climbed

\* The climb from a split leaf.
LEMMA ClimbOK ==
  ASSUME NEW ns, NEW rt, NEW l, NEW u, NEW r, Pend(ns, rt, l, u, r), ns[l].leaf,
         NEW s, s = Pending([nodes |-> ns, root |-> rt], l, u, r)
  PROVE  Climbed(Climb(s), ns)
<1> DEFINE a == InsertIntoParent(s)
           b == InsertIntoParent(a)
           c == InsertIntoParent(b)
           P == ns[l].parent
<1>0. a = InsertIntoParent(s) /\ b = InsertIntoParent(a) /\ c = InsertIntoParent(b) /\ P = ns[l].parent
  OBVIOUS
<1> HIDE DEF a, b, c, P
<1>1. s.t.nodes = ns
  BY Calls
<1>2. Len(ns) \in Nat /\ Len(ns) >= 1
  BY PendPages DEF Pages
<1>3. /\ a.right = 0 => b = a
      /\ b.right = 0 => c = b
  BY ONLY <1>0 DEF InsertIntoParent, INVALID_PAGE_ID
<1>4. l # rt => Len(ns) >= 3
  <2>1. l # rt => P \in 1 .. Len(ns) /\ P # r /\ P # l
    BY <1>0, PendParent
  <2>2. l \in 1 .. Len(ns) /\ r \in 1 .. Len(ns) /\ l # r
    BY DEF Pend
  <2> QED BY ONLY <2>1, <2>2, <1>2
<1>5. ASSUME Climbed(c.t, ns), c.right = 0, a.right = 0 \/ Len(ns) >= 3 PROVE Climbed(Climb(s), ns)
  <2>1. Climb(s) = c.t
    BY ONLY <1>0, <1>1, <1>2, <1>5, ClimbIs
  <2> QED BY ONLY <2>1, <1>5
<1>6. CASE l = rt
  <2>1. Climbed(a.t, ns) /\ a.right = 0
    BY <1>0, <1>6, RootCall
  <2>2. c = a
    BY ONLY <2>1, <1>3
  <2> QED BY ONLY <2>1, <2>2, <1>5
<1>7. CASE l # rt /\ Len(ns[P].keys) < INTERNAL_MAX_KEYS
  <2>1. Climbed(a.t, ns) /\ a.right = 0
    BY <1>0, <1>7, RoomCall
  <2>2. c = a
    BY ONLY <2>1, <1>3
  <2> QED BY ONLY <2>1, <2>2, <1>5
<1>8. CASE l # rt /\ ~(Len(ns[P].keys) < INTERNAL_MAX_KEYS)
  <2>1. PICK ms, v, N : /\ a = Pending([nodes |-> ms, root |-> rt], P, v, N)
                        /\ Pend(ms, rt, P, v, N) /\ Stored(ms) = Stored(ns) /\ ~ms[P].leaf
    <3>1. FullHere(ns, rt, l, u, r, P)
      BY <1>0, <1>8 DEF FullHere
    <3>2. AfterHalving(a, ns, rt, P)
      BY <3>1, <1>0, TwoCalls
    <3> QED BY ONLY <3>2 DEF AfterHalving
  <2>2. ASSUME Climbed(b.t, ms), b.right = 0 PROVE Climbed(Climb(s), ns)
    <3>1. c = b /\ Climbed(b.t, ns)
      BY ONLY <2>1, <2>2, <1>3, ClimbedTrans
    <3> QED BY ONLY <3>1, <2>2, <1>4, <1>5, <1>8
  <2>3. CASE P = rt
    <3>1. Climbed(b.t, ms) /\ b.right = 0
      BY ONLY <1>0, <2>1, <2>3, RootCall
    <3> QED BY ONLY <3>1, <2>2
  <2>4. CASE P # rt /\ Len(ms[ms[P].parent].keys) < INTERNAL_MAX_KEYS
    <3>1. Climbed(b.t, ms) /\ b.right = 0
      BY ONLY <1>0, <2>1, <2>4, RoomCall
    <3> QED BY ONLY <3>1, <2>2
  <2>5. CASE P # rt /\ ~(Len(ms[ms[P].parent].keys) < INTERNAL_MAX_KEYS)
    <3>1. Climbed(c.t, ns) /\ c.right = 0
      <4> DEFINE R == ms[P].parent
      <4>1. FullHere(ms, rt, P, v, N, R)
        BY ONLY <2>1, <2>5 DEF FullHere
      <4> HIDE DEF R
      <4> QED BY ONLY <4>1, <1>0, <2>1, FourLevels
    <3> QED BY ONLY <3>1, <1>4, <1>5, <1>8
  <2> QED BY ONLY <2>3, <2>4, <2>5
<1> QED BY ONLY <1>6, <1>7, <1>8

-----------------------------------------------------------------------------
(* The operations.                                                         *)

PutNode(ns, q, h) == [ns EXCEPT ![q] = h]

Replaces(h, n) ==
    Entries(h) /\ Len(h.keys) <= LEAF_MAX_ENTRIES /\ h.parent = n.parent /\ h.next = n.next

\* A leaf becomes h.
LEMMA LeafChange ==
  ASSUME NEW ns, NEW rt, Shape(ns, rt, 0), NEW q \in 1 .. Len(ns), ns[q].leaf,
         NEW h, Replaces(h, ns[q]), NEW ms, ms = PutNode(ns, q, h)
  PROVE  /\ LeafStep(ms, ns, q, 0) /\ Len(ms) = Len(ns) /\ ms[q] = h
         /\ \A p \in 1 .. Len(ns) : p # q => ms[p] = ns[p]
<1>10. Entries(h) /\ Len(h.keys) <= LEAF_MAX_ENTRIES /\ h.parent = ns[q].parent /\ h.next = ns[q].next
  BY DEF Replaces
<1> USE <1>10
<1>1. Len(ns) \in Nat /\ ns = [p \in 1 .. Len(ns) |-> ns[p]] /\ NodeOK(ns[q], Len(ns))
  BY DEF Shape
<1>2. ms = [p \in 1 .. Len(ns) |-> IF p = q THEN h ELSE ns[p]]
  BY ONLY <1>1, ms = PutNode(ns, q, h), q \in 1 .. Len(ns) DEF PutNode
<1>3. DOMAIN ms = 1 .. Len(ns) /\ ms = [p \in 1 .. Len(ns) |-> ms[p]]
  BY ONLY <1>2
<1>4. Len(ms) = Len(ns)
  BY ONLY <1>1, <1>3, FunctionIsSeq
<1>5. ms[q] = h /\ \A p \in 1 .. Len(ns) : p # q => ms[p] = ns[p]
  BY ONLY <1>2, q \in 1 .. Len(ns)
<1>6. NodeOK(h, Len(ns))
  <2>1. h \in NodeSet /\ h.leaf /\ Sorted(h.keys) /\ LeafOK(h)
    BY DEF Entries, LeafOK
  <2>2. h.next \in 0 .. Len(ns) /\ h.parent \in 0 .. Len(ns)
    BY <1>1 DEF NodeOK
  <2> QED BY ONLY <2>1, <2>2 DEF NodeOK
<1>7. h.leaf
  BY DEF Entries
<1>8. LeafStep(ms, ns, q, 0)
  BY ONLY <1>1, <1>3, <1>4, <1>5, <1>6, <1>7, q \in 1 .. Len(ns), ns[q].leaf, h.parent = ns[q].parent DEF LeafStep
<1> QED BY ONLY <1>4, <1>5, <1>8

LEMMA InsertedRoom ==
  ASSUME NEW ns, NEW rt, Stands(ns, rt), NEW k \in Keys, NEW q, Path(ns, rt, k, q),
         ~InSeq(ns[q].keys, k), LeafHasRoom(ns[q]),
         NEW ms, ms = PutNode(ns, q, LeafInsert(ns[q], k, RidOf[k]))
  PROVE  Stands(ms, rt) /\ Stored(ms) = Stored(ns) \cup {k}
<1> DEFINE h == LeafInsert(ns[q], k, RidOf[k])
<1>0. Shape(ns, rt, 0) /\ Order(ns) /\ q \in 1 .. Len(ns) /\ ns[q].leaf
  BY DEF Stands, Path
<1>1. Entries(ns[q]) /\ Len(ns[q].keys) \in Nat
  BY <1>0, LeafEntries, EntriesFacts
<1>2. /\ Entries(h) /\ Len(h.keys) = Len(ns[q].keys) + 1
      /\ h.parent = ns[q].parent /\ h.next = ns[q].next
      /\ \A x : InSeq(h.keys, x) <=> InSeq(ns[q].keys, x) \/ x = k
  BY <1>1, LeafInsertFacts
<1>3. ms = PutNode(ns, q, h)
  OBVIOUS
<1> HIDE DEF h
<1>4. Len(h.keys) <= LEAF_MAX_ENTRIES
  BY ONLY <1>1, <1>2, LeafHasRoom(ns[q]), Capacities DEF LeafHasRoom
<1>9. Replaces(h, ns[q])
  BY ONLY <1>2, <1>4 DEF Replaces
<1>5. LeafStep(ms, ns, q, 0) /\ ms[q] = h
  BY ONLY <1>0, <1>3, <1>9, LeafChange
<1>6. Shape(ms, rt, 0)
  BY ONLY <1>0, <1>5, LeafStepShape
<1>7. Order(ms)
  <2>1. \A x \in Int : InSeq(ms[q].keys, x) => InSeq(ns[q].keys, x) \/ Path(ns, rt, x, q)
    BY ONLY <1>2, <1>5, Path(ns, rt, k, q)
  <2> QED BY ONLY <2>1, <1>0, <1>5, LeafStepOrder
<1>8. Stored(ms) = Stored(ns) \cup {k}
  <2>1. \A x : InSeq(ms[q].keys, x) \/ (0 # 0 /\ InSeq(ms[0].keys, x)) <=> InSeq(ns[q].keys, x) \/ x = k
    BY ONLY <1>2, <1>5
  <2> QED BY ONLY <2>1, <1>0, <1>5, k \in Keys, LeafStepStored
<1>10. Threaded(ms, rt)
  <2>1. Threaded(ns, rt) /\ ms[q].next = ns[q].next
    BY ONLY Stands(ns, rt), <1>2, <1>5 DEF Stands
  <2> QED BY ONLY <2>1, <1>0, <1>5, LeafStepThreaded
<1> QED BY ONLY <1>6, <1>7, <1>8, <1>10 DEF Stands

LEMMA InsertedOK ==
  ASSUME NEW ns, NEW rt, Stands(ns, rt), NEW k \in Keys, k \notin Stored(ns),
         NEW t, t = [nodes |-> ns, root |-> rt], NEW x, x = Inserted(t, k, RidOf[k]), Flat(x.nodes, x.root)
  PROVE  Stands(x.nodes, x.root) /\ Stored(x.nodes) = Stored(ns) \cup {k}
<1> DEFINE q == FindLeaf(t, k)
           s == SplitLeaf(t, q)
           half == IF k >= s.key THEN s.right ELSE s.left
           w == [s EXCEPT !.t.nodes[half] = LeafInsert(@, k, RidOf[k])]
           ms == PutNode(ns, q, LeafInsert(ns[q], k, RidOf[k]))
<1>0. Shape(ns, rt, 0) /\ Order(ns)
  BY DEF Stands
<1>1. Path(ns, rt, k, q) /\ ~InSeq(ns[q].keys, k)
  BY <1>0, SearchFacts
<1>2. t.nodes = ns /\ t.root = rt
  OBVIOUS
<1>3. x = IF LeafHasRoom(ns[q])
          THEN [t EXCEPT !.nodes[q] = LeafInsert(@, k, RidOf[k])] ELSE Climb(w)
  BY ONLY <1>2, x = Inserted(t, k, RidOf[k]), Zenon DEF Inserted
<1>4. [t EXCEPT !.nodes[q] = LeafInsert(@, k, RidOf[k])] = [nodes |-> ms, root |-> rt]
  <2> HIDE DEF q
  <2> QED BY ONLY t = [nodes |-> ns, root |-> rt] DEF PutNode
<1>5. s = SplitLeaf(t, q) /\ half = (IF k >= s.key THEN s.right ELSE s.left)
      /\ w = [s EXCEPT !.t.nodes[half] = LeafInsert(@, k, RidOf[k])]
  OBVIOUS
<1>12. ms = PutNode(ns, q, LeafInsert(ns[q], k, RidOf[k]))
  OBVIOUS
<1> HIDE DEF q, s, half, w, ms
<1>6. CASE LeafHasRoom(ns[q])
  <2>1. Stands(ms, rt) /\ Stored(ms) = Stored(ns) \cup {k}
    BY ONLY Stands(ns, rt), k \in Keys, <1>1, <1>6, <1>12, InsertedRoom
  <2>2. x = [nodes |-> ms, root |-> rt]
    BY ONLY <1>3, <1>4, <1>6
  <2>3. x.nodes = ms /\ x.root = rt
    BY ONLY <2>2
  <2> QED BY ONLY <2>1, <2>3
<1>7. CASE ~LeafHasRoom(ns[q])
  <2>0. q \in 1 .. Len(ns) /\ ns[q].leaf
    BY ONLY <1>1 DEF Path
  <2>1. Len(ns[q].keys) <= LEAF_MAX_ENTRIES /\ Len(ns[q].keys) \in Nat
    BY ONLY <2>0, <1>0, LeafEntries, EntriesFacts
  <2>2. Len(ns[q].keys) = LEAF_MAX_ENTRIES
    BY ONLY <2>1, <1>7, Capacities DEF LeafHasRoom
  <2> DEFINE N == Len(ns) + 1
  <2>8. Splitting(ns, rt, k, q, t, s, half, w)
    BY ONLY <1>1, <1>5, <2>2, Stands(ns, rt), t = [nodes |-> ns, root |-> rt], Zenon DEF Splitting
  <2>9. HasSplit(w, ns, rt, k, q, N)
    BY ONLY <2>8, k \in Keys, SplitLeafPend
  <2> HIDE DEF N
  <2>3. PICK os, u : /\ w = Pending([nodes |-> os, root |-> rt], q, u, N)
                     /\ Pend(os, rt, q, u, N) /\ os[q].leaf
                     /\ Stored(os) = Stored(ns) \cup {k}
    BY ONLY <2>9 DEF HasSplit
  <2>5. Climbed(Climb(w), os)
    BY ONLY <2>3, ClimbOK
  <2>6. x = Climb(w)
    BY ONLY <1>3, <1>7
  <2>7. Stands(x.nodes, x.root) /\ Stored(x.nodes) = Stored(os)
    BY ONLY <2>5, <2>6, Flat(x.nodes, x.root) DEF Climbed
  <2> QED BY ONLY <2>3, <2>7
<1> QED BY ONLY <1>6, <1>7

LEMMA RemovedOK ==
  ASSUME NEW ns, NEW rt, Stands(ns, rt), NEW k \in Keys, k \in Stored(ns),
         NEW t, t = [nodes |-> ns, root |-> rt], NEW q, q = FindLeaf(t, k),
         NEW ms, ms = PutNode(ns, q, LeafRemove(ns[q], k))
  PROVE  Stands(ms, rt) /\ Stored(ms) = Stored(ns) \ {k} /\ Len(ms) = Len(ns)
<1> DEFINE h == LeafRemove(ns[q], k)
<1>0. Shape(ns, rt, 0) /\ Order(ns) /\ k \in Int
  BY Capacities DEF Stands
<1>1. Path(ns, rt, k, q) /\ InSeq(ns[q].keys, k)
  BY <1>0, SearchFacts
<1>2. \A p : Path(ns, rt, k, p) => p = q
  BY <1>0, FindLeafFacts
<1>3. q \in 1 .. Len(ns) /\ ns[q].leaf
  BY ONLY <1>1 DEF Path
<1>4. Entries(ns[q]) /\ Len(ns[q].keys) \in Nat /\ Len(ns[q].keys) <= LEAF_MAX_ENTRIES
  BY <1>0, <1>3, LeafEntries, EntriesFacts
<1>5. /\ Entries(h) /\ Len(h.keys) + 1 = Len(ns[q].keys)
      /\ h.parent = ns[q].parent /\ h.next = ns[q].next
      /\ \A x : InSeq(h.keys, x) <=> InSeq(ns[q].keys, x) /\ x # k
  BY <1>1, <1>4, LeafRemoveFacts
<1>6. ms = PutNode(ns, q, h)
  OBVIOUS
<1> HIDE DEF h
<1>7. Len(h.keys) <= LEAF_MAX_ENTRIES
  <2>1. Len(h.keys) \in Nat
    BY ONLY <1>5, EntriesFacts
  <2> QED BY ONLY <2>1, <1>4, <1>5, Capacities
<1>8. /\ LeafStep(ms, ns, q, 0) /\ ms[q] = h /\ Len(ms) = Len(ns)
      /\ \A p \in 1 .. Len(ns) : p # q => ms[p] = ns[p]
  <2>1. Replaces(h, ns[q])
    BY ONLY <1>5, <1>7 DEF Replaces
  <2> QED BY ONLY <2>1, <1>0, <1>3, <1>6, LeafChange
<1>9. Shape(ms, rt, 0)
  BY ONLY <1>0, <1>8, LeafStepShape
<1>10. Order(ms)
  <2>1. \A x \in Int : InSeq(ms[q].keys, x) => InSeq(ns[q].keys, x) \/ Path(ns, rt, x, q)
    BY ONLY <1>5, <1>8
  <2> QED BY ONLY <2>1, <1>0, <1>8, LeafStepOrder
<1>11. ms[q].leaf /\ \A p \in 1 .. Len(ns) : ns[p].leaf /\ InSeq(ns[p].keys, k) => p = q
  BY ONLY <1>0, <1>2, <1>5, <1>8, KeyPath DEF Entries
<1>12. ASSUME NEW x \in Stored(ms) PROVE x \in Stored(ns) \ {k}
  <2>1. PICK p \in 1 .. Len(ns) : ms[p].leaf /\ InSeq(ms[p].keys, x) /\ x \in Keys
    BY ONLY <1>8, x \in Stored(ms) DEF Stored
  <2>2. ns[p].leaf /\ InSeq(ns[p].keys, x) /\ x # k
    BY ONLY <2>1, <1>3, <1>5, <1>8, <1>11
  <2> QED BY ONLY <2>1, <2>2 DEF Stored
<1>13. ASSUME NEW x \in Stored(ns) \ {k} PROVE x \in Stored(ms)
  <2>1. PICK p \in 1 .. Len(ns) : ns[p].leaf /\ InSeq(ns[p].keys, x) /\ x \in Keys /\ x # k
    BY ONLY <1>8, x \in Stored(ns) \ {k} DEF Stored
  <2>2. ms[p].leaf /\ InSeq(ms[p].keys, x)
    BY ONLY <2>1, <1>5, <1>8, <1>11
  <2> QED BY ONLY <2>1, <2>2, <1>8 DEF Stored
<1>14. Stored(ms) = Stored(ns) \ {k}
  BY ONLY <1>12, <1>13
<1>15. Threaded(ms, rt)
  <2>1. Threaded(ns, rt) /\ ms[q].next = ns[q].next
    BY ONLY Stands(ns, rt), <1>5, <1>8 DEF Stands
  <2> QED BY ONLY <2>1, <1>0, <1>8, LeafStepThreaded
<1> QED BY ONLY <1>8, <1>9, <1>10, <1>14, <1>15 DEF Stands

LEMMA InitOK ==
  ASSUME Init
  PROVE  IInv /\ Stored(nodes) = {}
<1> DEFINE n == EmptyLeaf
<1>1. /\ n \in NodeSet /\ n.leaf /\ n.keys = <<>> /\ n.refs = <<>> /\ n.parent = 0 /\ n.next = 0
      /\ Len(n.keys) = 0 /\ Len(n.refs) = 0
  BY DEF EmptyLeaf, NodeSet, INVALID_PAGE_ID
<1>2. nodes = <<n>> /\ root = 1
  BY DEF Init
<1> HIDE DEF n
<1>3. Len(nodes) = 1 /\ nodes[1] = n /\ nodes = [p \in 1 .. 1 |-> nodes[p]]
  BY ONLY <1>2
<1>4. NodeOK(n, 1)
  <2>1. LeafOK(n)
    BY ONLY <1>1, Capacities DEF LeafOK
  <2> QED BY ONLY <2>1, <1>1 DEF NodeOK, Sorted
<1>5. \A p \in 1 .. Len(nodes) : p = 1
  BY ONLY <1>3
<1>6. Shape(nodes, root, 0)
  <2>1. \A p \in 1 .. Len(nodes) : NodeOK(nodes[p], Len(nodes)) /\ nodes[p].leaf /\ p = root
    BY ONLY <1>1, <1>2, <1>3, <1>4, <1>5
  <2>2. nodes[root].parent = 0 /\ root \in 1 .. Len(nodes) /\ root # 0 /\ Len(nodes) \in Nat
    BY ONLY <1>1, <1>2, <1>3
  <2>3. nodes = [p \in 1 .. Len(nodes) |-> nodes[p]]
    BY ONLY <1>3
  <2> QED BY ONLY <2>1, <2>2, <2>3 DEF Shape
<1>7. Order(nodes)
  BY ONLY <1>1, <1>3, <1>5 DEF Order
<1>8. Stored(nodes) = {}
  <2>1. \A k : ~InSeq(n.keys, k)
    BY ONLY <1>1 DEF InSeq
  <2> QED BY ONLY <2>1, <1>3, <1>5 DEF Stored
<1>9. Len(nodes) <= MaxPages
  BY ONLY <1>3, TreeAssumption
<1>10. Threaded(nodes, root)
  <2> DEFINE s == <<1>>
  <2>1. s \in Seq(Nat) /\ Len(s) = 1 /\ s[1] = 1 /\ \A i \in 1 .. 1 : i = 1
    OBVIOUS
  <2> HIDE DEF s
  <2>2. InSeq(s, 1) /\ Distinct(s)
    BY ONLY <2>1 DEF InSeq, Distinct
  <2>3. Chain(nodes, s)
    BY ONLY <2>1, <2>2, <1>1, <1>3, <1>5 DEF Chain
  <2>4. \A i, j \in 1 .. Len(s) : ~(i < j)
    BY ONLY <2>1
  <2> QED BY ONLY <2>3, <2>4 DEF Threaded
<1> QED BY ONLY <1>6, <1>7, <1>8, <1>9, <1>10 DEF IInv

\* What a step does to the keys that are stored.
Adds(os, ns, k) == k \in Keys /\ k \notin Stored(ns) /\ Stored(os) = Stored(ns) \cup {k}
Drops(os, ns, k) == k \in Keys /\ k \in Stored(ns) /\ Stored(os) = Stored(ns) \ {k}

LEMMA InsertStep ==
  ASSUME IInv, ThreeLevels', NEW k \in Keys, InsertKey(k)
  PROVE  IInv' /\ Adds(nodes', nodes, k)
<1> DEFINE t == Tree
           x == Inserted(t, k, RidOf[k])
<1>1. Stands(nodes, root)
  BY DEF IInv, Stands
<1>2. t = [nodes |-> nodes, root |-> root]
  BY DEF Tree
<1>3. Search(t, k) = 0 /\ Len(x.nodes) <= MaxPages /\ nodes' = x.nodes /\ root' = x.root
  BY DEF InsertKey, InvalidRid
<1>0. x = Inserted(t, k, RidOf[k])
  OBVIOUS
<1> HIDE DEF t, x
<1>4. k \notin Stored(nodes)
  <2>1. Search(t, k) = IF k \in Stored(nodes) THEN RidOf[k] ELSE 0
    BY ONLY <1>1, <1>2, k \in Keys, SearchFacts DEF Stands
  <2> QED BY ONLY <2>1, <1>3, k \in Keys, Capacities
<1>5. Flat(x.nodes, x.root)
  BY ONLY <1>3, ThreeLevels' DEF ThreeLevels
<1>6. Stands(x.nodes, x.root) /\ Stored(x.nodes) = Stored(nodes) \cup {k}
  BY ONLY <1>0, <1>1, <1>2, <1>4, <1>5, k \in Keys, InsertedOK
<1>7. Stands(nodes', root') /\ Stored(nodes') = Stored(nodes) \cup {k} /\ Len(nodes') <= MaxPages
  BY ONLY <1>3, <1>6
<1> QED BY ONLY <1>4, <1>7, k \in Keys DEF IInv, Stands, Adds

LEMMA RemoveStep ==
  ASSUME IInv, NEW k \in Keys, RemoveKey(k)
  PROVE  IInv' /\ Drops(nodes', nodes, k)
<1> DEFINE t == Tree
           q == FindLeaf(t, k)
<1>1. Stands(nodes, root) /\ Len(nodes) <= MaxPages
  BY DEF IInv, Stands
<1>2. t = [nodes |-> nodes, root |-> root]
  BY DEF Tree
<1>3. Search(t, k) # 0 /\ root' = root
  BY DEF RemoveKey, InvalidRid
<1>8. nodes' = PutNode(nodes, q, LeafRemove(nodes[q], k))
  BY DEF RemoveKey, PutNode
<1>0. q = FindLeaf(t, k)
  OBVIOUS
<1> HIDE DEF t, q
<1>4. k \in Stored(nodes)
  <2>1. Search(t, k) = IF k \in Stored(nodes) THEN RidOf[k] ELSE 0
    BY ONLY <1>1, <1>2, k \in Keys, SearchFacts DEF Stands
  <2> QED BY ONLY <2>1, <1>3
<1> DEFINE ms == nodes'
<1>5. ms = PutNode(nodes, q, LeafRemove(nodes[q], k))
  BY ONLY <1>8
<1> HIDE DEF ms
<1>6. Stands(ms, root) /\ Stored(ms) = Stored(nodes) \ {k} /\ Len(ms) = Len(nodes)
  BY ONLY <1>0, <1>1, <1>2, <1>4, <1>5, k \in Keys, RemovedOK
<1>7. Stands(nodes', root') /\ Stored(nodes') = Stored(nodes) \ {k} /\ Len(nodes') <= MaxPages
  BY ONLY <1>1, <1>3, <1>6 DEF ms
<1> QED BY ONLY <1>4, <1>7, k \in Keys DEF IInv, Stands, Drops

LEMMA StepOK ==
  IInv /\ ThreeLevels' /\ [Next]_vars => IInv'
<1> SUFFICES ASSUME IInv, ThreeLevels', [Next]_vars PROVE IInv'
  OBVIOUS
<1>1. ASSUME NEW k \in Keys, InsertKey(k) PROVE IInv'
  BY <1>1, InsertStep
<1>2. ASSUME NEW k \in Keys, RemoveKey(k) PROVE IInv'
  BY <1>2, RemoveStep
<1>3. CASE UNCHANGED vars
  BY <1>3 DEF vars, IInv
<1> QED BY <1>1, <1>2, <1>3 DEF Next

LEMMA Holds ==
  Spec /\ []ThreeLevels => []IInv
<1>1. Init => IInv
  BY InitOK
<1> QED BY <1>1, StepOK, PTL DEF Spec

-----------------------------------------------------------------------------
(* Theorems.                                                               *)

\* The nodes keep to their capacities, and no id leads out of the tree
\* (btree_index.cpp, btree_page.cpp), for every set of keys and all capacities.
THEOREM TypeCorrect == Spec /\ []ThreeLevels => []TypeOK
<1>1. IInv => TypeOK
  <2> SUFFICES ASSUME IInv PROVE TypeOK
    OBVIOUS
  <2>1. Shape(nodes, root, 0) /\ Len(nodes) <= MaxPages
    BY DEF IInv
  <2>2. DOMAIN nodes = 1 .. Len(nodes) /\ root \in 1 .. Len(nodes)
    BY <2>1 DEF Shape
  <2>3. ASSUME NEW p \in 1 .. Len(nodes)
        PROVE  /\ nodes[p].parent \in 0 .. Len(nodes) /\ nodes[p].next \in 0 .. Len(nodes)
               /\ nodes[p].leaf => /\ Len(nodes[p].keys) <= LEAF_MAX_ENTRIES
                                   /\ Len(nodes[p].refs) = Len(nodes[p].keys)
               /\ ~nodes[p].leaf => /\ Len(nodes[p].keys) \in 1 .. INTERNAL_MAX_KEYS
                                    /\ Len(nodes[p].refs) = Len(nodes[p].keys) + 1
    BY ONLY <2>1, <2>3, NodeFacts DEF LeafOK
  <2>4. ASSUME NEW p \in 1 .. Len(nodes), ~nodes[p].leaf
        PROVE  ToSet(nodes[p].refs) \subseteq 1 .. Len(nodes)
    <3>1. DOMAIN nodes[p].refs = 1 .. Len(nodes[p].refs)
      BY <2>1, <2>4, NodeFacts
    <3>2. \A i \in 1 .. Len(nodes[p].refs) : nodes[p].refs[i] \in 1 .. Len(nodes)
      BY <2>1, <2>4, ChildFacts
    <3> QED BY ONLY <3>1, <3>2 DEF ToSet
  <2> QED BY ONLY <2>1, <2>2, <2>3, <2>4 DEF TypeOK
<1> QED BY <1>1, Holds, PTL

\* Every child's header names the node that points to it, so that
\* insert_into_parent tells the right node of a split (btree_index.cpp:305).
THEOREM ParentIdsRight == Spec /\ []ThreeLevels => []ParentIds
<1>1. IInv => ParentIds
  <2> SUFFICES ASSUME IInv PROVE ParentIds
    OBVIOUS
  <2>1. Shape(nodes, root, 0)
    BY DEF IInv
  <2>2. DOMAIN nodes = 1 .. Len(nodes) /\ nodes[root].parent = 0
    BY <2>1 DEF Shape
  <2>3. ASSUME NEW p \in 1 .. Len(nodes), ~nodes[p].leaf
        PROVE  \A c \in ToSet(nodes[p].refs) : nodes[c].parent = p
    <3>1. DOMAIN nodes[p].refs = 1 .. Len(nodes[p].refs)
      BY <2>1, <2>3, NodeFacts
    <3>2. \A i \in 1 .. Len(nodes[p].refs) : nodes[nodes[p].refs[i]].parent = p
      BY <2>1, <2>3, ChildFacts
    <3> QED BY ONLY <3>1, <3>2 DEF ToSet
  <2> QED BY ONLY <2>2, <2>3 DEF ParentIds, INVALID_PAGE_ID
<1> QED BY <1>1, Holds, PTL

-----------------------------------------------------------------------------
(* The refinement of KeyMap.                                               *)

MapOf(S) == [k \in S |-> RidOf[k]]

FoundIn(t) == [k \in {x \in Keys : Search(t, x) # InvalidRid} |-> Search(t, k)]

LEMMA FoundIs ==
  ASSUME NEW ns, NEW rt, Stands(ns, rt), NEW t, t = [nodes |-> ns, root |-> rt]
  PROVE  FoundIn(t) = MapOf(Stored(ns))
<1>1. \A k \in Keys : Search(t, k) = IF k \in Stored(ns) THEN RidOf[k] ELSE 0
  BY SearchFacts DEF Stands
<1>2. \A k \in Keys : RidOf[k] # 0
  BY Capacities
<1>3. Stored(ns) \subseteq Keys
  BY DEF Stored
<1>4. {x \in Keys : Search(t, x) # InvalidRid} = Stored(ns)
  BY ONLY <1>1, <1>2, <1>3 DEF InvalidRid
<1>5. \A k \in Stored(ns) : Search(t, k) = RidOf[k]
  BY ONLY <1>1, <1>3
<1> QED BY ONLY <1>4, <1>5 DEF FoundIn, MapOf

LEMMA FoundNow ==
  ASSUME IInv
  PROVE  Found = MapOf(Stored(nodes))
<1>1. Stands(nodes, root)
  BY DEF IInv, Stands
<1> DEFINE t == Tree
<1>2. t = [nodes |-> nodes, root |-> root] /\ Found = FoundIn(t)
  BY DEF Tree, Found, FoundIn
<1> HIDE DEF t
<1>3. FoundIn(t) = MapOf(Stored(nodes))
  BY ONLY <1>1, <1>2, FoundIs
<1> QED BY ONLY <1>2, <1>3

LEMMA FoundNext ==
  ASSUME IInv'
  PROVE  Found' = MapOf(Stored(nodes'))
<1>1. Stands(nodes', root')
  BY DEF IInv, Stands
<1> DEFINE t == Tree'
<1>2. t = [nodes |-> nodes', root |-> root'] /\ Found' = FoundIn(t)
  BY DEF Tree, Found, FoundIn
<1> HIDE DEF t
<1>3. FoundIn(t) = MapOf(Stored(nodes'))
  BY ONLY <1>1, <1>2, FoundIs
<1> QED BY ONLY <1>2, <1>3

LEMMA MapAdds ==
  ASSUME NEW S, NEW T, NEW k \in Keys, k \notin S, T = S \cup {k}
  PROVE  MapOf(T) \in Map!AfterInsert(MapOf(S))
<1> DEFINE E == {<<j, RidOf[j]>> : j \in Keys}
           m == MapOf(S)
           e == <<k, RidOf[k]>>
           new(x) == [j \in DOMAIN m \cup {x[1]} |-> IF j = x[1] THEN x[2] ELSE m[j]]
<1>1. e \in E /\ e[1] = k /\ e[2] = RidOf[k]
  OBVIOUS
<1>2. DOMAIN m = S /\ \A j \in S : m[j] = RidOf[j]
  BY DEF MapOf
<1>3. new(e) = MapOf(T)
  <2>1. MapOf(T) = [j \in T |-> RidOf[j]]
    BY DEF MapOf
  <2> HIDE DEF m, e
  <2> QED BY ONLY <2>1, <1>1, <1>2, T = S \cup {k}, k \notin S
<1>4. Map!AfterInsert(m) = {new(x) : x \in {y \in E : y[1] \notin DOMAIN m}}
  BY DEF Map!AfterInsert
<1>5. e \in {y \in E : y[1] \notin DOMAIN m}
  <2> HIDE DEF E, e, m
  <2> QED BY ONLY <1>1, <1>2, k \notin S
<1> HIDE DEF E, e, m, new
<1>6. new(e) \in {new(x) : x \in {y \in E : y[1] \notin DOMAIN m}}
  BY ONLY <1>5, Zenon
<1> QED BY ONLY <1>3, <1>4, <1>6 DEF m

LEMMA MapDrops ==
  ASSUME NEW S, NEW T, NEW k \in S, T = S \ {k}
  PROVE  MapOf(T) \in Map!AfterRemove(MapOf(S))
<1> DEFINE m == MapOf(S)
           new(x) == [j \in DOMAIN m \ {x} |-> m[j]]
<1>2. DOMAIN m = S /\ \A j \in S : m[j] = RidOf[j]
  BY DEF MapOf
<1>3. new(k) = MapOf(T)
  <2>1. MapOf(T) = [j \in T |-> RidOf[j]]
    BY DEF MapOf
  <2> HIDE DEF m
  <2> QED BY ONLY <2>1, <1>2, T = S \ {k}
<1>4. Map!AfterRemove(m) = {new(x) : x \in DOMAIN m}
  BY DEF Map!AfterRemove
<1>5. k \in DOMAIN m
  BY <1>2
<1> HIDE DEF m, new
<1>6. new(k) \in {new(x) : x \in DOMAIN m}
  BY ONLY <1>5, Zenon
<1> QED BY ONLY <1>3, <1>4, <1>6 DEF m

LEMMA MapStep ==
  IInv /\ ThreeLevels' /\ [Next]_vars => [Map!MapNext]_Found
<1> SUFFICES ASSUME IInv, ThreeLevels', [Next]_vars PROVE Map!MapNext \/ Found' = Found
  OBVIOUS
<1>0. Found = MapOf(Stored(nodes)) /\ Found' = MapOf(Stored(nodes'))
  BY StepOK, FoundNow, FoundNext
<1>1. ASSUME NEW k \in Keys, InsertKey(k) PROVE Map!MapNext
  <2>1. Adds(nodes', nodes, k)
    BY <1>1, InsertStep
  <2> DEFINE S == Stored(nodes)
             T == Stored(nodes')
  <2>2. k \notin S /\ T = S \cup {k}
    BY ONLY <2>1 DEF Adds
  <2> HIDE DEF S, T
  <2>3. MapOf(T) \in Map!AfterInsert(MapOf(S))
    BY ONLY <2>2, k \in Keys, MapAdds
  <2>4. Found' \in Map!AfterInsert(Found)
    BY ONLY <2>3, <1>0 DEF S, T
  <2> QED BY ONLY <2>4 DEF Map!MapNext
<1>2. ASSUME NEW k \in Keys, RemoveKey(k) PROVE Map!MapNext
  <2>1. Drops(nodes', nodes, k)
    BY <1>2, RemoveStep
  <2> DEFINE S == Stored(nodes)
             T == Stored(nodes')
  <2>2. k \in S /\ T = S \ {k}
    BY ONLY <2>1 DEF Drops
  <2> HIDE DEF S, T
  <2>3. MapOf(T) \in Map!AfterRemove(MapOf(S))
    BY ONLY <2>2, MapDrops
  <2>4. Found' \in Map!AfterRemove(Found)
    BY ONLY <2>3, <1>0 DEF S, T
  <2> QED BY ONLY <2>4 DEF Map!MapNext
<1>3. ASSUME UNCHANGED vars PROVE Found' = Found
  <2>1. nodes' = nodes
    BY <1>3 DEF vars
  <2> QED BY ONLY <2>1, <1>0
<1> QED BY <1>1, <1>2, <1>3 DEF Next

\* Seen through search, the tree is the map that btree_index.hpp promises: an
\* insert adds its key, a remove takes it away, and no split or climb loses,
\* moves or finds again any other key.
THEOREM RefinesMap == Spec /\ []ThreeLevels => RefinesKeyMap
<1>1. Init => Map!MapInit
  <2> SUFFICES ASSUME Init PROVE Found = <<>>
    BY DEF Map!MapInit
  <2>1. Found = MapOf({})
    BY InitOK, FoundNow
  <2>2. MapOf({}) = <<>>
    BY DEF MapOf
  <2> QED BY ONLY <2>1, <2>2
<1> QED BY <1>1, Holds, MapStep, PTL DEF Spec, RefinesKeyMap, Map!MapSpec

-----------------------------------------------------------------------------
(* What a scan returns.                                                    *)

\* res holds the record ids of the keys W in order.
Lists(res, W) ==
    \E z \in Seq(Int) : /\ Sorted(z) /\ res \in Seq(Nat) /\ Len(res) = Len(z)
                        /\ \A j \in 1 .. Len(z) : res[j] = RidOf[z[j]]
                        /\ \A k : InSeq(z, k) <=> k \in W

LEMMA PartLists ==
  ASSUME NEW n, Entries(n), NEW m \in 1 .. Len(n.keys) + 1, NEW e \in 0 .. Len(n.keys), m <= e + 1,
         NEW W, \A k : k \in W <=> \E j \in m .. e : n.keys[j] = k
  PROVE  Lists(SubSeq(n.refs, m, e), W)
<1> DEFINE h == LeafPart(n, m, e, 0)
<1>1. IsPart(h, n, m, e, 0)
  BY PartOfLeaf
<1>2. h.refs = SubSeq(n.refs, m, e)
  BY DEF LeafPart
<1> HIDE DEF h
<1>3. Entries(h) /\ \A x : InSeq(h.keys, x) <=> \E j \in m .. e : n.keys[j] = x
  BY ONLY <1>1 DEF IsPart
<1>4. /\ h.keys \in Seq(Int) /\ h.refs \in Seq(Nat) /\ Len(h.refs) = Len(h.keys) /\ Sorted(h.keys)
      /\ \A j \in 1 .. Len(h.keys) : h.refs[j] = RidOf[h.keys[j]]
  BY ONLY <1>3, EntriesFacts
<1>5. \A x : InSeq(h.keys, x) <=> x \in W
  BY ONLY <1>3, \A k : k \in W <=> \E j \in m .. e : n.keys[j] = k
<1>6. Lists(h.refs, W)
  BY ONLY <1>4, <1>5 DEF Lists
<1> QED BY ONLY <1>2, <1>6

LEMMA JoinLists ==
  ASSUME NEW x, NEW V, Lists(x, V), NEW y, NEW W, Lists(y, W), \A k \in V : \A l \in W : k < l
  PROVE  Lists(x \o y, V \cup W)
<1>1. PICK a \in Seq(Int) : /\ Sorted(a) /\ x \in Seq(Nat) /\ Len(x) = Len(a)
                            /\ \A j \in 1 .. Len(a) : x[j] = RidOf[a[j]]
                            /\ \A k : InSeq(a, k) <=> k \in V
  BY DEF Lists
<1>2. PICK b \in Seq(Int) : /\ Sorted(b) /\ y \in Seq(Nat) /\ Len(y) = Len(b)
                            /\ \A j \in 1 .. Len(b) : y[j] = RidOf[b[j]]
                            /\ \A k : InSeq(b, k) <=> k \in W
  BY DEF Lists
<1>3. PICK c \in Seq(Int) : Join(c, a, b)
  BY JoinFacts
<1>4. PICK z \in Seq(Nat) : Join(z, x, y)
  BY <1>1, <1>2, JoinFacts
<1>5. Len(a) \in Nat /\ Len(b) \in Nat
  OBVIOUS
<1>6. /\ Len(c) = Len(a) + Len(b)
      /\ \A j \in 1 .. Len(a) : c[j] = a[j]
      /\ \A j \in 1 .. Len(b) : c[j + Len(a)] = b[j]
  BY ONLY <1>3 DEF Join
<1>7. /\ z = x \o y /\ Len(z) = Len(a) + Len(b)
      /\ \A j \in 1 .. Len(a) : z[j] = x[j]
      /\ \A j \in 1 .. Len(b) : z[j + Len(a)] = y[j]
  BY ONLY <1>1, <1>2, <1>4 DEF Join
<1>8. \A j \in 1 .. Len(c) : \/ j \in 1 .. Len(a)
                             \/ j - Len(a) \in 1 .. Len(b) /\ (j - Len(a)) + Len(a) = j /\ j > Len(a)
  BY ONLY <1>5, <1>6
<1>9. Sorted(c)
  <2>1. SUFFICES ASSUME NEW i \in 1 .. Len(c), NEW j \in 1 .. Len(c), i < j PROVE c[i] < c[j]
    BY DEF Sorted
  <2>2. CASE j \in 1 .. Len(a)
    <3>1. i \in 1 .. Len(a)
      BY ONLY <2>1, <2>2, <1>5, <1>6
    <3> QED BY ONLY <3>1, <2>1, <2>2, <1>1, <1>6 DEF Sorted
  <2>3. CASE i \in 1 .. Len(a) /\ j - Len(a) \in 1 .. Len(b) /\ (j - Len(a)) + Len(a) = j
    <3>1. c[i] = a[i] /\ c[j] = b[j - Len(a)]
      BY ONLY <2>3, <1>6
    <3>2. a[i] \in V /\ b[j - Len(a)] \in W
      <4>1. InSeq(a, a[i]) /\ InSeq(b, b[j - Len(a)])
        BY ONLY <2>3 DEF InSeq
      <4> QED BY ONLY <4>1, <1>1, <1>2
    <3> QED BY ONLY <3>1, <3>2, \A k \in V : \A l \in W : k < l
  <2>4. CASE /\ i - Len(a) \in 1 .. Len(b) /\ (i - Len(a)) + Len(a) = i
             /\ j - Len(a) \in 1 .. Len(b) /\ (j - Len(a)) + Len(a) = j
    <3>1. c[i] = b[i - Len(a)] /\ c[j] = b[j - Len(a)]
      BY ONLY <2>4, <1>6
    <3>2. i - Len(a) < j - Len(a)
      BY ONLY <2>1, <1>5, <1>6
    <3> QED BY ONLY <3>1, <3>2, <2>4, <1>2 DEF Sorted
  <2>5. i \in 1 .. Len(a) \/ (i - Len(a) \in 1 .. Len(b) /\ (i - Len(a)) + Len(a) = i)
    BY ONLY <2>1, <1>8
  <2>6. j \in 1 .. Len(a) \/ (j - Len(a) \in 1 .. Len(b) /\ (j - Len(a)) + Len(a) = j)
    BY ONLY <2>1, <1>8
  <2> QED BY ONLY <2>2, <2>3, <2>4, <2>5, <2>6
<1>10. \A j \in 1 .. Len(c) : z[j] = RidOf[c[j]]
  <2>1. SUFFICES ASSUME NEW j \in 1 .. Len(c) PROVE z[j] = RidOf[c[j]]
    OBVIOUS
  <2>2. CASE j \in 1 .. Len(a)
    BY ONLY <2>2, <1>1, <1>6, <1>7
  <2>3. CASE j - Len(a) \in 1 .. Len(b) /\ (j - Len(a)) + Len(a) = j
    <3>1. c[j] = b[j - Len(a)] /\ z[j] = y[j - Len(a)]
      BY ONLY <2>3, <1>6, <1>7
    <3> QED BY ONLY <3>1, <2>3, <1>2
  <2> QED BY ONLY <2>1, <2>2, <2>3, <1>8
<1>11. \A k : InSeq(c, k) <=> k \in V \cup W
  <2>1. ASSUME NEW k, InSeq(c, k) PROVE k \in V \cup W
    <3>1. PICK j \in 1 .. Len(c) : c[j] = k
      BY ONLY <2>1 DEF InSeq
    <3>2. CASE j \in 1 .. Len(a)
      <4>1. InSeq(a, k)
        BY ONLY <3>1, <3>2, <1>6 DEF InSeq
      <4> QED BY ONLY <4>1, <1>1
    <3>3. CASE j - Len(a) \in 1 .. Len(b) /\ (j - Len(a)) + Len(a) = j
      <4>1. c[j] = b[j - Len(a)]
        BY ONLY <3>3, <1>6
      <4>2. InSeq(b, k)
        BY ONLY <4>1, <3>1, <3>3 DEF InSeq
      <4> QED BY ONLY <4>2, <1>2
    <3> QED BY ONLY <3>2, <3>3, <1>8, j \in 1 .. Len(c)
  <2>2. ASSUME NEW k, k \in V PROVE InSeq(c, k)
    <3>1. PICK j \in 1 .. Len(a) : a[j] = k
      BY ONLY <2>2, <1>1 DEF InSeq
    <3>2. j \in 1 .. Len(c)
      BY ONLY <1>5, <1>6, j \in 1 .. Len(a)
    <3> QED BY ONLY <3>1, <3>2, <1>6 DEF InSeq
  <2>3. ASSUME NEW k, k \in W PROVE InSeq(c, k)
    <3>1. PICK j \in 1 .. Len(b) : b[j] = k
      BY ONLY <2>3, <1>2 DEF InSeq
    <3>2. j + Len(a) \in 1 .. Len(c)
      BY ONLY <1>5, <1>6, j \in 1 .. Len(b)
    <3> QED BY ONLY <3>1, <3>2, <1>6 DEF InSeq
  <2> QED BY ONLY <2>1, <2>2, <2>3
<1>12. Lists(z, V \cup W)
  BY ONLY <1>6, <1>7, <1>9, <1>10, <1>11, c \in Seq(Int), z \in Seq(Nat) DEF Lists
<1> QED BY ONLY <1>7, <1>12

\* In numbers.
LEMMA SortedCount ==
  ASSUME NEW z \in Seq(Int), Sorted(z), NEW n \in 0 .. Len(z),
         NEW W, \A k : k \in W <=> \E i \in 1 .. n : z[i] = k
  PROVE  Cardinality(W) = n
<1> DEFINE F == [i \in 1 .. n |-> z[i]]
<1>0. n \in Nat /\ n \in Int /\ 1 \in Int /\ \A i \in 1 .. n : i \in 1 .. Len(z) /\ z[i] \in Int
  OBVIOUS
<1>1. F \in [1 .. n -> W] /\ \A i \in 1 .. n : F[i] = z[i]
  OBVIOUS
<1> HIDE DEF F
<1>2. \A i, j \in 1 .. n : F[i] = F[j] => i = j
  <2>1. SUFFICES ASSUME NEW i \in 1 .. n, NEW j \in 1 .. n, F[i] = F[j] PROVE i = j
    OBVIOUS
  <2>2. ~(z[i] < z[j]) /\ ~(z[j] < z[i])
    BY ONLY <2>1, <1>0, <1>1
  <2>3. ~(i < j) /\ ~(j < i)
    BY ONLY <2>2, <1>0, Sorted(z), i \in 1 .. n, j \in 1 .. n DEF Sorted
  <2> QED BY ONLY <2>3, i \in 1 .. n, j \in 1 .. n
<1>3. \A k \in W : \E i \in 1 .. n : F[i] = k
  BY ONLY <1>1, \A k : k \in W <=> \E i \in 1 .. n : z[i] = k
<1>4. DOMAIN F = 1 .. n
  BY ONLY <1>1
<1>5. F \in Bijection(1 .. n, W)
  BY ONLY <1>1, <1>2, <1>3, <1>4 DEF Bijection, Injection, Surjection, IsInjective
<1>6. ExistsBijection(1 .. n, W)
  BY ONLY <1>5 DEF ExistsBijection
<1>7. IsFiniteSet(1 .. n) /\ Cardinality(1 .. n) = IF 1 > n THEN 0 ELSE n - 1 + 1
  BY ONLY <1>0, FS_Interval
<1>8. Cardinality(1 .. n) = n
  BY ONLY <1>0, <1>7
<1> QED BY ONLY <1>6, <1>7, <1>8, FS_Bijection

LEMMA ListsExact ==
  ASSUME NEW res, NEW W, Lists(res, W)
  PROVE  /\ Len(res) = Cardinality(W)
         /\ \A k \in W : res[Cardinality({x \in W : x <= k})] = RidOf[k]
<1>1. PICK z \in Seq(Int) : /\ Sorted(z) /\ Len(res) = Len(z)
                            /\ \A j \in 1 .. Len(z) : res[j] = RidOf[z[j]]
                            /\ \A k : InSeq(z, k) <=> k \in W
  BY DEF Lists
<1>2. Len(z) \in Nat /\ \A j \in 1 .. Len(z) : z[j] \in Int
  OBVIOUS
<1>3. \A k : k \in W <=> \E i \in 1 .. Len(z) : z[i] = k
  BY ONLY <1>1 DEF InSeq
<1>4. Cardinality(W) = Len(z)
  <2>1. Len(z) \in 0 .. Len(z)
    BY ONLY <1>2
  <2> QED BY ONLY <2>1, <1>1, <1>3, SortedCount
<1>5. ASSUME NEW k \in W PROVE res[Cardinality({x \in W : x <= k})] = RidOf[k]
  <2>1. PICK j \in 1 .. Len(z) : z[j] = k
    BY ONLY <1>3, <1>5
  <2> DEFINE V == {x \in W : x <= k}
  <2>2. \A i \in 1 .. Len(z) : z[i] <= k <=> i <= j
    <3>1. SUFFICES ASSUME NEW i \in 1 .. Len(z) PROVE z[i] <= k <=> i <= j
      OBVIOUS
    <3>2. (i < j => z[i] < z[j]) /\ (j < i => z[j] < z[i])
      BY ONLY <3>1, <1>1, j \in 1 .. Len(z) DEF Sorted
    <3>3. z[i] \in Int /\ z[j] \in Int /\ i \in Int /\ j \in Int
      BY ONLY <3>1, <1>2, j \in 1 .. Len(z)
    <3> QED BY ONLY <3>2, <3>3, <2>1
  <2>3. \A x : x \in V <=> \E i \in 1 .. j : z[i] = x
    <3>1. \A i \in 1 .. j : i \in 1 .. Len(z) /\ i <= j
      BY ONLY <1>2, j \in 1 .. Len(z)
    <3>2. \A i \in 1 .. Len(z) : i <= j => i \in 1 .. j
      BY ONLY <1>2, j \in 1 .. Len(z)
    <3> QED BY ONLY <3>1, <3>2, <2>2, <1>3
  <2>4. Cardinality(V) = j
    <3>1. j \in 0 .. Len(z)
      BY ONLY <1>2, j \in 1 .. Len(z)
    <3> HIDE DEF V
    <3> QED BY ONLY <3>1, <2>3, <1>1, SortedCount
  <2> QED BY ONLY <2>1, <2>4, <1>1
<1> QED BY ONLY <1>1, <1>4, <1>5

-----------------------------------------------------------------------------
(* The scan.                                                               *)

\* Where the scan enters a node, the entries beyond its end, and what it
\* returns from n on when x is what the nodes behind n give.
From(n, b) == KeyIndex(n.keys, b) + 1
Past(n, b, e) == {i \in From(n, b) .. Len(n.keys) : n.keys[i] > e}
ScanStep(n, b, e, x) ==
    IF Past(n, b, e) = {}
    THEN SubSeq(n.refs, From(n, b), Len(n.refs)) \o x
    ELSE SubSeq(n.refs, From(n, b), (CHOOSE i \in Past(n, b, e) : \A j \in Past(n, b, e) : i <= j) - 1)

LEMMA StepLists ==
  ASSUME NEW n, Entries(n), NEW b \in Int, NEW e \in Int, NEW x, NEW W \in SUBSET Int, Lists(x, W),
         \A k \in W : k <= e /\ \A j \in 1 .. Len(n.keys) : n.keys[j] < k,
         NEW V, V = {k \in Keys : b <= k /\ k <= e /\ InSeq(n.keys, k)}
  PROVE  Lists(ScanStep(n, b, e, x), V \cup W)
<1> DEFINE m == From(n, b)
           P == Past(n, b, e)
           len == Len(n.keys)
<1>1. /\ n.keys \in Seq(Int) /\ Sorted(n.keys) /\ len \in Nat /\ Len(n.refs) = len
      /\ \A j \in 1 .. len : n.keys[j] \in Int /\ n.keys[j] \in Keys
  BY EntriesFacts
<1>2. LowerBound(n.keys, b, m - 1) /\ m \in Int
  <2> DEFINE i == KeyIndex(n.keys, b)
  <2>1. LowerBound(n.keys, b, i)
    BY <1>1, KeyIndexFacts
  <2>2. m = i + 1
    BY DEF From
  <2> HIDE DEF i, m
  <2>3. i \in Int /\ i = m - 1 /\ m \in Int
    BY ONLY <1>1, <2>1, <2>2 DEF LowerBound
  <2> QED BY ONLY <2>1, <2>3
<1>3. P = {i \in m .. len : n.keys[i] > e}
  BY DEF Past
<1>4. ScanStep(n, b, e, x) = IF P = {} THEN SubSeq(n.refs, m, len) \o x
                             ELSE SubSeq(n.refs, m, (CHOOSE i \in P : \A j \in P : i <= j) - 1)
  BY ONLY <1>1 DEF ScanStep
<1> HIDE DEF m, P, len
<1>5. /\ m \in 1 .. len + 1
      /\ \A j \in 1 .. len : j < m => n.keys[j] < b
      /\ \A j \in 1 .. len : m <= j => b <= n.keys[j]
  <2>1. /\ m - 1 \in 0 .. len
        /\ \A j \in 1 .. m - 1 : n.keys[j] < b
        /\ \A j \in (m - 1) + 1 .. len : b <= n.keys[j]
    BY ONLY <1>2 DEF LowerBound, len
  <2>2. \A j \in 1 .. len : (j < m => j \in 1 .. m - 1) /\ (m <= j => j \in (m - 1) + 1 .. len)
    BY ONLY <1>1, <1>2
  <2>3. m \in 1 .. len + 1
    BY ONLY <1>1, <1>2, <2>1
  <2> QED BY ONLY <2>1, <2>2, <2>3
<1>6. CASE P = {}
  <2>1. \A k : k \in V <=> \E j \in m .. len : n.keys[j] = k
    <3>1. ASSUME NEW k \in V PROVE \E j \in m .. len : n.keys[j] = k
      <4>1. PICK j \in 1 .. len : n.keys[j] = k /\ b <= k
        BY DEF InSeq, len
      <4>2. ~(j < m)
        BY ONLY <4>1, <1>1, <1>5, b \in Int, j \in 1 .. len
      <4>3. j \in m .. len
        BY ONLY <4>2, <1>1, <1>2, j \in 1 .. len
      <4> QED BY ONLY <4>1, <4>3
    <3>2. ASSUME NEW j \in m .. len PROVE n.keys[j] \in V
      <4>1. j \in 1 .. len /\ m <= j
        BY ONLY <1>1, <1>5, <3>2
      <4>2. ~(n.keys[j] > e)
        BY ONLY <1>3, <1>6, <3>2
      <4>3. n.keys[j] \in Keys /\ n.keys[j] <= e /\ b <= n.keys[j]
        BY ONLY <4>1, <4>2, <1>1, <1>5, e \in Int
      <4>4. InSeq(n.keys, n.keys[j])
        BY ONLY <4>1 DEF InSeq, len
      <4> QED BY ONLY <4>3, <4>4, V = {k \in Keys : b <= k /\ k <= e /\ InSeq(n.keys, k)}
    <3> QED BY ONLY <3>1, <3>2
  <2>2. len \in 0 .. len /\ m <= len + 1
    BY ONLY <1>1, <1>5
  <2>3. Lists(SubSeq(n.refs, m, len), V)
    BY ONLY <2>1, <2>2, <1>5, Entries(n), PartLists DEF len
  <2>4. \A k \in V : \A l \in W : k < l
    <3>1. \A k \in V : \E j \in 1 .. len : n.keys[j] = k
      BY DEF InSeq, len
    <3>2. \A l \in W : \A j \in 1 .. len : n.keys[j] < l
      BY DEF len
    <3> QED BY ONLY <3>1, <3>2
  <2>5. Lists(SubSeq(n.refs, m, len) \o x, V \cup W)
    BY ONLY <2>3, <2>4, Lists(x, W), JoinLists
  <2> QED BY ONLY <2>5, <1>4, <1>6
<1>7. CASE P # {}
  <2>1. P \in SUBSET Nat
    BY ONLY <1>1, <1>3, <1>5
  <2>2. \E i \in P : \A j \in P : i <= j
    BY ONLY <2>1, <1>7, LeastNat
  <2> DEFINE c == CHOOSE i \in P : \A j \in P : i <= j
  <2>3. c \in P /\ \A j \in P : c <= j
    BY ONLY <2>2
  <2>4. ScanStep(n, b, e, x) = SubSeq(n.refs, m, c - 1)
    BY ONLY <1>4, <1>7
  <2> HIDE DEF c
  <2>5. c \in m .. len /\ c \in 1 .. len /\ n.keys[c] > e /\ n.keys[c] \in Int
    BY ONLY <2>3, <1>1, <1>3, <1>5
  <2>6. W = {}
    <3>1. ASSUME NEW k \in W PROVE FALSE
      <4>1. k \in Int /\ k <= e /\ n.keys[c] < k
        BY ONLY <2>5, <3>1, W \in SUBSET Int, \A l \in W : l <= e /\ \A j \in 1 .. Len(n.keys) : n.keys[j] < l DEF len
      <4> QED BY ONLY <4>1, <2>5, e \in Int
    <3> QED BY ONLY <3>1
  <2>7. \A k : k \in V <=> \E j \in m .. c - 1 : n.keys[j] = k
    <3>1. ASSUME NEW k \in V PROVE \E j \in m .. c - 1 : n.keys[j] = k
      <4>1. PICK j \in 1 .. len : n.keys[j] = k /\ b <= k /\ k <= e
        BY DEF InSeq, len
      <4>2. ~(j < m)
        BY ONLY <4>1, <1>1, <1>5, b \in Int, j \in 1 .. len
      <4>3. c < j => n.keys[c] < n.keys[j]
        BY ONLY <2>5, <1>1, j \in 1 .. len DEF Sorted, len
      <4>4. j < c
        BY ONLY <4>1, <4>3, <2>5, <1>1, e \in Int, j \in 1 .. len
      <4>5. j \in m .. c - 1
        BY ONLY <4>2, <4>4, <2>5, <1>2, j \in 1 .. len
      <4> QED BY ONLY <4>1, <4>5
    <3>2. ASSUME NEW j \in m .. c - 1 PROVE n.keys[j] \in V
      <4>1. j \in m .. len /\ j \in 1 .. len /\ m <= j /\ ~(c <= j)
        BY ONLY <1>1, <1>5, <2>5, <3>2
      <4>2. ~(n.keys[j] > e)
        BY ONLY <4>1, <2>3, <1>3
      <4>3. n.keys[j] \in Keys /\ n.keys[j] <= e /\ b <= n.keys[j]
        BY ONLY <4>1, <4>2, <1>1, <1>5, e \in Int
      <4>4. InSeq(n.keys, n.keys[j])
        BY ONLY <4>1 DEF InSeq, len
      <4> QED BY ONLY <4>3, <4>4, V = {k \in Keys : b <= k /\ k <= e /\ InSeq(n.keys, k)}
    <3> QED BY ONLY <3>1, <3>2
  <2>8. c - 1 \in 0 .. len /\ m <= (c - 1) + 1
    BY ONLY <2>5, <1>1, <1>5
  <2>9. Lists(SubSeq(n.refs, m, c - 1), V)
    BY ONLY <2>7, <2>8, <1>5, Entries(n), PartLists DEF len
  <2>10. V \cup W = V
    BY ONLY <2>6
  <2> QED BY ONLY <2>4, <2>9, <2>10
<1> QED BY ONLY <1>6, <1>7

\* The recursion of RangeScan.
ScanAt(f, ns, b, e, p) == IF p = 0 THEN <<>> ELSE ScanStep(ns[p], b, e, f[ns[p].next])
IsScan(f, ns, b, e) == f = [p \in 0 .. Len(ns) |-> ScanAt(f, ns, b, e, p)]

\* f is right at the leaves behind the first i of the chain.
ScanFrom(f, ns, b, e, s, i) ==
    /\ f = [p \in 0 .. Len(ns) |-> f[p]]
    /\ \A p \in 0 .. Len(ns) :
           (\A j \in 1 .. Len(s) : s[j] = p => i < j) => f[p] = ScanAt(f, ns, b, e, p)

LEMMA ScanBack ==
  ASSUME NEW ns, Len(ns) \in Nat, NEW s, Chain(ns, s), NEW b, NEW e, NEW f, NEW i \in 1 .. Len(s),
         ScanFrom(f, ns, b, e, s, i)
  PROVE  \E h : ScanFrom(h, ns, b, e, s, i - 1)
<1> DEFINE D == 0 .. Len(ns)
           q == s[i]
           h == [f EXCEPT ![q] = ScanAt(f, ns, b, e, q)]
<1>1. /\ Len(s) \in Nat /\ \A x, y \in 1 .. Len(s) : s[x] = s[y] => x = y
      /\ \A j \in 1 .. Len(s) : /\ s[j] \in 1 .. Len(ns) /\ ns[s[j]].leaf
                                /\ ns[s[j]].next = IF j < Len(s) THEN s[j + 1] ELSE 0
      /\ \A p \in 1 .. Len(ns) : IF ns[p].leaf THEN InSeq(s, p) ELSE ns[p].next = 0
  BY DEF Chain, Distinct
<1>2. /\ f = [p \in D |-> f[p]]
      /\ \A p \in D : (\A j \in 1 .. Len(s) : s[j] = p => i < j) => f[p] = ScanAt(f, ns, b, e, p)
  BY DEF ScanFrom
<1>3. q \in 1 .. Len(ns) /\ q \in D /\ q # 0 /\ q = s[i]
  <2>1. q \in 1 .. Len(ns) /\ q = s[i]
    BY ONLY <1>1, i \in 1 .. Len(s)
  <2> HIDE DEF q
  <2> QED BY ONLY <2>1, Len(ns) \in Nat
<1> HIDE DEF q
<1>4. /\ h = [p \in D |-> h[p]] /\ h[q] = ScanAt(f, ns, b, e, q)
      /\ \A p \in D : p # q => h[p] = f[p]
  <2>1. h = [p \in D |-> IF p = q THEN ScanAt(f, ns, b, e, q) ELSE f[p]]
    BY ONLY <1>2, <1>3
  <2> HIDE DEF h
  <2> QED BY ONLY <2>1, <1>3
<1> HIDE DEF h
\* What comes behind a leaf that is done, or q, is not q.
<1>5. ASSUME NEW p \in D, p # 0, \A j \in 1 .. Len(s) : s[j] = p => i - 1 < j
      PROVE  ns[p].next \in D /\ ns[p].next # q
  <2>1. p \in 1 .. Len(ns)
    BY ONLY <1>5, Len(ns) \in Nat
  <2>2. CASE ~ns[p].leaf
    <3>1. ns[p].next = 0
      BY ONLY <2>1, <2>2, <1>1
    <3> QED BY ONLY <3>1, <1>3, Len(ns) \in Nat
  <2>3. CASE ns[p].leaf
    <3>1. PICK j \in 1 .. Len(s) : s[j] = p
      BY ONLY <2>1, <2>3, <1>1 DEF InSeq
    <3>2. i - 1 < j /\ ns[p].next = IF j < Len(s) THEN s[j + 1] ELSE 0
      BY ONLY <3>1, <1>1, <1>5
    <3>3. CASE j < Len(s)
      <4>1. j + 1 \in 1 .. Len(s) /\ j + 1 # i
        BY ONLY <3>2, <3>3, <1>1, j \in 1 .. Len(s), i \in 1 .. Len(s)
      <4>2. s[j + 1] # q
        BY ONLY <4>1, <1>1, <1>3, i \in 1 .. Len(s)
      <4>3. s[j + 1] \in 1 .. Len(ns)
        BY ONLY <4>1, <1>1
      <4>4. s[j + 1] \in D
        BY ONLY <4>3, Len(ns) \in Nat
      <4> QED BY ONLY <3>2, <3>3, <4>2, <4>4
    <3>4. CASE ~(j < Len(s))
      BY ONLY <3>2, <3>4, <1>3, Len(ns) \in Nat
    <3> QED BY ONLY <3>3, <3>4
  <2> QED BY ONLY <2>2, <2>3
<1>6. ASSUME NEW p \in D, \A j \in 1 .. Len(s) : s[j] = p => i - 1 < j
      PROVE  h[p] = ScanAt(h, ns, b, e, p)
  <2>1. p # 0 => h[ns[p].next] = f[ns[p].next]
    BY ONLY <1>4, <1>5, <1>6
  <2>2. ScanAt(h, ns, b, e, p) = ScanAt(f, ns, b, e, p)
    BY ONLY <2>1 DEF ScanAt
  <2>3. CASE p = q
    BY ONLY <2>2, <2>3, <1>4
  <2>4. CASE p # q
    <3>1. ASSUME NEW j \in 1 .. Len(s), s[j] = p PROVE i < j
      <4>1. j # i /\ i - 1 < j
        BY ONLY <3>1, <2>4, <1>3, <1>6
      <4> QED BY ONLY <4>1, j \in 1 .. Len(s), i \in 1 .. Len(s), <1>1
    <3>2. f[p] = ScanAt(f, ns, b, e, p)
      BY ONLY <3>1, <1>2, <1>6
    <3> QED BY ONLY <3>2, <2>2, <2>4, <1>4, <1>6
  <2> QED BY ONLY <2>3, <2>4
<1>7. ScanFrom(h, ns, b, e, s, i - 1)
  BY ONLY <1>4, <1>6 DEF ScanFrom
<1> QED BY ONLY <1>7

\* Such a function exists, as the chain ends.
LEMMA ScanExists ==
  ASSUME NEW ns, Len(ns) \in Nat, NEW s, Chain(ns, s), NEW b, NEW e
  PROVE  \E f : IsScan(f, ns, b, e)
<1> DEFINE D == 0 .. Len(ns)
           R(i) == \E f : ScanFrom(f, ns, b, e, s, i)
           T == {i \in 0 .. Len(s) : R(i)}
<1>1. Len(s) \in Nat
  BY DEF Chain
<1>2. R(Len(s))
  <2> DEFINE f == [p \in D |-> IF p = 0 THEN <<>> ELSE ScanStep(ns[p], b, e, <<>>)]
  <2>1. f = [p \in D |-> f[p]] /\ \A p \in D : f[p] = IF p = 0 THEN <<>> ELSE ScanStep(ns[p], b, e, <<>>)
    OBVIOUS
  <2>2. 0 \in D
    BY Len(ns) \in Nat
  <2> HIDE DEF f
  <2>3. f[0] = <<>>
    BY ONLY <2>1, <2>2
  <2>4. ASSUME NEW p \in D, \A j \in 1 .. Len(s) : s[j] = p => Len(s) < j PROVE f[p] = ScanAt(f, ns, b, e, p)
    <3>1. CASE p = 0
      BY ONLY <3>1, <2>3 DEF ScanAt
    <3>2. CASE p # 0
      <4>1. p \in 1 .. Len(ns)
        BY ONLY <2>4, <3>2, Len(ns) \in Nat
      <4>2. ~InSeq(s, p)
        <5>1. \A j \in 1 .. Len(s) : ~(Len(s) < j)
          BY ONLY <1>1
        <5> QED BY ONLY <5>1, <2>4 DEF InSeq
      <4>3. ns[p].next = 0
        BY ONLY <4>1, <4>2, Chain(ns, s) DEF Chain
      <4>4. f[p] = ScanStep(ns[p], b, e, <<>>)
        BY ONLY <2>1, <2>4, <3>2
      <4> QED BY ONLY <3>2, <4>3, <4>4, <2>3 DEF ScanAt
    <3> QED BY ONLY <3>1, <3>2
  <2>5. ScanFrom(f, ns, b, e, s, Len(s))
    BY ONLY <2>1, <2>4 DEF ScanFrom
  <2> QED BY ONLY <2>5
<1>3. \A i \in 1 .. Len(s) : R(i) => R(i - 1)
  BY ScanBack
<1> HIDE DEF R
<1>4. T \in SUBSET Nat /\ T # {}
  <2>1. Len(s) \in T
    BY ONLY <1>1, <1>2
  <2> QED BY ONLY <2>1, <1>1
<1>5. PICK i \in T : \A j \in T : i <= j
  BY ONLY <1>4, LeastNat
<1>6. i = 0
  <2>1. SUFFICES ASSUME i # 0 PROVE FALSE
    OBVIOUS
  <2>2. i \in 1 .. Len(s) /\ R(i) /\ i - 1 \in 0 .. Len(s) /\ ~(i <= i - 1)
    BY ONLY <2>1, <1>1, i \in T
  <2>3. i - 1 \in T
    BY ONLY <2>2, <1>3
  <2> QED BY ONLY <2>2, <2>3, <1>5
<1>7. R(0)
  BY ONLY <1>6, i \in T
<1>8. PICK f : ScanFrom(f, ns, b, e, s, 0)
  BY ONLY <1>7 DEF R
<1>9. /\ f = [p \in D |-> f[p]]
      /\ \A p \in D : (\A j \in 1 .. Len(s) : s[j] = p => 0 < j) => f[p] = ScanAt(f, ns, b, e, p)
  BY ONLY <1>8 DEF ScanFrom
<1>10. \A j \in 1 .. Len(s) : 0 < j
  BY ONLY <1>1
<1>11. \A p \in D : f[p] = ScanAt(f, ns, b, e, p)
  BY ONLY <1>9, <1>10
<1>12. f = [p \in D |-> ScanAt(f, ns, b, e, p)]
  BY ONLY <1>9, <1>11
<1> QED BY ONLY <1>12 DEF IsScan

\* The keys in b .. e of the i-th leaf of the chain and of those behind it.
Ahead(ns, s, b, e, i) ==
    {k \in Keys : b <= k /\ k <= e /\ \E j \in i .. Len(s) : InSeq(ns[s[j]].keys, k)}

\* s is the chain of leaves, in the order of the keys.
InOrder(ns, rt, s) ==
    /\ Chain(ns, s)
    /\ \A i, j \in 1 .. Len(s) : \A x, y \in Int :
           i < j /\ Path(ns, rt, x, s[i]) /\ Path(ns, rt, y, s[j]) => x < y

\* From any leaf on, the scan returns what the leaves from there on hold.
LEMMA ScanLists ==
  ASSUME NEW ns, NEW rt, Shape(ns, rt, 0), Order(ns), NEW s, InOrder(ns, rt, s),
         NEW b \in Int, NEW e \in Int, NEW f, IsScan(f, ns, b, e), NEW i \in 1 .. Len(s)
  PROVE  Lists(f[s[i]], Ahead(ns, s, b, e, i))
<1> DEFINE A(j) == Ahead(ns, s, b, e, j)
           G(j) == Lists(f[s[j]], A(j))
           L == Len(s)
           T == {n \in 0 .. L - 1 : ~G(L - n)}
<1>1. /\ L \in Nat
      /\ \A j \in 1 .. L : /\ s[j] \in 1 .. Len(ns) /\ ns[s[j]].leaf
                           /\ ns[s[j]].next = IF j < L THEN s[j + 1] ELSE 0
  BY DEF InOrder, Chain
<1>2. Len(ns) \in Nat
  BY DEF Shape
<1>3. \A p \in 0 .. Len(ns) : f[p] = IF p = 0 THEN <<>> ELSE ScanStep(ns[p], b, e, f[ns[p].next])
  <2>1. f = [p \in 0 .. Len(ns) |-> ScanAt(f, ns, b, e, p)]
    BY DEF IsScan
  <2>2. \A p \in 0 .. Len(ns) : f[p] = ScanAt(f, ns, b, e, p)
    BY ONLY <2>1
  <2> QED BY ONLY <2>2 DEF ScanAt
<1>4. Lists(f[0], {})
  <2>1. f[0] = <<>>
    <3>1. 0 \in 0 .. Len(ns)
      BY ONLY <1>2
    <3> QED BY ONLY <3>1, <1>3
  <2> DEFINE z == <<>>
  <2>2. z \in Seq(Int) /\ z \in Seq(Nat) /\ Len(z) = 0
    OBVIOUS
  <2> HIDE DEF z
  <2>3. \A j \in 1 .. Len(z) : FALSE
    BY ONLY <2>2
  <2>4. Sorted(z) /\ \A k : ~InSeq(z, k)
    BY ONLY <2>3 DEF Sorted, InSeq
  <2>5. \A k : InSeq(z, k) <=> k \in {}
    BY ONLY <2>4
  <2>6. \A j \in 1 .. Len(z) : z[j] = RidOf[z[j]]
    BY ONLY <2>3
  <2>7. Lists(z, {})
    BY ONLY <2>2, <2>4, <2>5, <2>6 DEF Lists
  <2> QED BY ONLY <2>1, <2>7 DEF z
<1>5. ASSUME NEW j \in 1 .. L, NEW W, Lists(f[ns[s[j]].next], W), A(j + 1) = W PROVE G(j)
  <2> DEFINE n == ns[s[j]]
             V == {k \in Keys : b <= k /\ k <= e /\ InSeq(n.keys, k)}
  <2>1. Entries(n) /\ s[j] \in 1 .. Len(ns) /\ n.leaf
    BY <1>1, LeafEntries
  <2>2. \A k \in Keys : k \in Int
    BY ONLY Capacities
  <2>3. W \in SUBSET Int /\ \A k \in W : k <= e
    <3>1. \A k \in A(j + 1) : k \in Keys /\ k <= e
      BY ONLY TRUE DEF Ahead
    <3> QED BY ONLY <3>1, <2>2, <1>5
  <2>4. ASSUME NEW k \in W, NEW m \in 1 .. Len(n.keys) PROVE n.keys[m] < k
    <3>1. PICK g \in j + 1 .. L : InSeq(ns[s[g]].keys, k)
      BY <1>5, <2>4 DEF Ahead
    <3>2. g \in 1 .. L /\ j < g
      BY ONLY <1>1, j \in 1 .. L, g \in j + 1 .. L
    <3>3. k \in Int /\ n.keys[m] \in Int /\ InSeq(n.keys, n.keys[m])
      <4>1. n.keys[m] \in Int
        BY ONLY <2>1, <2>4, EntriesFacts
      <4> QED BY ONLY <4>1, <2>3, <2>4 DEF InSeq
    <3>4. s[g] \in 1 .. Len(ns) /\ ns[s[g]].leaf
      BY ONLY <3>2, <1>1
    <3>5. Path(ns, rt, k, s[g])
      BY ONLY <3>1, <3>3, <3>4, Shape(ns, rt, 0), Order(ns), KeyPath
    <3>6. Path(ns, rt, n.keys[m], s[j])
      BY ONLY <3>3, <2>1, Shape(ns, rt, 0), Order(ns), KeyPath
    <3> HIDE DEF n
    <3> QED BY ONLY <3>2, <3>3, <3>5, <3>6, j \in 1 .. L, InOrder(ns, rt, s) DEF InOrder
  <2>5. f[s[j]] = ScanStep(n, b, e, f[n.next])
    <3>1. s[j] \in 0 .. Len(ns) /\ s[j] # 0
      BY ONLY <2>1, <1>2
    <3> QED BY ONLY <3>1, <1>3
  <2>6. A(j) = V \cup W
    <3>1. \A m : m \in j .. L <=> m = j \/ m \in j + 1 .. L
      BY ONLY <1>1, j \in 1 .. L
    <3>2. \A k : k \in A(j) <=> k \in V \cup A(j + 1)
      BY ONLY <3>1 DEF Ahead
    <3>3. \A k : k \in A(j) <=> k \in V \cup W
      BY ONLY <3>2, <1>5
    <3> HIDE DEF A, V
    <3> QED BY ONLY <3>3
  <2> DEFINE x == f[n.next]
  <2>7. Lists(x, W)
    BY ONLY <1>5
  <2>8. V = {k \in Keys : b <= k /\ k <= e /\ InSeq(n.keys, k)}
    OBVIOUS
  <2> HIDE DEF n, V, x
  <2>9. \A k \in W : k <= e /\ \A m \in 1 .. Len(n.keys) : n.keys[m] < k
    BY ONLY <2>3, <2>4
  <2>10. Lists(ScanStep(n, b, e, x), V \cup W)
    BY ONLY <2>1, <2>3, <2>7, <2>8, <2>9, b \in Int, e \in Int, StepLists
  <2> QED BY ONLY <2>5, <2>6, <2>10 DEF x
<1>6. G(L)
  <2>1. L \in 1 .. L
    BY ONLY <1>1, i \in 1 .. Len(s)
  <2>2. ns[s[L]].next = 0
    BY ONLY <2>1, <1>1
  <2>3. A(L + 1) = {}
    <3>1. \A m \in L + 1 .. L : FALSE
      BY ONLY <1>1
    <3>2. \A k : k \notin A(L + 1)
      BY ONLY <3>1 DEF Ahead
    <3> HIDE DEF A
    <3> QED BY ONLY <3>2
  <2> QED BY ONLY <2>1, <2>2, <2>3, <1>4, <1>5
<1>7. \A j \in 1 .. L : j < L /\ G(j + 1) => G(j)
  BY ONLY <1>1, <1>5
<1> HIDE DEF G
<1>8. T = {}
  <2>1. SUFFICES ASSUME T # {} PROVE FALSE
    OBVIOUS
  <2>2. T \in SUBSET Nat
    BY ONLY <1>1
  <2>3. PICK n \in T : \A y \in T : n <= y
    BY ONLY <2>1, <2>2, LeastNat
  <2>4. n \in 0 .. L - 1 /\ ~G(L - n)
    OBVIOUS
  <2>5. n # 0
    <3>1. L - 0 = L
      BY ONLY <1>1
    <3> QED BY ONLY <3>1, <2>4, <1>6
  <2>6. n - 1 \in 0 .. L - 1 /\ L - (n - 1) = (L - n) + 1 /\ L - n \in 1 .. L /\ L - n < L /\ ~(n <= n - 1)
    BY ONLY <2>4, <2>5, <1>1
  <2>7. G((L - n) + 1)
    BY ONLY <2>3, <2>6
  <2> QED BY ONLY <2>4, <2>6, <2>7, <1>7
<1>9. L - i \in 0 .. L - 1 /\ L - (L - i) = i
  BY ONLY <1>1, i \in 1 .. Len(s)
<1>10. G(i)
  BY ONLY <1>8, <1>9
<1> QED BY ONLY <1>10 DEF G, A

\* A scan returns the record ids of the keys stored in b .. e, in order.
LEMMA RangeScanLists ==
  ASSUME NEW ns, NEW rt, Shape(ns, rt, 0), Order(ns), Threaded(ns, rt), NEW t, t = [nodes |-> ns, root |-> rt],
         NEW b \in Int, NEW e \in Int
  PROVE  Lists(RangeScan(t, b, e), {k \in Stored(ns) : b <= k /\ k <= e})
<1>1. PICK s : InOrder(ns, rt, s)
  BY DEF Threaded, InOrder
<1>2. Len(ns) \in Nat /\ Chain(ns, s)
  BY <1>1 DEF Shape, InOrder
<1> DEFINE f == CHOOSE h : IsScan(h, t.nodes, b, e)
           q == FindLeaf(t, b)
<1>3. IsScan(f, ns, b, e)
  <2>1. t.nodes = ns
    OBVIOUS
  <2>2. \E h : IsScan(h, ns, b, e)
    BY <1>2, ScanExists
  <2>3. \E h : IsScan(h, t.nodes, b, e)
    BY ONLY <2>1, <2>2
  <2>4. IsScan(f, t.nodes, b, e)
    BY ONLY <2>3, Zenon
  <2> HIDE DEF f
  <2> QED BY ONLY <2>1, <2>4
<1>4. RangeScan(t, b, e) = f[q]
  BY ONLY Zenon DEF RangeScan, IsScan, ScanAt, ScanStep, From, Past, INVALID_PAGE_ID
<1>5. Path(ns, rt, b, q)
  BY FindLeafFacts
<1> HIDE DEF f, q
<1>6. q \in 1 .. Len(ns) /\ ns[q].leaf
  BY ONLY <1>5 DEF Path
<1>7. /\ Len(s) \in Nat /\ \A p \in 1 .. Len(ns) : ns[p].leaf => InSeq(s, p)
      /\ \A j \in 1 .. Len(s) : s[j] \in 1 .. Len(ns) /\ ns[s[j]].leaf
  BY ONLY <1>2 DEF Chain
<1>8. PICK i \in 1 .. Len(s) : s[i] = q
  BY ONLY <1>6, <1>7 DEF InSeq
<1>9. Lists(f[s[i]], Ahead(ns, s, b, e, i))
  BY ONLY <1>1, <1>3, Shape(ns, rt, 0), Order(ns), b \in Int, e \in Int, ScanLists
<1>10. Ahead(ns, s, b, e, i) = {k \in Stored(ns) : b <= k /\ k <= e}
  <2>1. ASSUME NEW k \in Ahead(ns, s, b, e, i) PROVE k \in Stored(ns) /\ b <= k /\ k <= e
    <3>1. PICK j \in i .. Len(s) : InSeq(ns[s[j]].keys, k)
      BY ONLY <2>1 DEF Ahead
    <3>2. j \in 1 .. Len(s)
      BY ONLY <1>7, i \in 1 .. Len(s), j \in i .. Len(s)
    <3>3. k \in Keys /\ b <= k /\ k <= e
      BY ONLY <2>1 DEF Ahead
    <3> QED BY ONLY <3>1, <3>2, <3>3, <1>7 DEF Stored
  <2>2. ASSUME NEW k \in Stored(ns), b <= k, k <= e PROVE k \in Ahead(ns, s, b, e, i)
    <3>1. PICK p \in 1 .. Len(ns) : ns[p].leaf /\ InSeq(ns[p].keys, k) /\ k \in Keys
      BY ONLY <2>2 DEF Stored
    <3>2. PICK j \in 1 .. Len(s) : s[j] = p
      BY ONLY <3>1, <1>7 DEF InSeq
    <3>3. k \in Int
      BY ONLY <3>1, Capacities
    <3>4. Path(ns, rt, k, s[j])
      BY ONLY <3>1, <3>2, <3>3, Shape(ns, rt, 0), Order(ns), KeyPath
    <3>5. ~(j < i)
      <4>1. j < i => k < b
        BY ONLY <3>3, <3>4, <1>1, <1>5, <1>8, b \in Int, i \in 1 .. Len(s), j \in 1 .. Len(s) DEF InOrder
      <4> QED BY ONLY <4>1, <3>3, <2>2, b \in Int
    <3>6. j \in i .. Len(s)
      BY ONLY <3>5, <1>7, i \in 1 .. Len(s), j \in 1 .. Len(s)
    <3> QED BY ONLY <3>1, <3>2, <3>6, <2>2 DEF Ahead
  <2> QED BY ONLY <2>1, <2>2
<1> QED BY ONLY <1>4, <1>8, <1>9, <1>10

\* What a scan lists is what search finds.
LEMMA RangeScanIs ==
  ASSUME IInv
  PROVE  RangeScanExact
<1>1. Found = MapOf(Stored(nodes))
  BY FoundNow
<1> DEFINE S == Stored(nodes)
<1>2. /\ DOMAIN Found = S /\ \A k \in S : Found[k] = RidOf[k]
  BY ONLY <1>1 DEF MapOf
<1> HIDE DEF S
<1>3. SUFFICES ASSUME NEW b \in Keys, NEW e \in Keys
               PROVE  /\ Len(RangeScan(Tree, b, e)) = Cardinality({k \in DOMAIN Found : b <= k /\ k <= e})
                      /\ \A k \in {k \in DOMAIN Found : b <= k /\ k <= e} :
                             RangeScan(Tree, b, e)[Cardinality({x \in {z \in DOMAIN Found : b <= z /\ z <= e} :
                                                                    x <= k})]
                                 = Found[k]
  BY Zenon DEF RangeScanExact
<1> DEFINE res == RangeScan(Tree, b, e)
           W == {k \in DOMAIN Found : b <= k /\ k <= e}
<1>11. W = {k \in S : b <= k /\ k <= e}
  BY ONLY <1>2
<1>4. b \in Int /\ e \in Int
  BY ONLY <1>3, Capacities
<1> DEFINE t == Tree
<1>5. t = [nodes |-> nodes, root |-> root]
  BY DEF Tree
<1>6. Shape(nodes, root, 0) /\ Order(nodes) /\ Threaded(nodes, root)
  BY DEF IInv
<1> HIDE DEF t
<1>7. Lists(RangeScan(t, b, e), W)
  BY ONLY <1>11, <1>4, <1>5, <1>6, RangeScanLists DEF S
<1>8. Lists(res, W)
  BY ONLY <1>7 DEF t
<1>9. W \subseteq S
  BY ONLY <1>11
<1>10. /\ Len(res) = Cardinality(W)
       /\ \A k \in W : res[Cardinality({x \in W : x <= k})] = Found[k]
  <2> HIDE DEF res, W
  <2> QED BY ONLY <1>2, <1>8, <1>9, ListsExact
<1> QED BY ONLY <1>10

\* range_scan (btree_index.cpp:106) descends once and then follows the next ids:
\* whatever was inserted, split and removed before, it returns the record ids of
\* all keys in the range, each once and in key order, and no other.
THEOREM RangeScanRight == Spec /\ []ThreeLevels => []RangeScanExact
<1>1. IInv => RangeScanExact
  BY RangeScanIs
<1> QED BY <1>1, Holds, PTL

=============================================================================
