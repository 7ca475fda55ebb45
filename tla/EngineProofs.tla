---------------------------- MODULE EngineProofs ----------------------------
(***************************************************************************)
(* What holds of Engine for every value of its constants: the types, the   *)
(* backward chains of the log, and the log force of commit.                *)
(*                                                                         *)
(* The first part takes the log as a value: what a record may say about    *)
(* the records in front of it, and what follows for transactions, their    *)
(* undo and the contents of the pages.  The second part shows that every   *)
(* step keeps these facts.                                                 *)
(***************************************************************************)
EXTENDS Engine, TLAPS, WellFoundedInduction

-----------------------------------------------------------------------------
(* Numbers and maps.                                                       *)

\* Least element of a nonempty set of naturals; induction over positions of
\* the log rests on it.
LEMMA LeastNat ==
  ASSUME NEW T \in SUBSET Nat, T # {}
  PROVE  \E x \in T : \A y \in T : x <= y
<1>1. IsWellFoundedOn({ss \in Nat \X Nat : ss[1] < ss[2]}, Nat)
  BY NatLessThanWellFounded DEF OpToRel
<1>2. PICK x \in T : \A y \in T : ~(<<y, x>> \in {ss \in Nat \X Nat : ss[1] < ss[2]})
  BY WFMin, <1>1
<1>3. \A y \in T : ~(y < x)
  BY <1>2
<1> QED BY <1>3

\* Min and Max of a nonempty set of integers with a bound.
LEMMA MinOf ==
  ASSUME NEW S \in SUBSET Nat, S # {}
  PROVE  Min(S) \in S /\ \A x \in S : Min(S) <= x
BY LeastNat DEF Min

LEMMA MaxOf ==
  ASSUME NEW S \in SUBSET Int, S # {}, NEW n \in Int, \A x \in S : x <= n
  PROVE  Max(S) \in S /\ \A x \in S : x <= Max(S)
<1> DEFINE T == {n - x : x \in S}
<1>1. T \in SUBSET Nat /\ T # {}
  <2>1. \A x \in S : n - x \in Nat
    OBVIOUS
  <2> QED BY <2>1
<1>2. PICK k \in T : \A y \in T : k <= y
  BY <1>1, LeastNat
<1>3. PICK x \in S : k = n - x
  BY <1>2
<1>4. ASSUME NEW y \in S
      PROVE  x >= y
  <2>1. n - y \in T
    OBVIOUS
  <2>2. k <= n - y
    BY <1>2, <2>1
  <2> QED BY <2>2, <1>3
<1> QED BY <1>3, <1>4 DEF Max

\* Max of a set whose greatest element is known.
LEMMA MaxIs ==
  ASSUME NEW S \in SUBSET Int, NEW m \in S, \A x \in S : x <= m
  PROVE  Max(S) = m
<1>1. \A y \in S : (\A x \in S : y >= x) => y = m
  OBVIOUS
<1>2. \A x \in S : m >= x
  OBVIOUS
<1> QED BY <1>1, <1>2 DEF Max

\* Partial functions: the ATT and the DPT.
Maps(S, T) == UNION {[D -> T] : D \in SUBSET S}

LEMMA MapFacts ==
  ASSUME NEW S, NEW T, NEW f \in Maps(S, T)
  PROVE  /\ f \in [DOMAIN f -> T]
         /\ DOMAIN f \in SUBSET S
         /\ \A x \in DOMAIN f : x \in S /\ f[x] \in T
BY DEF Maps

LEMMA MapIntro ==
  ASSUME NEW S, NEW T, NEW D \in SUBSET S, NEW f \in [D -> T]
  PROVE  f \in Maps(S, T)
BY DEF Maps

LEMMA EmptyMap ==
  ASSUME NEW S, NEW T
  PROVE  <<>> \in Maps(S, T) /\ DOMAIN <<>> = {}
<1>1. <<>> \in [{} -> T]
  OBVIOUS
<1>2. {} \in SUBSET S
  OBVIOUS
<1> QED BY <1>1, <1>2 DEF Maps

LEMMA WithFacts ==
  ASSUME NEW f, NEW x, NEW v
  PROVE  /\ DOMAIN With(f, x, v) = DOMAIN f \cup {x}
         /\ With(f, x, v)[x] = v
         /\ \A y \in DOMAIN f : y # x => With(f, x, v)[y] = f[y]
BY DEF With

LEMMA WithMap ==
  ASSUME NEW S, NEW T, NEW f \in Maps(S, T), NEW x \in S, NEW v \in T
  PROVE  With(f, x, v) \in Maps(S, T)
<1>1. With(f, x, v) \in [DOMAIN f \cup {x} -> T]
  BY MapFacts DEF With
<1>2. DOMAIN f \cup {x} \in SUBSET S
  BY MapFacts
<1> QED BY <1>1, <1>2 DEF Maps

LEMMA WithoutFacts ==
  ASSUME NEW f, NEW x
  PROVE  /\ DOMAIN Without(f, x) = DOMAIN f \ {x}
         /\ \A y \in DOMAIN f : y # x => Without(f, x)[y] = f[y]
BY DEF Without

LEMMA WithoutMap ==
  ASSUME NEW S, NEW T, NEW f \in Maps(S, T), NEW x
  PROVE  Without(f, x) \in Maps(S, T)
<1>1. Without(f, x) \in [DOMAIN f \ {x} -> T]
  BY MapFacts DEF Without
<1>2. DOMAIN f \ {x} \in SUBSET S
  BY MapFacts
<1> QED BY <1>1, <1>2 DEF Maps

-----------------------------------------------------------------------------
(* The records and the operators of LogOps.                                *)

TxnMap == Maps(Nat, Nat)
PageMap == Maps(Pages, Nat)

RecordSet ==
       [type : {"BEGIN", "COMMIT", "ABORT", "TXN_END"}, txn : Nat, prev : Lsn]
  \cup [type : {"CHECKPOINT_BEGIN"}, txn : {NoTxn}, prev : {NoLsn}]
  \cup [type : {"UPDATE"}, txn : Nat, prev : Lsn,
        page : Pages, slot : Slots, old : Content, new : Content]
  \cup [type : {"CLR"}, txn : Nat, prev : Lsn,
        page : Pages, slot : Slots, new : Content, undo_next : Lsn]
  \cup [type : {"CHECKPOINT_END"}, txn : {NoTxn}, prev : {NoLsn}, att : TxnMap, dpt : PageMap]

LogSet == [stable : Seq(RecordSet), pending : Seq(RecordSet), flushed : Lsn]

\* What the type of a record says about its fields.
LEMMA RecordFacts ==
  ASSUME NEW r \in RecordSet
  PROVE  /\ r.type \in {"BEGIN", "COMMIT", "ABORT", "TXN_END", "UPDATE", "CLR"} <=> r.txn \in Nat
         /\ r.type \in {"CHECKPOINT_BEGIN", "CHECKPOINT_END"} <=> r.txn = NoTxn
         /\ r.txn \in Nat \/ r.txn = NoTxn
         /\ r.prev \in Lsn
         /\ r.type \in {"UPDATE", "CLR"} =>
              r.page \in Pages /\ r.slot \in Slots /\ r.new \in Content
         /\ r.type = "UPDATE" => r.old \in Content
         /\ r.type = "CLR" => r.undo_next \in Lsn
         /\ r.type = "CHECKPOINT_END" => r.att \in TxnMap /\ r.dpt \in PageMap
<1>0. NoTxn \notin Nat
  BY EngineAssumption
<1>1. CASE r \in [type : {"BEGIN", "COMMIT", "ABORT", "TXN_END"}, txn : Nat, prev : Lsn]
  BY <1>0, <1>1
<1>2. CASE r \in [type : {"CHECKPOINT_BEGIN"}, txn : {NoTxn}, prev : {NoLsn}]
  BY <1>0, <1>2 DEF Lsn
<1>3. CASE r \in [type : {"UPDATE"}, txn : Nat, prev : Lsn,
                  page : Pages, slot : Slots, old : Content, new : Content]
  BY <1>0, <1>3
<1>4. CASE r \in [type : {"CLR"}, txn : Nat, prev : Lsn,
                  page : Pages, slot : Slots, new : Content, undo_next : Lsn]
  BY <1>0, <1>4
<1>5. CASE r \in [type : {"CHECKPOINT_END"}, txn : {NoTxn}, prev : {NoLsn},
                  att : TxnMap, dpt : PageMap]
  BY <1>0, <1>5 DEF Lsn
<1> QED BY <1>1, <1>2, <1>3, <1>4, <1>5 DEF RecordSet

\* The records that the code builds.
LEMMA ControlIsRecord ==
  ASSUME NEW type \in {"BEGIN", "COMMIT", "ABORT", "TXN_END"}, NEW t \in Nat, NEW prev \in Lsn
  PROVE  ControlRecord(type, t, prev) \in RecordSet
BY DEF ControlRecord, RecordSet

LEMMA CheckpointsAreRecords ==
  ASSUME NEW a \in TxnMap, NEW d \in PageMap
  PROVE  /\ ControlRecord("CHECKPOINT_BEGIN", NoTxn, NoLsn) \in RecordSet
         /\ CheckpointEnd(a, d) \in RecordSet
BY DEF ControlRecord, CheckpointEnd, RecordSet

LEMMA UpdateIsRecord ==
  ASSUME NEW op \in Change, NEW t \in Nat, NEW prev \in Lsn
  PROVE  UpdateRecord(t, prev, op) \in RecordSet
BY DEF UpdateRecord, RecordSet, Change

LEMMA CompensationIsRecord ==
  ASSUME NEW r \in RecordSet, r.type = "UPDATE", NEW prev \in Lsn
  PROVE  Compensation(r, prev) \in RecordSet
<1>1. r.txn \in Nat /\ r.page \in Pages /\ r.slot \in Slots /\ r.old \in Content /\ r.prev \in Lsn
  BY RecordFacts
<1> QED BY <1>1 DEF Compensation, ClrRecord, RecordSet

\* rs and qs have the same first n records.
Agree(rs, qs, n) == n <= Len(rs) /\ n <= Len(qs) /\ \A i \in 1..n : qs[i] = rs[i]

\* qs is rs with the record r behind it.
Grown(rs, qs, r) ==
  Len(qs) = Len(rs) + 1 /\ Agree(rs, qs, Len(rs)) /\ qs[Len(rs) + 1] = r

LEMMA LogFacts ==
  ASSUME NEW l \in LogSet
  PROVE  /\ Records(l) \in Seq(RecordSet)
         /\ Len(Records(l)) = NextLsn(l)
         /\ NextLsn(l) \in Nat
         /\ Len(l.stable) \in 0..NextLsn(l)
         /\ Agree(Records(l), l.stable, Len(l.stable))
         /\ l.pending = <<>> => Records(l) = l.stable
BY DEF Records, NextLsn, LogSet, Agree

LEMMA AppendedFacts ==
  ASSUME NEW l \in LogSet, NEW r \in RecordSet
  PROVE  /\ Appended(l, r) \in LogSet
         /\ Appended(l, r).stable = l.stable
         /\ Appended(l, r).flushed = l.flushed
         /\ NextLsn(Appended(l, r)) = NextLsn(l) + 1
         /\ Grown(Records(l), Records(Appended(l, r)), r)
<1> DEFINE m == Appended(l, r)
<1>1. m \in LogSet /\ m.stable = l.stable /\ m.pending = Append(l.pending, r) /\ m.flushed = l.flushed
  BY SMTT(30) DEF Appended, LogSet
<1>2. Len(m.pending) = Len(l.pending) + 1
  BY <1>1 DEF LogSet
<1>3. NextLsn(m) = NextLsn(l) + 1
  BY <1>1, <1>2 DEF NextLsn, LogSet
<1>4. Len(Records(l)) = NextLsn(l) /\ Len(Records(m)) = NextLsn(m)
  BY LogFacts, <1>1
<1> HIDE DEF m
<1>5. ASSUME NEW i \in 1..NextLsn(l)
      PROVE  Records(m)[i] = Records(l)[i]
  BY <1>1, <1>2, <1>3 DEF Records, NextLsn, LogSet
<1>6. Records(m)[NextLsn(l) + 1] = r
  BY <1>1, <1>2, <1>3 DEF Records, NextLsn, LogSet
<1>7. NextLsn(l) \in Nat
  BY LogFacts
<1>8. Grown(Records(l), Records(m), r)
  BY <1>3, <1>4, <1>5, <1>6, <1>7 DEF Grown, Agree
<1> QED BY <1>1, <1>3, <1>8 DEF m

LEMMA SyncedFacts ==
  ASSUME NEW l \in LogSet, l.flushed < Len(l.stable)
  PROVE  /\ Synced(l) \in LogSet
         /\ Records(Synced(l)) = Records(l)
         /\ Synced(l).stable = Records(l)
         /\ Synced(l).pending = <<>>
         /\ NextLsn(Synced(l)) = NextLsn(l)
         /\ Len(Synced(l).stable) = NextLsn(l)
         /\ Synced(l).flushed < Len(Synced(l).stable)
BY DEF Records, Synced, NextLsn, LogSet, Lsn, NoLsn

LEMMA FlushedToFacts ==
  ASSUME NEW l \in LogSet, l.flushed < Len(l.stable), NEW n \in Int
  PROVE  /\ FlushedTo(l, n) \in LogSet
         /\ Records(FlushedTo(l, n)) = Records(l)
         /\ NextLsn(FlushedTo(l, n)) = NextLsn(l)
         /\ FlushedTo(l, n).flushed < Len(FlushedTo(l, n).stable)
         /\ FlushedTo(l, n).stable \in {l.stable, Records(l)}
         /\ Len(FlushedTo(l, n).stable) \in Len(l.stable)..NextLsn(l)
         /\ n < NextLsn(l) => n < Len(FlushedTo(l, n).stable)
<1>1. CASE l.flushed # NoLsn /\ l.flushed >= n
  <2>1. FlushedTo(l, n) = l
    BY <1>1 DEF FlushedTo
  <2>2. l.flushed \in Int /\ Len(l.stable) \in 0..NextLsn(l) /\ NextLsn(l) \in Nat
    BY LogFacts DEF LogSet, Lsn, NoLsn
  <2> QED BY <1>1, <2>1, <2>2
<1>2. CASE ~(l.flushed # NoLsn /\ l.flushed >= n)
  <2>1. FlushedTo(l, n) = Synced(l)
    BY <1>2 DEF FlushedTo
  <2> QED BY <2>1, SyncedFacts, LogFacts
<1> QED BY <1>1, <1>2

\* Where an element of a concatenation comes from.
LEMMA ConcatFacts ==
  ASSUME NEW S, NEW a \in Seq(S), NEW b \in Seq(S)
  PROVE  /\ a \o b \in Seq(S)
         /\ Len(a \o b) = Len(a) + Len(b)
         /\ \A i \in 1..Len(a) : (a \o b)[i] = a[i]
         /\ \A i \in 1..Len(b) : (a \o b)[Len(a) + i] = b[i]
OBVIOUS

LEMMA ReopenedFacts ==
  ASSUME NEW l \in LogSet, NEW k \in 0..Len(l.pending)
  PROVE  /\ Reopened(l, k) \in LogSet
         /\ Reopened(l, k).pending = <<>>
         /\ Reopened(l, k).flushed < Len(Reopened(l, k).stable)
         /\ Records(Reopened(l, k)) = Reopened(l, k).stable
         /\ Len(Reopened(l, k).stable) = Len(l.stable) + k
         /\ Len(Reopened(l, k).stable) \in Len(l.stable)..NextLsn(l)
         /\ Agree(Records(l), Records(Reopened(l, k)), Len(Reopened(l, k).stable))
<1> DEFINE b == SubSeq(l.pending, 1, k)
           m == Reopened(l, k)
<1>1. l.stable \in Seq(RecordSet) /\ l.pending \in Seq(RecordSet)
      /\ Len(l.stable) \in Nat /\ Len(l.pending) \in Nat /\ k \in Nat /\ k <= Len(l.pending)
  BY DEF LogSet
<1>2. b \in Seq(RecordSet) /\ Len(b) = k /\ \A i \in 1..k : b[i] = l.pending[i]
  BY <1>1
<1>3. m.pending = <<>> /\ m.stable = l.stable \o b /\ m.flushed = NoLsn
  BY DEF Reopened
<1>4. m = [stable |-> l.stable \o b, pending |-> <<>>, flushed |-> NoLsn]
  BY DEF Reopened
<1>5. m \in LogSet
  BY <1>1, <1>2, <1>4, ConcatFacts DEF LogSet, Lsn
<1>6. Records(m) = m.stable
  BY <1>3, <1>5, LogFacts
<1> HIDE DEF b, m
<1>7. Len(m.stable) = Len(l.stable) + k
  BY <1>1, <1>2, <1>3, ConcatFacts, ZenonT(60)
<1>8. NextLsn(l) = Len(l.stable) + Len(l.pending)
  BY DEF NextLsn
<1>d. Len(m.stable) \in Len(l.stable)..NextLsn(l)
  <2>1. \A a, c \in Nat, j \in Nat : j <= c => a + j \in a..(a + c)
    OBVIOUS
  <2> QED BY <1>1, <1>7, <1>8, <2>1
<1>a. /\ \A i \in 1..Len(l.stable) : m.stable[i] = l.stable[i]
      /\ \A i \in 1..k : m.stable[Len(l.stable) + i] = b[i]
  BY <1>1, <1>2, <1>3, ConcatFacts
<1>b. /\ \A i \in 1..Len(l.stable) : Records(l)[i] = l.stable[i]
      /\ \A i \in 1..Len(l.pending) : Records(l)[Len(l.stable) + i] = l.pending[i]
  <2>1. Records(l) = l.stable \o l.pending
    BY DEF Records
  <2>2. \A x, y \in Seq(RecordSet) :
          /\ \A i \in 1..Len(x) : (x \o y)[i] = x[i]
          /\ \A i \in 1..Len(y) : (x \o y)[Len(x) + i] = y[i]
    BY ConcatFacts
  <2>3. l.stable \in Seq(RecordSet) /\ l.pending \in Seq(RecordSet)
    BY <1>1
  <2>4. /\ \A i \in 1..Len(l.stable) : (l.stable \o l.pending)[i] = l.stable[i]
        /\ \A i \in 1..Len(l.pending) : (l.stable \o l.pending)[Len(l.stable) + i] = l.pending[i]
    BY ONLY <2>2, <2>3, Zenon
  <2> QED BY ONLY <2>1, <2>4, Zenon
<1>9. ASSUME NEW i \in 1..Len(m.stable)
      PROVE  m.stable[i] = Records(l)[i]
  <2>1. CASE i <= Len(l.stable)
    <3>1. i \in 1..Len(l.stable)
      BY <1>1, <1>7, <2>1
    <3> QED BY <1>a, <1>b, <3>1
  <2>2. CASE i > Len(l.stable)
    <3>1. PICK j \in 1..k : i = Len(l.stable) + j
      <4>1. i - Len(l.stable) \in 1..k
        BY <1>1, <1>7, <2>2
      <4>2. i = Len(l.stable) + (i - Len(l.stable))
        BY <1>1, <1>7
      <4> QED BY <4>1, <4>2
    <3>2. m.stable[i] = b[j]
      BY <1>a, <3>1
    <3>3. j \in 1..Len(l.pending)
      BY <1>1, <3>1
    <3>4. Records(l)[i] = l.pending[j]
      BY <1>b, <3>1, <3>3
    <3> QED BY <3>1, <3>2, <3>4, <1>2
  <2> QED BY <2>1, <2>2, <1>1
<1>10. Agree(Records(l), Records(m), Len(m.stable))
  <2>1. Len(m.stable) <= NextLsn(l) /\ Len(Records(l)) = NextLsn(l)
    BY <1>d, LogFacts
  <2> QED BY <1>6, <2>1, <1>9, <1>7, <1>1 DEF Agree
<1>c. Len(m.stable) \in Nat
  BY <1>1, <1>7
<1>11. m.flushed < Len(m.stable)
  BY <1>3, <1>c DEF NoLsn
<1> QED BY <1>3, <1>5, <1>6, <1>7, <1>10, <1>11, <1>d DEF m

-----------------------------------------------------------------------------
(* The invariant.  Its parts take the log's records as an argument, for    *)
(* most steps only add a record behind them.                               *)

\* qs begins with rs.
Extends(rs, qs) == Agree(rs, qs, Len(rs))

\* n is the LSN of a record of transaction t.
Names(rs, t, n) == n \in 0..(Len(rs) - 1) /\ rs[n + 1].txn = t

\* Records that leave their transaction running.
Live == {"BEGIN", "UPDATE", "ABORT", "CLR"}

\* An ATT: the LSN of a live record for each transaction.
Running(rs, a) ==
  /\ a \in TxnMap
  /\ \A t \in DOMAIN a : Names(rs, t, a[t]) /\ rs[a[t] + 1].type \in Live

\* The references of the i-th record lead back, to records of its transaction.
Chain(rs, i) ==
  LET r == rs[i] IN
  /\ r.type = "BEGIN" => r.prev = NoLsn
  /\ r.type \in {"COMMIT", "ABORT", "TXN_END", "UPDATE", "CLR"}
       => r.prev \in 0..(i - 2) /\ rs[r.prev + 1].txn = r.txn
  /\ r.type = "CLR" => r.undo_next \in 0..(i - 2) /\ rs[r.undo_next + 1].txn = r.txn
  /\ r.type = "CHECKPOINT_END" =>
       \A t \in DOMAIN r.att :
         /\ r.att[t] \in 0..(i - 2)
         /\ rs[r.att[t] + 1].txn = t
         /\ rs[r.att[t] + 1].type \in Live

Chained(rs) == \A i \in 1..Len(rs) : Chain(rs, i)

\* A Transaction object and the records its LSNs name.
TxnOK(rs, t, x) ==
  /\ Names(rs, t, x.prev)
  /\ x.state = "GROWING" => rs[x.prev + 1].type \in {"BEGIN", "UPDATE"}
  /\ x.state = "COMMITTED" => rs[x.prev + 1].type = "COMMIT"
  /\ x.state = "ABORTED" => rs[x.prev + 1].type \in {"ABORT", "CLR"}
  /\ x.undo = NoLsn \/ Names(rs, t, x.undo)
  /\ x.op # NoOp => x.state = "GROWING"

TxnsOK(rs, a, next) ==
  /\ next \in Nat
  /\ a \in Maps(Nat, Transaction)
  /\ \A t \in DOMAIN a : t < next /\ TxnOK(rs, t, a[t])

\* The snapshots of a checkpoint in progress.
CkptOK(rs, c) ==
  /\ c \in [phase : {"idle", "att", "dpt", "end", "flush", "force"},
            att : TxnMap, dpt : PageMap, lsn : Lsn]
  /\ Running(rs, c.att)
  /\ c.phase \in {"flush", "force"} => c.lsn \in 0..(Len(rs) - 1)

\* recover's tables: every LSN still to undo is of a loser, one per loser.
RecOK(rs, rc) ==
  /\ rc \in [att : TxnMap, dpt : PageMap, pos : Lsn, to_undo : SUBSET Nat]
  /\ Running(rs, rc.att)
  /\ \A u \in rc.to_undo : u \in 0..(Len(rs) - 1) /\ rs[u + 1].txn \in DOMAIN rc.att
  /\ \A u, w \in rc.to_undo : rs[u + 1].txn = rs[w + 1].txn => u = w

\* Pages whose LSN is that of one of the first n records, or still zero.
PagesOK(n, pages) ==
  /\ pages \in [Pages -> Page]
  /\ \A p \in Pages : pages[p].lsn = 0 \/ pages[p].lsn < n

\* A TXN_END whose predecessor is a COMMIT was written after the COMMIT was
\* among the first n records on stable storage.
ForcedOK(rs, n) ==
  \A i \in 1..Len(rs) :
    rs[i].type = "TXN_END" /\ rs[rs[i].prev + 1].type = "COMMIT" => rs[i].prev < n

LogOK ==
  /\ log \in LogSet
  /\ log.flushed < Len(log.stable)
  /\ Chained(Records(log))
  /\ ForcedOK(Records(log), Len(log.stable))

StateOK ==
  /\ PagesOK(NextLsn(log), mem)
  /\ PagesOK(Len(log.stable), disk)
  /\ PagesOK(Len(log.stable), platter)
  /\ dirty \subseteq Pages
  /\ locks \subseteq Nat \X Pages \X Slots
  /\ TxnsOK(Records(log), att, next_txn_id)
  /\ CkptOK(Records(log), ckpt)
  /\ RecOK(Records(log), rec)
  /\ ckpts \in Nat
  /\ crashes \in Nat
  /\ mode \in {"up", "down", "redo", "undo"}
  /\ mode # "up" => att = <<>> /\ ckpt = IdleCheckpoint
  /\ mode \in {"down", "redo"} => log.pending = <<>>

Inv == LogOK /\ StateOK

-----------------------------------------------------------------------------
(* A longer log keeps the parts of the invariant.                          *)

LEMMA ExtendsSame ==
  ASSUME NEW rs \in Seq(RecordSet)
  PROVE  Extends(rs, rs)
BY DEF Extends, Agree

LEMMA GrownExtends ==
  ASSUME NEW rs \in Seq(RecordSet), NEW qs \in Seq(RecordSet), NEW r, Grown(rs, qs, r)
  PROVE  Extends(rs, qs)
BY DEF Grown, Extends

LEMMA NamesKept ==
  ASSUME NEW rs \in Seq(RecordSet), NEW qs \in Seq(RecordSet), Extends(rs, qs),
         NEW t, NEW n, Names(rs, t, n)
  PROVE  Names(qs, t, n) /\ qs[n + 1] = rs[n + 1]
BY DEF Extends, Agree, Names

LEMMA RunningKept ==
  ASSUME NEW rs \in Seq(RecordSet), NEW qs \in Seq(RecordSet), Extends(rs, qs),
         NEW a, Running(rs, a)
  PROVE  Running(qs, a)
BY NamesKept DEF Running

LEMMA CkptKept ==
  ASSUME NEW rs \in Seq(RecordSet), NEW qs \in Seq(RecordSet), Extends(rs, qs),
         NEW c, CkptOK(rs, c)
  PROVE  CkptOK(qs, c)
<1>1. Running(qs, c.att)
  BY RunningKept DEF CkptOK
<1>2. Len(rs) <= Len(qs) /\ Len(rs) \in Nat /\ Len(qs) \in Nat
  BY DEF Extends, Agree
<1> QED BY <1>1, <1>2 DEF CkptOK

LEMMA RecKept ==
  ASSUME NEW rs \in Seq(RecordSet), NEW qs \in Seq(RecordSet), Extends(rs, qs),
         NEW c, RecOK(rs, c)
  PROVE  RecOK(qs, c)
<1>1. Running(qs, c.att)
  BY RunningKept DEF RecOK
<1>2. \A u \in c.to_undo : u \in 0..(Len(qs) - 1) /\ qs[u + 1] = rs[u + 1]
  BY DEF Extends, Agree, RecOK
<1> QED BY <1>1, <1>2 DEF RecOK

LEMMA TxnKept ==
  ASSUME NEW rs \in Seq(RecordSet), NEW qs \in Seq(RecordSet), Extends(rs, qs),
         NEW t, NEW x, TxnOK(rs, t, x)
  PROVE  TxnOK(qs, t, x)
BY NamesKept DEF TxnOK

LEMMA TxnsKept ==
  ASSUME NEW rs \in Seq(RecordSet), NEW qs \in Seq(RecordSet), Extends(rs, qs),
         NEW a, NEW next, TxnsOK(rs, a, next)
  PROVE  TxnsOK(qs, a, next)
BY TxnKept DEF TxnsOK

LEMMA PagesKept ==
  ASSUME NEW n \in Nat, NEW m \in Nat, n <= m, NEW pages, PagesOK(n, pages)
  PROVE  PagesOK(m, pages)
BY DEF PagesOK, Page

\* What the i-th record says about its chain depends on the first i records.
LEMMA ChainAgrees ==
  ASSUME NEW rs \in Seq(RecordSet), NEW qs \in Seq(RecordSet), NEW n \in Nat, Agree(rs, qs, n),
         NEW i \in 1..n
  PROVE  Chain(rs, i) => Chain(qs, i)
<1>1. \A j \in 1..n : qs[j] = rs[j]
  BY DEF Agree
<1>2. \A k \in 0..(i - 2) : k + 1 \in 1..n
  OBVIOUS
<1> QED BY <1>1, <1>2, ZenonT(60) DEF Chain

LEMMA ChainedGrown ==
  ASSUME NEW rs \in Seq(RecordSet), NEW qs \in Seq(RecordSet), NEW r, Grown(rs, qs, r),
         Chained(rs), Chain(qs, Len(rs) + 1)
  PROVE  Chained(qs)
<1>1. Len(rs) \in Nat /\ Len(qs) = Len(rs) + 1 /\ Agree(rs, qs, Len(rs))
  BY DEF Grown
<1>2. ASSUME NEW i \in 1..Len(qs)
      PROVE  Chain(qs, i)
  <2>1. CASE i = Len(rs) + 1
    BY <2>1
  <2>2. CASE i \in 1..Len(rs)
    BY <1>1, <2>2, ChainAgrees DEF Chained
  <2> QED BY <1>1, <2>1, <2>2
<1> QED BY <1>2 DEF Chained

LEMMA ChainedCut ==
  ASSUME NEW rs \in Seq(RecordSet), NEW qs \in Seq(RecordSet), Agree(rs, qs, Len(qs)), Chained(rs)
  PROVE  Chained(qs)
<1>1. Len(qs) \in Nat /\ Len(rs) \in Nat /\ Len(qs) <= Len(rs)
  BY DEF Agree
<1>2. \A i \in 1..Len(qs) : i \in 1..Len(rs)
  BY <1>1
<1> QED BY <1>1, <1>2, ChainAgrees DEF Chained

LEMMA ForcedGrown ==
  ASSUME NEW rs \in Seq(RecordSet), NEW qs \in Seq(RecordSet), NEW r \in RecordSet, Grown(rs, qs, r),
         NEW n \in Nat, NEW m \in Nat, n <= m, ForcedOK(rs, n), Chained(rs),
         r.type = "TXN_END" => r.prev \in 0..(Len(rs) - 1),
         r.type = "TXN_END" /\ rs[r.prev + 1].type = "COMMIT" => r.prev < m
  PROVE  ForcedOK(qs, m)
<1>1. Len(rs) \in Nat /\ Len(qs) = Len(rs) + 1 /\ \A j \in 1..Len(rs) : qs[j] = rs[j]
  BY DEF Grown, Agree
<1>2. ASSUME NEW i \in 1..Len(qs), qs[i].type = "TXN_END", qs[qs[i].prev + 1].type = "COMMIT"
      PROVE  qs[i].prev < m
  <2>1. CASE i = Len(rs) + 1
    <3>1. qs[i] = r
      BY <2>1 DEF Grown
    <3>2. r.prev \in 0..(Len(rs) - 1)
      BY <1>2, <3>1
    <3>3. qs[r.prev + 1] = rs[r.prev + 1]
      BY <1>1, <3>2
    <3> QED BY <1>2, <3>1, <3>3
  <2>2. CASE i \in 1..Len(rs)
    <3>1. qs[i] = rs[i] /\ Chain(rs, i)
      BY <1>1, <2>2 DEF Chained
    <3>2. rs[i].prev \in 0..(i - 2)
      BY <1>2, <3>1 DEF Chain
    <3>3. rs[i].prev + 1 \in 1..Len(rs)
      BY <3>2, <2>2, <1>1
    <3>4. rs[i].prev < n
      BY <1>1, <1>2, <3>1, <3>3, <2>2 DEF ForcedOK
    <3> QED BY <3>1, <3>2, <3>4
  <2> QED BY <1>1, <2>1, <2>2
<1> QED BY <1>2 DEF ForcedOK

LEMMA ForcedCut ==
  ASSUME NEW rs \in Seq(RecordSet), NEW qs \in Seq(RecordSet), Agree(rs, qs, Len(qs)),
         NEW n \in Nat, NEW m \in Nat, n <= m, ForcedOK(rs, n), Chained(rs)
  PROVE  ForcedOK(qs, m)
<1>1. Len(qs) \in Nat /\ Len(rs) \in Nat /\ Len(qs) <= Len(rs) /\ \A j \in 1..Len(qs) : qs[j] = rs[j]
  BY DEF Agree
<1>2. ASSUME NEW i \in 1..Len(qs), qs[i].type = "TXN_END", qs[qs[i].prev + 1].type = "COMMIT"
      PROVE  qs[i].prev < m
  <2>0. i \in 1..Len(rs)
    BY <1>1
  <2>1. qs[i] = rs[i] /\ Chain(rs, i)
    BY <1>1, <2>0 DEF Chained
  <2>2. rs[i].prev \in 0..(i - 2)
    BY <1>2, <2>1 DEF Chain
  <2>3. rs[i].prev + 1 \in 1..Len(qs)
    BY <2>2, <1>1
  <2>4. rs[i].prev < n
    BY <1>1, <1>2, <2>0, <2>1, <2>3 DEF ForcedOK
  <2> QED BY <2>1, <2>2, <2>4
<1> QED BY <1>2 DEF ForcedOK

-----------------------------------------------------------------------------
(* How a step changes the log.                                             *)

\* What the invariant asks of a record r that is appended to rs.
Fits(rs, r) ==
  /\ r.type = "BEGIN" => r.prev = NoLsn
  /\ r.type \in {"COMMIT", "ABORT", "TXN_END", "UPDATE", "CLR"} => Names(rs, r.txn, r.prev)
  /\ r.type = "CLR" => Names(rs, r.txn, r.undo_next)
  /\ r.type = "CHECKPOINT_END" => Running(rs, r.att)

LEMMA FitsChain ==
  ASSUME NEW rs \in Seq(RecordSet), NEW qs \in Seq(RecordSet), NEW r, Grown(rs, qs, r), Fits(rs, r)
  PROVE  Chain(qs, Len(rs) + 1)
<1>1. Len(rs) \in Nat /\ qs[Len(rs) + 1] = r /\ Extends(rs, qs)
  BY DEF Grown, Extends
<1>2. \A t, n : Names(rs, t, n) => n \in 0..(Len(rs) + 1 - 2) /\ qs[n + 1] = rs[n + 1] /\ rs[n + 1].txn = t
  <2> SUFFICES ASSUME NEW t, NEW n, Names(rs, t, n)
               PROVE  n \in 0..(Len(rs) + 1 - 2) /\ qs[n + 1] = rs[n + 1] /\ rs[n + 1].txn = t
    OBVIOUS
  <2>1. n \in 0..(Len(rs) - 1) /\ rs[n + 1].txn = t
    BY DEF Names
  <2>2. Len(rs) + 1 - 2 = Len(rs) - 1
    BY <1>1
  <2>3. qs[n + 1] = rs[n + 1]
    BY <1>1, NamesKept
  <2> QED BY <2>1, <2>2, <2>3
<1> QED BY <1>1, <1>2, SMTT(30) DEF Fits, Chain, Running

\* l holds the records of log, and no fewer of them are on stable storage.
Flushed(l) ==
  /\ l \in LogSet
  /\ l.flushed < Len(l.stable)
  /\ Records(l) = Records(log)
  /\ NextLsn(l) = NextLsn(log)
  /\ Len(log.stable) <= Len(l.stable)
  /\ log.pending = <<>> => l.pending = <<>>

LEMMA FlushedLog ==
  ASSUME LogOK
  PROVE  /\ Flushed(log)
         /\ Flushed(Synced(log))
         /\ \A n \in Int : Flushed(FlushedTo(log, n))
<1>1. log \in LogSet /\ log.flushed < Len(log.stable)
  BY DEF LogOK
<1>2. Len(log.stable) \in 0..NextLsn(log) /\ NextLsn(log) \in Nat
  BY <1>1, LogFacts
<1>3. Flushed(log)
  BY <1>1, <1>2 DEF Flushed
<1>4. Flushed(Synced(log))
  BY <1>1, <1>2, SyncedFacts DEF Flushed
<1>5. ASSUME NEW n \in Int
      PROVE  Flushed(FlushedTo(log, n))
  <2>1. FlushedTo(log, n) = log \/ FlushedTo(log, n) = Synced(log)
    BY DEF FlushedTo
  <2> QED BY <2>1, <1>3, <1>4
<1> QED BY <1>3, <1>4, <1>5

\* A step that appends nothing.
LEMMA QuietStep ==
  ASSUME LogOK, Flushed(log')
  PROVE  /\ LogOK'
         /\ Records(log') = Records(log)
         /\ NextLsn(log') = NextLsn(log)
         /\ Extends(Records(log), Records(log'))
         /\ Len(log.stable) <= Len(log'.stable)
         /\ Records(log) \in Seq(RecordSet)
         /\ Records(log') \in Seq(RecordSet)
<1>1. log \in LogSet /\ log' \in LogSet /\ Records(log') = Records(log)
  BY DEF LogOK, Flushed
<1>2. Records(log) \in Seq(RecordSet) /\ Records(log') \in Seq(RecordSet)
  BY <1>1, LogFacts
<1>3. Len(log.stable) \in Nat /\ Len(log'.stable) \in Nat /\ Len(log.stable) <= Len(log'.stable)
  BY <1>1, LogFacts DEF Flushed
<1>4. Len(Records(log)) \in Nat
  BY <1>2
<1>5. Agree(Records(log), Records(log'), Len(Records(log')))
  BY <1>1, <1>4 DEF Agree
<1>6. ForcedOK(Records(log'), Len(log'.stable))
  BY <1>2, <1>3, <1>5, ForcedCut DEF LogOK
<1>7. LogOK'
  BY <1>1, <1>6 DEF LogOK, Flushed
<1> QED BY <1>1, <1>2, <1>3, <1>7, ExtendsSame DEF Flushed

\* A step that appends the record r, perhaps after a flush.
LEMMA AppendStep ==
  ASSUME LogOK, NEW l, Flushed(l), NEW r \in RecordSet, log' = Appended(l, r), Fits(Records(log), r),
         r.type = "TXN_END" /\ Records(log)[r.prev + 1].type = "COMMIT" => r.prev < Len(l.stable)
  PROVE  /\ LogOK'
         /\ Grown(Records(log), Records(log'), r)
         /\ NextLsn(log') = NextLsn(log) + 1
         /\ Extends(Records(log), Records(log'))
         /\ Len(log.stable) <= Len(log'.stable)
         /\ Records(log) \in Seq(RecordSet)
         /\ Records(log') \in Seq(RecordSet)
<1>1. log \in LogSet /\ l \in LogSet /\ Records(l) = Records(log) /\ NextLsn(l) = NextLsn(log)
  BY DEF LogOK, Flushed
<1>2. log' \in LogSet /\ log'.stable = l.stable /\ log'.flushed = l.flushed
      /\ NextLsn(log') = NextLsn(log) + 1 /\ Grown(Records(log), Records(log'), r)
  BY <1>1, AppendedFacts
<1>3. Records(log) \in Seq(RecordSet) /\ Records(log') \in Seq(RecordSet)
  BY <1>1, <1>2, LogFacts
<1>4. Len(log.stable) \in Nat /\ Len(l.stable) \in Nat /\ Len(log.stable) <= Len(l.stable)
  BY <1>1, LogFacts DEF Flushed
<1>5. Chained(Records(log'))
  BY <1>2, <1>3, FitsChain, ChainedGrown DEF LogOK
<1>6. r.type = "TXN_END" => r.prev \in 0..(Len(Records(log)) - 1)
  BY DEF Fits, Names
<1>7. ForcedOK(Records(log'), Len(log'.stable))
  BY <1>2, <1>3, <1>4, <1>6, ForcedGrown DEF LogOK
<1>8. LogOK'
  BY <1>2, <1>5, <1>7 DEF LogOK, Flushed
<1> QED BY <1>2, <1>3, <1>4, <1>8, GrownExtends

-----------------------------------------------------------------------------
(* The parts of the state that a step leaves alone.                        *)

\* Every page LSN is still covered when the log grows.
LEMMA PagesStep ==
  ASSUME StateOK, LogOK, LogOK',
         NextLsn(log) <= NextLsn(log'), Len(log.stable) <= Len(log'.stable)
  PROVE  /\ PagesOK(NextLsn(log'), mem)
         /\ PagesOK(Len(log'.stable), disk)
         /\ PagesOK(Len(log'.stable), platter)
<1>1. log \in LogSet /\ log' \in LogSet
  BY DEF LogOK
<1>2. NextLsn(log) \in Nat /\ NextLsn(log') \in Nat /\ Len(log.stable) \in Nat /\ Len(log'.stable) \in Nat
  BY <1>1, LogFacts
<1> QED BY <1>2, PagesKept DEF StateOK

\* One transaction's object changes.
LEMMA TxnChanged ==
  ASSUME NEW rs \in Seq(RecordSet), NEW qs \in Seq(RecordSet), Extends(rs, qs),
         NEW a, NEW next, TxnsOK(rs, a, next), NEW t \in DOMAIN a,
         NEW b \in [DOMAIN a -> Transaction], \A u \in DOMAIN a : u # t => b[u] = a[u],
         TxnOK(qs, t, b[t])
  PROVE  TxnsOK(qs, b, next)
<1>1. TxnsOK(qs, a, next)
  BY TxnsKept
<1>2. DOMAIN a \in SUBSET Nat
  BY MapFacts DEF TxnsOK
<1>3. b \in Maps(Nat, Transaction)
  BY <1>2, MapIntro
<1> QED BY <1>1, <1>3 DEF TxnsOK

\* A transaction leaves the table.
LEMMA TxnRemoved ==
  ASSUME NEW rs \in Seq(RecordSet), NEW qs \in Seq(RecordSet), Extends(rs, qs),
         NEW a, NEW next, TxnsOK(rs, a, next), NEW t
  PROVE  TxnsOK(qs, Without(a, t), next)
<1>1. TxnsOK(qs, a, next)
  BY TxnsKept
<1>2. /\ Without(a, t) \in Maps(Nat, Transaction)
      /\ DOMAIN Without(a, t) = DOMAIN a \ {t}
      /\ \A u \in DOMAIN a : u # t => Without(a, t)[u] = a[u]
  <2>1. a \in Maps(Nat, Transaction)
    BY DEF TxnsOK
  <2> QED BY <2>1, WithoutMap, WithoutFacts
<1>3. \A u \in DOMAIN Without(a, t) : u < next /\ TxnOK(qs, u, Without(a, t)[u])
  BY <1>1, <1>2 DEF TxnsOK
<1> QED BY <1>1, <1>2, <1>3 DEF TxnsOK

\* The facts of the invariant that nearly every step uses.
LEMMA Basics ==
  ASSUME Inv
  PROVE  /\ log \in LogSet
         /\ Records(log) \in Seq(RecordSet)
         /\ Len(Records(log)) = NextLsn(log)
         /\ NextLsn(log) \in Nat
         /\ Len(log.stable) \in 0..NextLsn(log)
         /\ Chained(Records(log))
         /\ Flushed(log)
         /\ Flushed(Synced(log))
         /\ TxnsOK(Records(log), att, next_txn_id)
         /\ att \in Maps(Nat, Transaction)
         /\ \A t \in DOMAIN att : t \in Nat /\ att[t] \in Transaction /\ TxnOK(Records(log), t, att[t])
         /\ CkptOK(Records(log), ckpt)
         /\ RecOK(Records(log), rec)
<1>1. log \in LogSet /\ LogOK /\ Chained(Records(log))
  BY DEF Inv, LogOK
<1>2. TxnsOK(Records(log), att, next_txn_id) /\ CkptOK(Records(log), ckpt) /\ RecOK(Records(log), rec)
  BY DEF Inv, StateOK
<1>3. att \in Maps(Nat, Transaction) /\ \A t \in DOMAIN att : TxnOK(Records(log), t, att[t])
  BY <1>2 DEF TxnsOK
<1>4. \A t \in DOMAIN att : t \in Nat /\ att[t] \in Transaction
  BY <1>3, MapFacts
<1> QED BY <1>1, <1>2, <1>3, <1>4, LogFacts, FlushedLog

\* The parts of the state that a step leaves alone, seen with the new log.
Carried ==
  /\ PagesOK(NextLsn(log'), mem)
  /\ PagesOK(Len(log'.stable), disk)
  /\ PagesOK(Len(log'.stable), platter)
  /\ TxnsOK(Records(log'), att, next_txn_id)
  /\ CkptOK(Records(log'), ckpt)
  /\ RecOK(Records(log'), rec)

\* Inv, for a step that appends r.
LEMMA AppendKeeps ==
  ASSUME Inv, NEW l, Flushed(l), NEW r \in RecordSet, log' = Appended(l, r), Fits(Records(log), r),
         r.type = "TXN_END" /\ Records(log)[r.prev + 1].type = "COMMIT" => r.prev < Len(l.stable)
  PROVE  /\ LogOK'
         /\ Carried
         /\ Grown(Records(log), Records(log'), r)
         /\ NextLsn(log') = NextLsn(log) + 1
         /\ Extends(Records(log), Records(log'))
         /\ Names(Records(log'), r.txn, NextLsn(log))
         /\ Records(log')[NextLsn(log) + 1] = r
         /\ Records(log') \in Seq(RecordSet)
<1>1. /\ LogOK'
      /\ Grown(Records(log), Records(log'), r)
      /\ NextLsn(log') = NextLsn(log) + 1
      /\ Extends(Records(log), Records(log'))
      /\ Len(log.stable) <= Len(log'.stable)
      /\ Records(log) \in Seq(RecordSet)
      /\ Records(log') \in Seq(RecordSet)
  BY AppendStep DEF Inv
<1>2. NextLsn(log) \in Nat /\ Len(Records(log)) = NextLsn(log)
  BY Basics
<1>3. Carried
  <2>1. NextLsn(log) <= NextLsn(log')
    BY <1>1, <1>2
  <2>2. PagesOK(NextLsn(log'), mem) /\ PagesOK(Len(log'.stable), disk) /\ PagesOK(Len(log'.stable), platter)
    BY <1>1, <2>1, PagesStep DEF Inv
  <2> QED BY <1>1, <2>2, Basics, TxnsKept, CkptKept, RecKept DEF Carried
<1>4. Records(log')[NextLsn(log) + 1] = r /\ Len(Records(log')) = NextLsn(log) + 1
  BY <1>1, <1>2 DEF Grown
<1>5. Names(Records(log'), r.txn, NextLsn(log))
  BY <1>2, <1>4 DEF Names
<1> QED BY <1>1, <1>3, <1>4, <1>5

\* Inv, for a step that appends nothing.
LEMMA QuietKeeps ==
  ASSUME Inv, Flushed(log')
  PROVE  /\ LogOK'
         /\ Carried
         /\ Records(log') = Records(log)
         /\ NextLsn(log') = NextLsn(log)
         /\ Extends(Records(log), Records(log'))
         /\ Records(log') \in Seq(RecordSet)
<1>1. /\ LogOK'
      /\ Records(log') = Records(log)
      /\ NextLsn(log') = NextLsn(log)
      /\ Extends(Records(log), Records(log'))
      /\ Len(log.stable) <= Len(log'.stable)
      /\ Records(log') \in Seq(RecordSet)
  BY QuietStep DEF Inv
<1>2. NextLsn(log) <= NextLsn(log')
  BY <1>1, Basics
<1>3. PagesOK(NextLsn(log'), mem) /\ PagesOK(Len(log'.stable), disk) /\ PagesOK(Len(log'.stable), platter)
  BY <1>1, <1>2, PagesStep DEF Inv
<1> QED BY <1>1, <1>3, Basics DEF Carried

-----------------------------------------------------------------------------
(* TransactionManager keeps the invariant.                                 *)

LEMMA BeginKeeps ==
  ASSUME Inv, begin
  PROVE  Inv'
<1> DEFINE r == ControlRecord("BEGIN", next_txn_id, NoLsn)
           x == [prev |-> NextLsn(log), state |-> "GROWING", undo |-> NoLsn, op |-> NoOp]
<1>1. next_txn_id \in Nat
  BY DEF Inv, StateOK, TxnsOK
<1>2. r \in RecordSet /\ r.type = "BEGIN" /\ r.txn = next_txn_id /\ r.prev = NoLsn
  BY <1>1, ControlIsRecord DEF ControlRecord, Lsn
<1>3. Fits(Records(log), r)
  BY <1>2 DEF Fits
<1>4. log' = Appended(log, r) /\ Flushed(log) /\ r.type # "TXN_END"
  BY <1>2, Basics DEF begin
<1> HIDE DEF r
<1>5. /\ LogOK' /\ Carried
      /\ Names(Records(log'), next_txn_id, NextLsn(log))
      /\ Records(log')[NextLsn(log) + 1] = r
  BY <1>2, <1>3, <1>4, AppendKeeps
<1>6. att' = With(att, next_txn_id, x) /\ next_txn_id' = next_txn_id + 1
  BY DEF begin
<1>7. TxnsOK(Records(log'), att', next_txn_id')
  <2>1. x \in Transaction
    BY Basics DEF Transaction, Lsn
  <2>2. TxnOK(Records(log'), next_txn_id, x)
    BY <1>2, <1>5 DEF TxnOK
  <2>3. TxnsOK(Records(log'), att, next_txn_id)
    BY <1>5 DEF Carried
  <2> HIDE DEF x
  <2>4. att' \in Maps(Nat, Transaction)
    BY <1>1, <1>6, <2>1, WithMap, Basics
  <2>6. /\ DOMAIN att' = DOMAIN att \cup {next_txn_id}
        /\ att'[next_txn_id] = x
        /\ \A t \in DOMAIN att : t # next_txn_id => att'[t] = att[t]
    BY <1>6 DEF With
  <2>5. ASSUME NEW t \in DOMAIN att'
        PROVE  t < next_txn_id' /\ TxnOK(Records(log'), t, att'[t])
    <3>1. CASE t = next_txn_id
      BY <1>1, <1>6, <2>2, <3>1, <2>6
    <3>2. CASE t # next_txn_id
      <4>1. t \in DOMAIN att /\ att'[t] = att[t] /\ t \in Nat
        BY <3>2, <2>6, Basics
      <4> QED BY <4>1, <1>1, <1>6, <2>3 DEF TxnsOK
    <3> QED BY <3>1, <3>2
  <2> QED BY <1>1, <1>6, <2>4, <2>5 DEF TxnsOK
<1>8. UNCHANGED <<mem, dirty, disk, platter, locks, ckpt, ckpts, mode, rec, crashes>> /\ mode = "up"
  BY DEF begin, CanCall, pageVars, ckptVars, runVars
<1>9. StateOK'
  BY <1>5, <1>7, <1>8 DEF Inv, StateOK, Carried
<1> QED BY <1>5, <1>9 DEF Inv

LEMMA ModifyKeeps ==
  ASSUME Inv, NEW t \in DOMAIN att, NEW p \in Pages, NEW s \in Slots, NEW new \in Content,
         Modify(t, p, s, new)
  PROVE  Inv'
<1> DEFINE op == [page |-> p, slot |-> s, old |-> mem[p].slots[s], new |-> new]
<1>1. mem \in [Pages -> Page] /\ PagesOK(NextLsn(log), mem)
  BY DEF Inv, StateOK, PagesOK
<1>2. op \in Change
  BY <1>1 DEF Change, Page
<1>3. /\ att' \in [DOMAIN att -> Transaction]
      /\ att'[t].prev = att[t].prev
      /\ att'[t].state = att[t].state
      /\ att'[t].undo = att[t].undo
      /\ att'[t].op = op
      /\ \A u \in DOMAIN att : u # t => att'[u] = att[u]
  <2>1. att' = [att EXCEPT ![t].op = op]
    BY DEF Modify
  <2>2. att \in [DOMAIN att -> Transaction]
    BY Basics, MapFacts
  <2> QED BY <2>1, <2>2, <1>2 DEF Transaction
<1>4. log' = log /\ Flushed(log)
  BY Basics DEF Modify, logVars
<1>5. LogOK' /\ Carried /\ Records(log') = Records(log) /\ Records(log') \in Seq(RecordSet)
      /\ Extends(Records(log), Records(log')) /\ NextLsn(log') = NextLsn(log)
  BY <1>4, QuietKeeps
<1>7. TxnOK(Records(log'), t, att'[t])
  <2>1. TxnOK(Records(log), t, att[t]) /\ att[t].state = "GROWING"
    BY Basics DEF Modify, Growing
  <2> QED BY <1>3, <2>1, <1>5 DEF TxnOK
<1>8. next_txn_id' = next_txn_id
  BY DEF Modify
<1>9. TxnsOK(Records(log'), att', next_txn_id')
  BY <1>3, <1>5, <1>7, <1>8, TxnChanged, Basics
<1>10. PagesOK(NextLsn(log'), mem')
  <2>1. mem' = [mem EXCEPT ![p].slots[s] = new]
    BY DEF Modify
  <2>2. mem' \in [Pages -> Page]
    BY <1>1, <2>1 DEF Page
  <2>3. \A q \in Pages : mem'[q].lsn = mem[q].lsn
    BY <1>1, <2>1 DEF Page
  <2> QED BY <1>1, <1>5, <2>2, <2>3 DEF PagesOK
<1>11. locks' \subseteq Nat \X Pages \X Slots /\ dirty' \subseteq Pages
  BY Basics DEF Modify, Inv, StateOK
<1>12. UNCHANGED <<disk, platter, ckpt, ckpts, mode, rec, crashes>> /\ mode = "up"
  BY DEF Modify, CanCall, ckptVars, runVars
<1>13. StateOK'
  BY <1>5, <1>9, <1>10, <1>11, <1>12 DEF Inv, StateOK, Carried
<1> QED BY <1>5, <1>13 DEF Inv

LEMMA LogUpdateKeeps ==
  ASSUME Inv, NEW t \in DOMAIN att, log_update(t)
  PROVE  Inv'
<1> DEFINE op == att[t].op
           r == UpdateRecord(t, att[t].prev, op)
           n == NextLsn(log)
<1>1. mem \in [Pages -> Page] /\ dirty \subseteq Pages
  BY DEF Inv, StateOK, PagesOK
<1>2. t \in Nat /\ att[t] \in Transaction /\ TxnOK(Records(log), t, att[t]) /\ n \in Nat
  BY Basics
<1>3. op \in Change /\ op # NoOp
  BY <1>2 DEF log_update, Transaction
<1>4. att[t].prev \in Lsn /\ Names(Records(log), t, att[t].prev) /\ att[t].state = "GROWING"
  BY <1>2, <1>3 DEF Transaction, TxnOK, Lsn
<1>5. r \in RecordSet /\ r.type = "UPDATE" /\ r.txn = t /\ r.prev = att[t].prev
  BY <1>2, <1>3, <1>4, UpdateIsRecord DEF UpdateRecord
<1>6. Fits(Records(log), r)
  BY <1>4, <1>5 DEF Fits
<1>7. log' = Appended(log, r) /\ Flushed(log) /\ r.type # "TXN_END"
  BY <1>5, Basics DEF log_update
<1>8. /\ att' \in [DOMAIN att -> Transaction]
      /\ att'[t].prev = n
      /\ att'[t].state = att[t].state
      /\ att'[t].undo = att[t].undo
      /\ att'[t].op = NoOp
      /\ \A u \in DOMAIN att : u # t => att'[u] = att[u]
  <2>1. att' = [att EXCEPT ![t].prev = n, ![t].op = NoOp]
    BY DEF log_update
  <2>2. att \in [DOMAIN att -> Transaction]
    BY Basics, MapFacts
  <2> QED BY <2>1, <2>2, <1>2 DEF Transaction
<1>9. \/ mem' = [mem EXCEPT ![op.page].lsn = n] /\ dirty' = dirty \cup {op.page}
      \/ mem' = mem /\ dirty' = dirty
  BY DEF log_update
<1>10. op.page \in Pages
  BY <1>3 DEF Change
<1> HIDE DEF r
<1>12. /\ LogOK' /\ Carried
       /\ Names(Records(log'), t, n)
       /\ Records(log')[n + 1] = r
       /\ NextLsn(log') = n + 1
       /\ Extends(Records(log), Records(log'))
       /\ Records(log') \in Seq(RecordSet)
  BY <1>5, <1>6, <1>7, AppendKeeps
<1> HIDE DEF op
<1>13. TxnOK(Records(log'), t, att'[t])
  <2>1. TxnOK(Records(log'), t, att[t])
    BY <1>2, <1>12, TxnKept, Basics
  <2> QED BY <1>8, <2>1, <1>4, <1>5, <1>12 DEF TxnOK
<1>14. next_txn_id' = next_txn_id
  BY DEF log_update
<1>15. TxnsOK(Records(log'), att', next_txn_id')
  BY <1>8, <1>12, <1>13, <1>14, TxnChanged, Basics
<1>16. PagesOK(NextLsn(log'), mem')
  <2>1. mem' \in [Pages -> Page]
    BY <1>1, <1>2, <1>9 DEF Page
  <2>2. \A q \in Pages : mem'[q].lsn = mem[q].lsn \/ mem'[q].lsn = n
    BY <1>1, <1>9, <1>10 DEF Page
  <2> QED BY <1>2, <1>12, <2>1, <2>2 DEF PagesOK, Carried
<1>17. UNCHANGED <<disk, platter, locks, ckpt, ckpts, mode, rec, crashes>> /\ mode = "up"
  BY DEF log_update, ckptVars, runVars
<1>18. dirty' \subseteq Pages
  BY <1>1, <1>9, <1>10
<1>19. StateOK'
  BY <1>12, <1>15, <1>16, <1>17, <1>18 DEF Inv, StateOK, Carried
<1> QED BY <1>12, <1>19 DEF Inv

\* commit and abort: a control record, and a new state of the object.
LEMMA CommitKeeps ==
  ASSUME Inv, NEW t \in DOMAIN att, commit(t)
  PROVE  Inv'
<1> DEFINE r == ControlRecord("COMMIT", t, att[t].prev)
           n == NextLsn(log)
<1>1. t \in Nat /\ att[t] \in Transaction /\ TxnOK(Records(log), t, att[t]) /\ n \in Nat
  BY Basics
<1>2. att[t].prev \in Lsn /\ Names(Records(log), t, att[t].prev) /\ att[t].op = NoOp
  BY <1>1 DEF Transaction, TxnOK, Lsn, commit, Growing
<1>3. r \in RecordSet /\ r.type = "COMMIT" /\ r.txn = t /\ r.prev = att[t].prev
  BY <1>1, <1>2, ControlIsRecord DEF ControlRecord
<1>4. Fits(Records(log), r)
  BY <1>2, <1>3 DEF Fits
<1>5. log' = Appended(log, r) /\ Flushed(log) /\ r.type # "TXN_END"
  BY <1>3, Basics DEF commit
<1>6. /\ att' \in [DOMAIN att -> Transaction]
      /\ att'[t].prev = n
      /\ att'[t].state = "COMMITTED"
      /\ att'[t].undo = att[t].undo
      /\ att'[t].op = att[t].op
      /\ \A u \in DOMAIN att : u # t => att'[u] = att[u]
  <2>1. att' = [att EXCEPT ![t].prev = n, ![t].state = "COMMITTED"]
    BY DEF commit
  <2>2. att \in [DOMAIN att -> Transaction]
    BY Basics, MapFacts
  <2> QED BY <2>1, <2>2, <1>1 DEF Transaction
<1> HIDE DEF r
<1>8. /\ LogOK' /\ Carried
      /\ Names(Records(log'), t, n)
      /\ Records(log')[n + 1] = r
      /\ Extends(Records(log), Records(log'))
      /\ Records(log') \in Seq(RecordSet)
  BY <1>3, <1>4, <1>5, AppendKeeps
<1>9. TxnOK(Records(log'), t, att'[t])
  <2>1. TxnOK(Records(log'), t, att[t])
    BY <1>1, <1>8, TxnKept, Basics
  <2> QED BY <1>6, <2>1, <1>2, <1>3, <1>8 DEF TxnOK
<1>10. UNCHANGED <<mem, dirty, disk, platter, locks, next_txn_id, ckpt, ckpts, mode, rec, crashes>> /\ mode = "up"
  BY DEF commit, CanCall, pageVars, ckptVars, runVars
<1>11. TxnsOK(Records(log'), att', next_txn_id')
  BY <1>6, <1>8, <1>9, <1>10, TxnChanged, Basics
<1>12. StateOK'
  BY <1>8, <1>10, <1>11 DEF Inv, StateOK, Carried
<1> QED BY <1>8, <1>12 DEF Inv

LEMMA AbortKeeps ==
  ASSUME Inv, NEW t \in DOMAIN att, abort(t)
  PROVE  Inv'
<1> DEFINE r == ControlRecord("ABORT", t, att[t].prev)
           n == NextLsn(log)
<1>1. t \in Nat /\ att[t] \in Transaction /\ TxnOK(Records(log), t, att[t]) /\ n \in Nat
  BY Basics
<1>2. att[t].prev \in Lsn /\ Names(Records(log), t, att[t].prev) /\ att[t].op = NoOp
  BY <1>1 DEF Transaction, TxnOK, Lsn, abort, Growing
<1>3. r \in RecordSet /\ r.type = "ABORT" /\ r.txn = t /\ r.prev = att[t].prev
  BY <1>1, <1>2, ControlIsRecord DEF ControlRecord
<1>4. Fits(Records(log), r)
  BY <1>2, <1>3 DEF Fits
<1>5. log' = Appended(log, r) /\ Flushed(log) /\ r.type # "TXN_END"
  BY <1>3, Basics DEF abort
<1>6. /\ att' \in [DOMAIN att -> Transaction]
      /\ att'[t].prev = n
      /\ att'[t].state = "ABORTED"
      /\ att'[t].undo = att[t].prev
      /\ att'[t].op = att[t].op
      /\ \A u \in DOMAIN att : u # t => att'[u] = att[u]
  <2>1. att' = [att EXCEPT ![t].prev = n, ![t].state = "ABORTED", ![t].undo = att[t].prev]
    BY DEF abort
  <2>2. att \in [DOMAIN att -> Transaction]
    BY Basics, MapFacts
  <2> QED BY <2>1, <2>2, <1>1, <1>2 DEF Transaction
<1> HIDE DEF r
<1>8. /\ LogOK' /\ Carried
      /\ Names(Records(log'), t, n)
      /\ Records(log')[n + 1] = r
      /\ Extends(Records(log), Records(log'))
      /\ Records(log') \in Seq(RecordSet)
  BY <1>3, <1>4, <1>5, AppendKeeps
<1>9. TxnOK(Records(log'), t, att'[t])
  <2>1. Names(Records(log'), t, att[t].prev)
    BY <1>2, <1>8, NamesKept, Basics
  <2> QED BY <1>6, <2>1, <1>2, <1>3, <1>8 DEF TxnOK
<1>10. UNCHANGED <<mem, dirty, disk, platter, locks, next_txn_id, ckpt, ckpts, mode, rec, crashes>> /\ mode = "up"
  BY DEF abort, CanCall, pageVars, ckptVars, runVars
<1>11. TxnsOK(Records(log'), att', next_txn_id')
  BY <1>6, <1>8, <1>9, <1>10, TxnChanged, Basics
<1>12. StateOK'
  BY <1>8, <1>10, <1>11 DEF Inv, StateOK, Carried
<1> QED BY <1>8, <1>12 DEF Inv

\* The end of commit: the COMMIT record is stable before TXN_END exists.
LEMMA CommitForceKeeps ==
  ASSUME Inv, NEW t \in DOMAIN att, commit_force(t)
  PROVE  Inv'
<1> DEFINE r == ControlRecord("TXN_END", t, att[t].prev)
           l == FlushedTo(log, att[t].prev)
<1>1. t \in Nat /\ att[t] \in Transaction /\ TxnOK(Records(log), t, att[t])
  BY Basics
<1>2. att[t].prev \in Lsn /\ Names(Records(log), t, att[t].prev) /\ att[t].prev \in 0..(NextLsn(log) - 1)
  BY <1>1, Basics DEF Transaction, TxnOK, Lsn, Names
<1>3. r \in RecordSet /\ r.type = "TXN_END" /\ r.txn = t /\ r.prev = att[t].prev
  BY <1>1, <1>2, ControlIsRecord DEF ControlRecord
<1>4. Fits(Records(log), r)
  BY <1>2, <1>3 DEF Fits
<1>5. log' = Appended(l, r)
  BY DEF commit_force
<1>6. Flushed(l) /\ att[t].prev < Len(l.stable)
  <2>1. att[t].prev \in Int /\ att[t].prev < NextLsn(log)
    BY <1>2, Basics
  <2>2. LogOK /\ log \in LogSet /\ log.flushed < Len(log.stable)
    BY DEF Inv, LogOK
  <2> QED BY <2>1, <2>2, FlushedLog, FlushedToFacts
<1> HIDE DEF r, l
<1>7. /\ LogOK' /\ Carried
      /\ Extends(Records(log), Records(log'))
      /\ Records(log') \in Seq(RecordSet)
  BY <1>3, <1>4, <1>5, <1>6, AppendKeeps
<1>8. att' = Without(att, t) /\ locks' \subseteq locks
  BY DEF commit_force
<1>9. UNCHANGED <<mem, dirty, disk, platter, next_txn_id, ckpt, ckpts, mode, rec, crashes>> /\ mode = "up"
  BY DEF commit_force, pageVars, ckptVars, runVars
<1>10. TxnsOK(Records(log'), att', next_txn_id')
  BY <1>7, <1>8, <1>9, TxnRemoved, Basics
<1>11. StateOK'
  BY <1>7, <1>8, <1>9, <1>10 DEF Inv, StateOK, Carried
<1> QED BY <1>7, <1>11 DEF Inv

LEMMA AbortEndKeeps ==
  ASSUME Inv, NEW t \in DOMAIN att, abort_end(t)
  PROVE  Inv'
<1> DEFINE r == ControlRecord("TXN_END", t, att[t].prev)
           l == IF att[t].undo = NoLsn THEN log ELSE Synced(log)
<1>1. t \in Nat /\ att[t] \in Transaction /\ TxnOK(Records(log), t, att[t])
  BY Basics
<1>2. /\ att[t].prev \in Lsn
      /\ Names(Records(log), t, att[t].prev)
      /\ Records(log)[att[t].prev + 1].type \in {"ABORT", "CLR"}
  BY <1>1 DEF Transaction, TxnOK, Lsn, abort_end, Aborting
<1>3. r \in RecordSet /\ r.type = "TXN_END" /\ r.txn = t /\ r.prev = att[t].prev
  BY <1>1, <1>2, ControlIsRecord DEF ControlRecord
<1>4. Fits(Records(log), r)
  BY <1>2, <1>3 DEF Fits
<1>5. log' = Appended(l, r)
  BY DEF abort_end
<1>6. Flushed(l)
  BY Basics
<1>7. Records(log)[r.prev + 1].type # "COMMIT"
  BY <1>2, <1>3
<1> HIDE DEF r, l
<1>8. /\ LogOK' /\ Carried
      /\ Extends(Records(log), Records(log'))
      /\ Records(log') \in Seq(RecordSet)
  BY <1>3, <1>4, <1>5, <1>6, <1>7, AppendKeeps
<1>9. att' = Without(att, t) /\ locks' \subseteq locks
  BY DEF abort_end
<1>10. UNCHANGED <<mem, dirty, disk, platter, next_txn_id, ckpt, ckpts, mode, rec, crashes>> /\ mode = "up"
  BY DEF abort_end, Aborting, pageVars, ckptVars, runVars
<1>11. TxnsOK(Records(log'), att', next_txn_id')
  BY <1>8, <1>9, <1>10, TxnRemoved, Basics
<1>12. StateOK'
  BY <1>8, <1>9, <1>10, <1>11 DEF Inv, StateOK, Carried
<1> QED BY <1>8, <1>12 DEF Inv

\* An undo goes from a record that is no BEGIN to an older one of the same
\* transaction.
LEMMA UndoNextNames ==
  ASSUME NEW rs \in Seq(RecordSet), Chained(rs), NEW t \in Nat, NEW n, Names(rs, t, n),
         rs[n + 1].type # "BEGIN"
  PROVE  Names(rs, t, UndoNext(rs[n + 1])) /\ UndoNext(rs[n + 1]) < n /\ rs[n + 1].prev \in Nat
<1> DEFINE r == rs[n + 1]
<1>1. n \in Nat /\ n + 1 \in 1..Len(rs) /\ Len(rs) \in Nat /\ r.txn = t
  BY DEF Names
<1>2. r \in RecordSet /\ Chain(rs, n + 1)
  BY <1>1 DEF Chained
<1>3. r.type \in {"COMMIT", "ABORT", "TXN_END", "UPDATE", "CLR"}
  BY <1>1, <1>2, RecordFacts
<1>4. r.prev \in 0..(n + 1 - 2) /\ rs[r.prev + 1].txn = t
  BY <1>1, <1>2, <1>3 DEF Chain
<1>5. r.type = "CLR" => r.undo_next \in 0..(n + 1 - 2) /\ rs[r.undo_next + 1].txn = t
  BY <1>1, <1>2 DEF Chain
<1>6. UndoNext(r) \in 0..(n + 1 - 2) /\ rs[UndoNext(r) + 1].txn = t
  BY <1>4, <1>5 DEF UndoNext
<1> HIDE DEF r
<1>7. UndoNext(r) \in 0..(Len(rs) - 1) /\ UndoNext(r) < n
  BY <1>1, <1>6
<1> QED BY <1>4, <1>6, <1>7, <1>1 DEF Names, r

\* What the undo of the change of record r leaves of the pages.
LEMMA RestoredPages ==
  ASSUME NEW n \in Nat, PagesOK(n, mem), NEW r \in RecordSet, r.type = "UPDATE"
  PROVE  PagesOK(n + 1, Restored(r, n)) /\ r.page \in Pages
<1>1. r.page \in Pages /\ r.slot \in Slots /\ r.old \in Content /\ mem \in [Pages -> Page]
  BY RecordFacts DEF PagesOK
<1>2. Restored(r, n) \in [Pages -> Page]
  BY <1>1 DEF Restored, Page
<1>3. \A p \in Pages : Restored(r, n)[p].lsn \in {mem[p].lsn, n}
  BY <1>1 DEF Restored, Page
<1>4. \A p \in Pages : Restored(r, n)[p].lsn = 0 \/ Restored(r, n)[p].lsn < n + 1
  <2> TAKE p \in Pages
  <2>1. mem[p].lsn \in Nat /\ (mem[p].lsn = 0 \/ mem[p].lsn < n)
    BY <1>1 DEF PagesOK, Page
  <2> QED BY <1>3, <2>1
<1> QED BY <1>1, <1>2, <1>4 DEF PagesOK

LEMMA AbortStepKeeps ==
  ASSUME Inv, NEW t \in DOMAIN att, abort_step(t)
  PROVE  Inv'
<1> DEFINE n == NextLsn(log)
           u == att[t].undo
           r == RecordAt(log, u)
<1>1. t \in Nat /\ att[t] \in Transaction /\ TxnOK(Records(log), t, att[t]) /\ n \in Nat
      /\ att \in [DOMAIN att -> Transaction]
  BY Basics, MapFacts
<1>2. mode = "up" /\ att[t].state = "ABORTED" /\ u # NoLsn /\ r.type # "BEGIN"
  BY DEF abort_step, Aborting, FullyUndone
<1>3. r = Records(log)[u + 1]
  BY DEF RecordAt
<1>4. /\ Names(Records(log), t, u)
      /\ Names(Records(log), t, att[t].prev)
      /\ att[t].prev \in Lsn
      /\ att[t].op = NoOp
      /\ Records(log)[att[t].prev + 1].type \in {"ABORT", "CLR"}
  BY <1>1, <1>2 DEF TxnOK, Transaction, Lsn
<1>5. Names(Records(log), t, UndoNext(r)) /\ UndoNext(r) \in Lsn /\ r \in RecordSet /\ r.txn = t
  <2>1. Names(Records(log), t, UndoNext(r))
    BY <1>1, <1>2, <1>3, <1>4, UndoNextNames, Basics
  <2>2. UndoNext(r) \in Nat
    BY <2>1 DEF Names
  <2>3. r \in RecordSet /\ r.txn = t
    BY <1>3, <1>4, Basics DEF Names
  <2> QED BY <2>1, <2>2, <2>3 DEF Lsn
<1>6. UNCHANGED <<disk, platter, locks, next_txn_id, ckpt, ckpts, mode, rec, crashes>>
  BY DEF abort_step, ckptVars, runVars
<1>7. CASE r.type = "UPDATE"
  <2> DEFINE c == Compensation(r, att[t].prev)
  <2>1. log' = Appended(Synced(log), c) /\ mem' = Restored(r, n) /\ dirty' = dirty \cup {r.page}
    BY <1>7 DEF abort_step
  <2>2. /\ att' \in [DOMAIN att -> Transaction]
        /\ att'[t].prev = n
        /\ att'[t].state = "ABORTED"
        /\ att'[t].undo = UndoNext(r)
        /\ att'[t].op = NoOp
        /\ \A v \in DOMAIN att : v # t => att'[v] = att[v]
    <3>1. att' = [att EXCEPT ![t].prev = n, ![t].undo = UndoNext(r)]
      BY <1>7 DEF abort_step
    <3> QED BY <3>1, <1>1, <1>2, <1>4, <1>5 DEF Transaction
  <2>3. /\ c \in RecordSet /\ c.type = "CLR" /\ c.txn = t
        /\ c.prev = att[t].prev /\ c.undo_next = UndoNext(r)
    <3>1. c.type = "CLR" /\ c.txn = r.txn /\ c.prev = att[t].prev /\ c.undo_next = UndoNext(r)
      BY <1>7 DEF Compensation, ClrRecord, UndoNext
    <3> QED BY <3>1, <1>4, <1>5, <1>7, CompensationIsRecord
  <2>4. Fits(Records(log), c)
    BY <1>4, <1>5, <2>3 DEF Fits
  <2>5. Flushed(Synced(log)) /\ c.type # "TXN_END"
    BY <2>3, Basics
  <2> HIDE DEF c
  <2>6. /\ LogOK' /\ Carried
        /\ Names(Records(log'), t, n)
        /\ Records(log')[n + 1] = c
        /\ NextLsn(log') = n + 1
        /\ Extends(Records(log), Records(log'))
        /\ Records(log') \in Seq(RecordSet)
    BY <2>1, <2>3, <2>4, <2>5, AppendKeeps
  <2>7. Names(Records(log'), t, UndoNext(r))
    BY <1>5, <2>6, NamesKept, Basics
  <2>8. TxnOK(Records(log'), t, att'[t])
    BY <2>2, <2>3, <2>6, <2>7 DEF TxnOK
  <2>9. TxnsOK(Records(log'), att', next_txn_id')
    BY <2>2, <2>6, <2>8, <1>6, TxnChanged, Basics
  <2>10. PagesOK(NextLsn(log'), mem') /\ dirty' \subseteq Pages
    <3>1. PagesOK(n, mem) /\ dirty \subseteq Pages
      BY DEF Inv, StateOK
    <3> QED BY <3>1, <2>1, <2>6, <1>1, <1>5, <1>7, RestoredPages
  <2>11. StateOK'
    BY <1>2, <1>6, <2>6, <2>9, <2>10 DEF Inv, StateOK, Carried
  <2> QED BY <2>6, <2>11 DEF Inv
<1>8. CASE r.type # "UPDATE"
  <2>1. log' = Synced(log) /\ UNCHANGED <<mem, dirty>>
    BY <1>8 DEF abort_step
  <2>2. /\ att' \in [DOMAIN att -> Transaction]
        /\ att'[t].prev = att[t].prev
        /\ att'[t].state = "ABORTED"
        /\ att'[t].undo = UndoNext(r)
        /\ att'[t].op = NoOp
        /\ \A v \in DOMAIN att : v # t => att'[v] = att[v]
    <3>1. att' = [att EXCEPT ![t].undo = UndoNext(r)]
      BY <1>8 DEF abort_step
    <3> QED BY <3>1, <1>1, <1>2, <1>4, <1>5 DEF Transaction
  <2>3. /\ LogOK' /\ Carried
        /\ Records(log') = Records(log)
        /\ Extends(Records(log), Records(log'))
        /\ Records(log') \in Seq(RecordSet)
    BY <2>1, QuietKeeps, Basics
  <2>4. TxnOK(Records(log'), t, att'[t])
    BY <2>2, <2>3, <1>4, <1>5 DEF TxnOK
  <2>5. TxnsOK(Records(log'), att', next_txn_id')
    BY <2>2, <2>3, <2>4, <1>6, TxnChanged, Basics
  <2>6. StateOK'
    BY <1>2, <1>6, <2>1, <2>3, <2>5 DEF Inv, StateOK, Carried
  <2> QED BY <2>3, <2>6 DEF Inv
<1> QED BY <1>7, <1>8

LEMMA AbortSkipKeeps ==
  ASSUME Inv, NEW t \in DOMAIN att, abort_skip(t)
  PROVE  Inv'
<1> DEFINE u == att[t].undo
           r == RecordAt(log, u)
<1>1. t \in Nat /\ att[t] \in Transaction /\ TxnOK(Records(log), t, att[t])
      /\ att \in [DOMAIN att -> Transaction]
  BY Basics, MapFacts
<1>2. mode = "up" /\ att[t].state = "ABORTED" /\ u # NoLsn /\ r.type = "UPDATE"
  BY DEF abort_skip, Aborting, FullyUndone
<1>3. r = Records(log)[u + 1]
  BY DEF RecordAt
<1>4. /\ Names(Records(log), t, u)
      /\ Names(Records(log), t, att[t].prev)
      /\ att[t].op = NoOp
      /\ Records(log)[att[t].prev + 1].type \in {"ABORT", "CLR"}
  BY <1>1, <1>2 DEF TxnOK, Transaction
<1>5. Names(Records(log), t, r.prev) /\ r.prev \in Lsn
  <2>1. Names(Records(log), t, UndoNext(r))
    BY <1>1, <1>2, <1>3, <1>4, UndoNextNames, Basics
  <2>2. UndoNext(r) = r.prev
    BY <1>2 DEF UndoNext
  <2> QED BY <2>1, <2>2 DEF Names, Lsn
<1>6. UNCHANGED <<mem, dirty, disk, platter, locks, next_txn_id, ckpt, ckpts, mode, rec, crashes>>
      /\ log' = Synced(log)
  BY DEF abort_skip, pageVars, ckptVars, runVars
<1>7. /\ att' \in [DOMAIN att -> Transaction]
      /\ att'[t].prev = att[t].prev
      /\ att'[t].state = "ABORTED"
      /\ att'[t].undo = r.prev
      /\ att'[t].op = NoOp
      /\ \A v \in DOMAIN att : v # t => att'[v] = att[v]
  <2>1. att' = [att EXCEPT ![t].undo = r.prev]
    BY DEF abort_skip
  <2> QED BY <2>1, <1>1, <1>2, <1>4, <1>5 DEF Transaction
<1>8. /\ LogOK' /\ Carried
      /\ Records(log') = Records(log)
      /\ Extends(Records(log), Records(log'))
      /\ Records(log') \in Seq(RecordSet)
  BY <1>6, QuietKeeps, Basics
<1>9. TxnOK(Records(log'), t, att'[t])
  BY <1>7, <1>8, <1>4, <1>5 DEF TxnOK
<1>10. TxnsOK(Records(log'), att', next_txn_id')
  BY <1>7, <1>8, <1>9, <1>6, TxnChanged, Basics
<1>11. StateOK'
  BY <1>2, <1>6, <1>8, <1>10 DEF Inv, StateOK, Carried
<1> QED BY <1>8, <1>11 DEF Inv

-----------------------------------------------------------------------------
(* Log and page writes.                                                    *)

LEMMA FlushLogKeeps ==
  ASSUME Inv, FlushLog
  PROVE  Inv'
<1>1. LogOK' /\ Carried
  BY QuietKeeps, Basics DEF FlushLog
<1>2. UNCHANGED <<mem, dirty, disk, platter, att, locks, next_txn_id, ckpt, ckpts, mode, rec, crashes>>
      /\ mode = "up"
  BY DEF FlushLog, pageVars, txnVars, ckptVars, runVars
<1>3. StateOK'
  BY <1>1, <1>2 DEF Inv, StateOK, Carried
<1> QED BY <1>1, <1>3 DEF Inv

\* enforce_wal: once the log is flushed up to the page's LSN, that LSN is on
\* stable storage.
LEMMA WalHolds ==
  ASSUME Inv, NEW p \in Pages, NEW n \in Int, mem[p].lsn <= n, n = 0 \/ n < NextLsn(log)
  PROVE  LET l == FlushedTo(log, n) IN
         /\ Flushed(l)
         /\ mem[p].lsn = 0 \/ mem[p].lsn < Len(l.stable)
<1>1. mem[p].lsn \in Nat /\ (mem[p].lsn = 0 \/ mem[p].lsn < NextLsn(log))
  BY DEF Inv, StateOK, PagesOK, Page
<1>2. LogOK /\ log \in LogSet /\ log.flushed < Len(log.stable)
  BY DEF Inv, LogOK
<1>3. Flushed(FlushedTo(log, n))
  BY <1>2, FlushedLog
<1>4. n < NextLsn(log) => n < Len(FlushedTo(log, n).stable)
  BY <1>2, FlushedToFacts
<1>5. Len(FlushedTo(log, n).stable) \in Nat
  BY <1>3, LogFacts DEF Flushed
<1> QED BY <1>1, <1>3, <1>4, <1>5

LEMMA WritePageKeeps ==
  ASSUME Inv, NEW p \in Pages, WritePage(p)
  PROVE  Inv'
<1> DEFINE n == mem[p].lsn
<1>1. n \in Int /\ (n = 0 \/ n < NextLsn(log)) /\ n <= n
  BY DEF Inv, StateOK, PagesOK, Page
<1>2. log' = FlushedTo(log, n) /\ Flushed(log') /\ (n = 0 \/ n < Len(log'.stable))
  BY <1>1, WalHolds DEF WritePage
<1>3. LogOK' /\ Carried
  BY <1>2, QuietKeeps
<1>4. PagesOK(Len(log'.stable), disk')
  <2>1. PagesOK(Len(log'.stable), disk) /\ mem \in [Pages -> Page]
    BY <1>3 DEF Carried, Inv, StateOK, PagesOK
  <2>2. disk' = [disk EXCEPT ![p] = mem[p]]
    BY DEF WritePage
  <2> QED BY <1>2, <2>1, <2>2 DEF PagesOK
<1>5. UNCHANGED <<mem, platter, att, locks, next_txn_id, ckpt, ckpts, mode, rec, crashes>>
      /\ dirty' \subseteq Pages
  BY DEF WritePage, txnVars, ckptVars, runVars, Inv, StateOK
<1>6. mode \in {"down", "redo"} => log'.pending = <<>>
  BY <1>2 DEF Flushed, Inv, StateOK
<1>7. StateOK'
  BY <1>3, <1>4, <1>5, <1>6 DEF Inv, StateOK, Carried
<1> QED BY <1>3, <1>7 DEF Inv

LEMMA WriteBackKeeps ==
  ASSUME Inv, NEW p \in Pages, WriteBack(p)
  PROVE  Inv'
<1>1. log' = log /\ LogOK' /\ Carried
  BY QuietKeeps, Basics DEF WriteBack, logVars
<1>2. PagesOK(Len(log'.stable), platter')
  <2>1. platter' = [platter EXCEPT ![p] = disk[p]]
    BY DEF WriteBack
  <2>2. PagesOK(Len(log'.stable), disk) /\ PagesOK(Len(log'.stable), platter)
    BY <1>1 DEF Carried
  <2> QED BY <2>1, <2>2 DEF PagesOK
<1>3. UNCHANGED <<mem, dirty, disk, att, locks, next_txn_id, ckpt, ckpts, mode, rec, crashes>>
  BY DEF WriteBack, txnVars, ckptVars, runVars
<1>4. StateOK'
  BY <1>1, <1>2, <1>3 DEF Inv, StateOK, Carried
<1> QED BY <1>1, <1>4 DEF Inv

-----------------------------------------------------------------------------
(* CheckpointManager.                                                      *)

LEMMA CheckpointKeeps ==
  ASSUME Inv, checkpoint
  PROVE  Inv'
<1> DEFINE r == ControlRecord("CHECKPOINT_BEGIN", NoTxn, NoLsn)
<1>1. r \in RecordSet /\ r.type = "CHECKPOINT_BEGIN"
  <2>1. <<>> \in TxnMap /\ <<>> \in PageMap
    BY EmptyMap DEF TxnMap, PageMap
  <2> QED BY <2>1, CheckpointsAreRecords DEF ControlRecord
<1>2. Fits(Records(log), r) /\ r.type # "TXN_END"
  BY <1>1 DEF Fits
<1>3. log' = Appended(log, r)
  BY DEF checkpoint
<1> HIDE DEF r
<1>4. LogOK' /\ Carried
  BY <1>1, <1>2, <1>3, AppendKeeps, Basics
<1>5. CkptOK(Records(log'), ckpt')
  <2>1. ckpt' = [ckpt EXCEPT !.phase = "att"] /\ CkptOK(Records(log'), ckpt)
    BY <1>4 DEF checkpoint, Carried
  <2> QED BY <2>1 DEF CkptOK
<1>6. UNCHANGED <<mem, dirty, disk, platter, att, locks, next_txn_id, mode, rec, crashes>>
      /\ mode = "up" /\ ckpts' \in Nat
  BY DEF checkpoint, CanCall, pageVars, txnVars, runVars, Inv, StateOK
<1>7. StateOK'
  BY <1>4, <1>5, <1>6 DEF Inv, StateOK, Carried
<1> QED BY <1>4, <1>7 DEF Inv

LEMMA AttSnapshotKeeps ==
  ASSUME Inv, get_att_snapshot
  PROVE  Inv'
<1> DEFINE a == [t \in DOMAIN att |-> att[t].prev]
<1>1. log' = log /\ LogOK' /\ Carried
  BY QuietKeeps, Basics DEF get_att_snapshot, logVars
<1>2. Running(Records(log), a)
  <2>1. DOMAIN att \in SUBSET Nat /\ \A t \in DOMAIN att : att[t].prev \in Nat
    BY Basics DEF Transaction
  <2>2. a \in [DOMAIN att -> Nat]
    BY <2>1
  <2>3. a \in TxnMap
    BY <2>1, <2>2, MapIntro DEF TxnMap
  <2>4. ASSUME NEW t \in DOMAIN att
        PROVE  Names(Records(log), t, att[t].prev) /\ Records(log)[att[t].prev + 1].type \in Live
    <3>1. TxnOK(Records(log), t, att[t]) /\ att[t] \in Transaction /\ att[t].state # "COMMITTED"
      BY Basics DEF get_att_snapshot, MutexFree
    <3> QED BY <3>1 DEF TxnOK, Transaction, Live
  <2> QED BY <2>3, <2>4 DEF Running
<1>3. CkptOK(Records(log), ckpt')
  <2>1. ckpt' = [ckpt EXCEPT !.phase = "dpt", !.att = a] /\ CkptOK(Records(log), ckpt)
    BY Basics DEF get_att_snapshot
  <2> QED BY <1>2, <2>1 DEF CkptOK, Running
<1>4. UNCHANGED <<mem, dirty, disk, platter, att, locks, next_txn_id, ckpts, mode, rec, crashes>> /\ mode = "up"
  BY DEF get_att_snapshot, pageVars, txnVars, runVars
<1>5. StateOK'
  BY <1>1, <1>3, <1>4 DEF Inv, StateOK, Carried
<1> QED BY <1>1, <1>5 DEF Inv

LEMMA DirtySnapshotKeeps ==
  ASSUME Inv, get_dirty_pages
  PROVE  Inv'
<1> DEFINE d == [p \in dirty |-> mem[p].lsn]
<1>1. log' = log /\ LogOK' /\ Carried
  BY QuietKeeps, Basics DEF get_dirty_pages, logVars
<1>2. d \in PageMap
  <2>1. dirty \in SUBSET Pages /\ d \in [dirty -> Nat]
    BY DEF Inv, StateOK, PagesOK, Page
  <2> QED BY <2>1, MapIntro DEF PageMap
<1>3. CkptOK(Records(log), ckpt')
  <2>1. ckpt' = [ckpt EXCEPT !.phase = "end", !.dpt = d] /\ CkptOK(Records(log), ckpt)
    BY Basics DEF get_dirty_pages
  <2> QED BY <1>2, <2>1 DEF CkptOK
<1>4. UNCHANGED <<mem, dirty, disk, platter, att, locks, next_txn_id, ckpts, mode, rec, crashes>> /\ mode = "up"
  BY DEF get_dirty_pages, pageVars, txnVars, runVars
<1>5. StateOK'
  BY <1>1, <1>3, <1>4 DEF Inv, StateOK, Carried
<1> QED BY <1>1, <1>5 DEF Inv

LEMMA EmptyTables ==
  ASSUME NEW rs
  PROVE  /\ <<>> \in TxnMap /\ <<>> \in PageMap /\ Running(rs, <<>>)
         /\ CkptOK(rs, IdleCheckpoint)
         /\ RecOK(rs, IdleRecovery)
<1>1. <<>> \in TxnMap /\ <<>> \in PageMap /\ DOMAIN <<>> = {}
  BY EmptyMap DEF TxnMap, PageMap
<1>2. Running(rs, <<>>)
  BY <1>1 DEF Running
<1>3. CkptOK(rs, IdleCheckpoint)
  BY <1>1, <1>2 DEF CkptOK, IdleCheckpoint, Lsn
<1>4. RecOK(rs, IdleRecovery)
  BY <1>1, <1>2 DEF RecOK, IdleRecovery, Lsn
<1> QED BY <1>1, <1>2, <1>3, <1>4

LEMMA CheckpointEndKeeps ==
  ASSUME Inv, checkpoint_end
  PROVE  Inv'
<1> DEFINE r == CheckpointEnd(ckpt.att, ckpt.dpt)
           n == NextLsn(log)
<1>1. ckpt.att \in TxnMap /\ ckpt.dpt \in PageMap /\ Running(Records(log), ckpt.att) /\ n \in Nat
  BY Basics DEF CkptOK
<1>2. r \in RecordSet /\ r.type = "CHECKPOINT_END" /\ r.att = ckpt.att
  BY <1>1, CheckpointsAreRecords DEF CheckpointEnd
<1>3. Fits(Records(log), r) /\ r.type # "TXN_END"
  BY <1>1, <1>2 DEF Fits
<1>4. log' = Appended(log, r)
  BY DEF checkpoint_end
<1> HIDE DEF r
<1>5. LogOK' /\ Carried /\ Names(Records(log'), r.txn, n)
  BY <1>2, <1>3, <1>4, AppendKeeps, Basics
<1>6. CkptOK(Records(log'), ckpt')
  <2>1. ckpt' = [phase |-> "flush", att |-> <<>>, dpt |-> <<>>, lsn |-> n]
    BY DEF checkpoint_end, IdleCheckpoint
  <2>2. n \in 0..(Len(Records(log')) - 1)
    BY <1>5 DEF Names
  <2> QED BY <1>1, <2>1, <2>2, EmptyTables DEF CkptOK, Lsn
<1>7. UNCHANGED <<mem, dirty, disk, platter, att, locks, next_txn_id, ckpts, mode, rec, crashes>> /\ mode = "up"
  BY DEF checkpoint_end, pageVars, txnVars, runVars
<1>8. StateOK'
  BY <1>5, <1>6, <1>7 DEF Inv, StateOK, Carried
<1> QED BY <1>5, <1>8 DEF Inv

\* flush_all_pages forces the log for every page it writes.
LEMMA ForcedForPagesFacts ==
  ASSUME Inv
  PROVE  LET l == ForcedForPages(log) IN
         /\ Flushed(l)
         /\ \A p \in dirty : mem[p].lsn = 0 \/ mem[p].lsn < Len(l.stable)
<1>1. CASE dirty = {}
  BY <1>1, Basics DEF ForcedForPages
<1>2. CASE dirty # {}
  <2> DEFINE S == {mem[p].lsn : p \in dirty}
  <2>1. dirty \subseteq Pages /\ NextLsn(log) \in Nat
    BY Basics DEF Inv, StateOK
  <2>2. \A p \in Pages : mem[p].lsn \in Nat /\ (mem[p].lsn = 0 \/ mem[p].lsn < NextLsn(log))
    BY DEF Inv, StateOK, PagesOK, Page
  <2>3. S \in SUBSET Int /\ S # {} /\ \A x \in S : x <= NextLsn(log)
    BY <1>2, <2>1, <2>2
  <2>4. Max(S) \in S /\ \A x \in S : x <= Max(S)
    <3>1. NextLsn(log) \in Int
      BY <2>1
    <3> HIDE DEF S
    <3> QED BY <3>1, <2>3, MaxOf
  <2>5. Max(S) \in Int /\ (Max(S) = 0 \/ Max(S) < NextLsn(log))
    BY <2>1, <2>2, <2>4
  <2>6. ForcedForPages(log) = FlushedTo(log, Max(S))
    BY <1>2 DEF ForcedForPages
  <2>7. \A p \in dirty : p \in Pages /\ mem[p].lsn <= Max(S)
    BY <2>1, <2>4
  <2> HIDE DEF S
  <2>8. Flushed(ForcedForPages(log))
    <3>1. LogOK
      BY DEF Inv
    <3> QED BY <2>5, <2>6, <3>1, FlushedLog
  <2> QED BY <2>5, <2>6, <2>7, <2>8, WalHolds
<1> QED BY <1>1, <1>2

LEMMA CheckpointFlushKeeps ==
  ASSUME Inv, checkpoint_flush
  PROVE  Inv'
<1>1. log' = ForcedForPages(log) /\ Flushed(log')
      /\ \A p \in dirty : mem[p].lsn = 0 \/ mem[p].lsn < Len(log'.stable)
  BY ForcedForPagesFacts DEF checkpoint_flush
<1>2. LogOK' /\ Carried /\ Records(log') = Records(log)
  BY <1>1, QuietKeeps
<1>3. PagesOK(Len(log'.stable), disk')
  <2>1. disk' = [p \in Pages |-> IF p \in dirty THEN mem[p] ELSE disk[p]]
    BY DEF checkpoint_flush
  <2>2. dirty \in SUBSET Pages /\ mem \in [Pages -> Page] /\ PagesOK(Len(log'.stable), disk)
    BY <1>2 DEF Inv, StateOK, PagesOK, Carried
  <2> QED BY <1>1, <2>1, <2>2 DEF PagesOK
<1>4. CkptOK(Records(log'), ckpt')
  <2>1. ckpt' = [ckpt EXCEPT !.phase = "force"] /\ CkptOK(Records(log'), ckpt) /\ ckpt.phase = "flush"
    BY <1>2 DEF checkpoint_flush, Carried
  <2> QED BY <2>1 DEF CkptOK
<1>5. UNCHANGED <<mem, platter, att, locks, next_txn_id, ckpts, mode, rec, crashes>>
      /\ mode = "up" /\ dirty' = {}
  BY DEF checkpoint_flush, txnVars, runVars
<1>6. StateOK'
  BY <1>2, <1>3, <1>4, <1>5 DEF Inv, StateOK, Carried
<1> QED BY <1>2, <1>6 DEF Inv

LEMMA CheckpointForceKeeps ==
  ASSUME Inv, checkpoint_force
  PROVE  Inv'
<1>1. ckpt.lsn \in Int
  BY Basics DEF CkptOK, Lsn, NoLsn
<1>2. log' = FlushedTo(log, ckpt.lsn) /\ Flushed(log')
  <2>1. LogOK
    BY DEF Inv
  <2> QED BY <1>1, <2>1, FlushedLog DEF checkpoint_force
<1>3. LogOK' /\ Carried
  BY <1>2, QuietKeeps
<1>4. ckpt' = IdleCheckpoint /\ CkptOK(Records(log'), ckpt')
  BY EmptyTables DEF checkpoint_force
<1>5. UNCHANGED <<mem, dirty, disk, platter, att, locks, next_txn_id, ckpts, mode, rec, crashes>> /\ mode = "up"
  BY DEF checkpoint_force, pageVars, txnVars, runVars
<1>6. StateOK'
  BY <1>3, <1>4, <1>5 DEF Inv, StateOK, Carried
<1> QED BY <1>3, <1>6 DEF Inv

-----------------------------------------------------------------------------
(* Crashes and RecoveryManager.                                            *)

LEMMA CrashKeeps ==
  ASSUME Inv, NEW k \in 0..Len(log.pending), Crash(k)
  PROVE  Inv'
<1>1. log \in LogSet /\ log' = Reopened(log, k)
  BY Basics DEF Crash
<1>2. /\ log' \in LogSet
      /\ log'.pending = <<>>
      /\ log'.flushed < Len(log'.stable)
      /\ Records(log') = log'.stable
      /\ Len(log'.stable) \in Len(log.stable)..NextLsn(log)
      /\ Agree(Records(log), Records(log'), Len(Records(log')))
  BY <1>1, ReopenedFacts
<1>3. /\ Records(log') \in Seq(RecordSet)
      /\ Len(log.stable) \in Nat /\ Len(log'.stable) \in Nat
      /\ Len(log.stable) <= Len(log'.stable)
      /\ NextLsn(log') = Len(log'.stable)
  BY <1>1, <1>2, LogFacts, Basics
<1>4. Chained(Records(log')) /\ ForcedOK(Records(log'), Len(log'.stable))
  BY <1>2, <1>3, ChainedCut, ForcedCut, Basics DEF Inv, LogOK
<1>5. LogOK'
  BY <1>2, <1>4 DEF LogOK
<1>6. PagesOK(Len(log'.stable), disk) /\ PagesOK(Len(log'.stable), platter)
  BY <1>3, PagesKept DEF Inv, StateOK
<1>7. PagesOK(Len(log'.stable), disk') /\ PagesOK(NextLsn(log'), mem')
  BY <1>3, <1>6 DEF Crash, Surviving
<1>8. TxnsOK(Records(log'), att', next_txn_id')
  <2>1. att' = <<>> /\ next_txn_id' = 0
    BY DEF Crash
  <2>2. <<>> \in Maps(Nat, Transaction) /\ DOMAIN <<>> = {}
    BY EmptyMap
  <2> QED BY <2>1, <2>2 DEF TxnsOK
<1>9. CkptOK(Records(log'), ckpt') /\ RecOK(Records(log'), rec')
  BY EmptyTables DEF Crash
<1>10. /\ dirty' = {} /\ locks' = {} /\ att' = <<>> /\ ckpt' = IdleCheckpoint /\ mode' = "down"
       /\ UNCHANGED <<platter, ckpts>> /\ crashes' \in Nat
  BY DEF Crash, Inv, StateOK
<1>11. StateOK'
  BY <1>2, <1>6, <1>7, <1>8, <1>9, <1>10 DEF Inv, StateOK
<1> QED BY <1>5, <1>11 DEF Inv

LEMMA LastCheckpointFacts ==
  ASSUME NEW rs \in Seq(RecordSet)
  PROVE  /\ LastCheckpoint(rs) \in 0..Len(rs)
         /\ LastCheckpoint(rs) # 0 => rs[LastCheckpoint(rs)].type = "CHECKPOINT_END"
         /\ \A i \in (LastCheckpoint(rs) + 1)..Len(rs) : rs[i].type # "CHECKPOINT_END"
<1> DEFINE S == {0} \cup {i \in 1..Len(rs) : rs[i].type = "CHECKPOINT_END"}
<1>1. S \in SUBSET Int /\ S # {} /\ Len(rs) \in Int /\ \A x \in S : x <= Len(rs)
  OBVIOUS
<1>2. Max(S) \in S /\ \A x \in S : x <= Max(S)
  <2> HIDE DEF S
  <2> QED BY <1>1, MaxOf
<1>3. LastCheckpoint(rs) = Max(S)
  BY DEF LastCheckpoint
<1>4. Max(S) \in 0..Len(rs) /\ (Max(S) # 0 => rs[Max(S)].type = "CHECKPOINT_END")
  BY <1>1, <1>2
<1>5. ASSUME NEW i \in (Max(S) + 1)..Len(rs)
      PROVE  rs[i].type # "CHECKPOINT_END"
  <2>1. i \in 1..Len(rs) /\ ~(i <= Max(S))
    BY <1>1, <1>4
  <2> QED BY <2>1, <1>2
<1> QED BY <1>3, <1>4, <1>5

\* The positions behind from at which transaction t has a record.
Scanned(rs, from, t) == {i \in (from + 1)..Len(rs) : rs[i].txn # NoTxn /\ rs[i].txn = t}

\* The table that a scan leaves: the last record of every transaction it met,
\* unless that record ended it, and the seed for the others.
LEMMA ScanAttFacts ==
  ASSUME NEW rs \in Seq(RecordSet), NEW from \in 0..Len(rs), NEW seed \in TxnMap
  PROVE  /\ ScanAtt(rs, from, seed) \in TxnMap
         /\ \A t : Scanned(rs, from, t) # {} =>
              /\ Max(Scanned(rs, from, t)) \in Scanned(rs, from, t)
              /\ \A i \in Scanned(rs, from, t) : i <= Max(Scanned(rs, from, t))
              /\ t \in DOMAIN ScanAtt(rs, from, seed) <=>
                   rs[Max(Scanned(rs, from, t))].type \notin {"COMMIT", "TXN_END"}
              /\ t \in DOMAIN ScanAtt(rs, from, seed) =>
                   ScanAtt(rs, from, seed)[t] = Max(Scanned(rs, from, t)) - 1
         /\ \A t : Scanned(rs, from, t) = {} =>
              /\ t \in DOMAIN ScanAtt(rs, from, seed) <=> t \in DOMAIN seed
              /\ t \in DOMAIN ScanAtt(rs, from, seed) => ScanAtt(rs, from, seed)[t] = seed[t]
<1> DEFINE scanned == {i \in (from + 1)..Len(rs) : rs[i].txn # NoTxn}
           lastin(t) == Max({i \in scanned : rs[i].txn = t})
           seen == {rs[i].txn : i \in scanned}
           ended == {t \in seen : rs[lastin(t)].type \in {"COMMIT", "TXN_END"}}
           a == ScanAtt(rs, from, seed)
           of(t) == {i \in (from + 1)..Len(rs) : rs[i].txn # NoTxn /\ rs[i].txn = t}
           last(t) == Max(of(t))
<1>1. a = [t \in (DOMAIN seed \cup seen) \ ended |-> IF t \in seen THEN lastin(t) - 1 ELSE seed[t]]
  BY DEF ScanAtt
<1>2. \A t : of(t) = {i \in scanned : rs[i].txn = t}
  OBVIOUS
<1>3. \A t : lastin(t) = last(t)
  BY <1>2
<1>4. \A t : t \in seen <=> of(t) # {}
  OBVIOUS
<1>5. ASSUME NEW t, of(t) # {}
      PROVE  last(t) \in of(t) /\ \A i \in of(t) : i <= last(t)
  <2>1. of(t) \in SUBSET Int /\ Len(rs) \in Int /\ \A i \in of(t) : i <= Len(rs)
    OBVIOUS
  <2> HIDE DEF of
  <2> QED BY <1>5, <2>1, MaxOf
<1>6. DOMAIN a = (DOMAIN seed \cup seen) \ ended
  BY <1>1
<1> HIDE DEF a, of, last, lastin, scanned
<1>7. ASSUME NEW t, of(t) # {}
      PROVE  /\ t \in DOMAIN a <=> rs[last(t)].type \notin {"COMMIT", "TXN_END"}
             /\ t \in DOMAIN a => a[t] = last(t) - 1
  BY <1>1, <1>3, <1>4, <1>6, <1>7
<1>8. ASSUME NEW t, of(t) = {}
      PROVE  /\ t \in DOMAIN a <=> t \in DOMAIN seed
             /\ t \in DOMAIN a => a[t] = seed[t]
  BY <1>1, <1>4, <1>6, <1>8
<1>9. a \in TxnMap
  <2>1. DOMAIN seed \in SUBSET Nat /\ \A t \in DOMAIN seed : seed[t] \in Nat
    BY MapFacts DEF TxnMap
  <2>2. ASSUME NEW t, of(t) # {}
        PROVE  t \in Nat /\ last(t) - 1 \in Nat
    <3>1. last(t) \in (from + 1)..Len(rs) /\ rs[last(t)].txn # NoTxn /\ rs[last(t)].txn = t
      BY <1>5, <2>2 DEF of
    <3>2. last(t) \in 1..Len(rs)
      BY <3>1
    <3> QED BY <3>1, <3>2, RecordFacts
  <2>3. \A t \in DOMAIN a : t \in Nat /\ a[t] \in Nat
    BY <1>7, <1>8, <2>1, <2>2
  <2>4. a \in [DOMAIN a -> Nat] /\ DOMAIN a \in SUBSET Nat
    BY <1>1, <2>3
  <2> QED BY <2>4, MapIntro DEF TxnMap
<1>10. \A t : Scanned(rs, from, t) = of(t)
  BY DEF Scanned, of
<1> QED BY <1>5, <1>7, <1>8, <1>9, <1>10 DEF a, last

LEMMA ScanDptFacts ==
  ASSUME NEW rs \in Seq(RecordSet), NEW from \in 0..Len(rs), NEW seed \in PageMap
  PROVE  LET d == ScanDpt(rs, from, seed)
             changes(p) == {i \in (from + 1)..Len(rs) : IsChange(rs[i]) /\ rs[i].page = p}
         IN /\ d \in PageMap
            /\ \A p \in DOMAIN seed : p \in DOMAIN d /\ d[p] = seed[p]
            /\ \A p \in Pages \ DOMAIN seed :
                 /\ p \in DOMAIN d <=> changes(p) # {}
                 /\ p \in DOMAIN d => /\ d[p] + 1 \in changes(p)
                                      /\ \A i \in changes(p) : d[p] + 1 <= i
<1> DEFINE d == ScanDpt(rs, from, seed)
           changes(p) == {i \in (from + 1)..Len(rs) : IsChange(rs[i]) /\ rs[i].page = p}
           changed == {p \in Pages : changes(p) # {}}
<1>1. d = [p \in DOMAIN seed \cup changed |-> IF p \in DOMAIN seed THEN seed[p] ELSE Min(changes(p)) - 1]
  BY DEF ScanDpt
<1>2. DOMAIN seed \in SUBSET Pages /\ \A p \in DOMAIN seed : seed[p] \in Nat
  BY MapFacts DEF PageMap
<1>3. ASSUME NEW p, changes(p) # {}
      PROVE  Min(changes(p)) \in changes(p) /\ Min(changes(p)) - 1 \in Nat
             /\ \A i \in changes(p) : Min(changes(p)) <= i
  <2>1. changes(p) \in SUBSET Nat /\ \A i \in changes(p) : i - 1 \in Nat
    OBVIOUS
  <2> HIDE DEF changes
  <2> QED BY <1>3, <2>1, MinOf
<1>4. DOMAIN d = DOMAIN seed \cup changed
  BY <1>1
<1>5. \A p \in DOMAIN d : d[p] \in Nat
  <2> TAKE p \in DOMAIN d
  <2>1. CASE p \in DOMAIN seed
    BY <1>1, <1>2, <1>4, <2>1
  <2>2. CASE p \notin DOMAIN seed
    <3>1. changes(p) # {} /\ d[p] = Min(changes(p)) - 1
      BY <1>1, <1>4, <2>2
    <3> HIDE DEF changes, d
    <3> QED BY <3>1, <1>3
  <2> QED BY <2>1, <2>2
<1>6. d \in [DOMAIN d -> Nat] /\ DOMAIN d \in SUBSET Pages
  BY <1>1, <1>2, <1>4, <1>5
<1>7. d \in PageMap
  BY <1>6, MapIntro DEF PageMap
<1>8. \A p \in DOMAIN seed : p \in DOMAIN d /\ d[p] = seed[p]
  BY <1>1, <1>4
<1>9. ASSUME NEW p \in Pages \ DOMAIN seed
      PROVE  /\ p \in DOMAIN d <=> changes(p) # {}
             /\ p \in DOMAIN d => d[p] + 1 \in changes(p) /\ \A i \in changes(p) : d[p] + 1 <= i
  <2>1. p \in DOMAIN d <=> changes(p) # {}
    BY <1>4
  <2>2. ASSUME p \in DOMAIN d
        PROVE  d[p] + 1 \in changes(p) /\ \A i \in changes(p) : d[p] + 1 <= i
    <3>1. changes(p) # {}
      BY <2>1, <2>2
    <3>2. Min(changes(p)) \in changes(p) /\ \A i \in changes(p) : Min(changes(p)) <= i
      BY <1>3, <3>1
    <3>3. d[p] = Min(changes(p)) - 1
      BY <1>1, <1>4, <2>2
    <3>4. Min(changes(p)) \in Int
      BY <3>2
    <3>5. d[p] + 1 = Min(changes(p))
      <4> HIDE DEF changes, d
      <4> QED BY <3>3, <3>4
    <3> QED BY <3>2, <3>5
  <2> QED BY <2>1, <2>2
<1> QED BY <1>7, <1>8, <1>9

\* A scan from a checkpoint's table leaves live records of their transactions.
LEMMA ScanRunning ==
  ASSUME NEW rs \in Seq(RecordSet), NEW from \in 0..Len(rs), NEW seed, Running(rs, seed)
  PROVE  Running(rs, ScanAtt(rs, from, seed))
<1> DEFINE a == ScanAtt(rs, from, seed)
           of(t) == Scanned(rs, from, t)
           last(t) == Max(of(t))
<1>1. seed \in TxnMap
  BY DEF Running
<1>2. a \in TxnMap
  BY <1>1, ScanAttFacts
<1>3. ASSUME NEW t \in DOMAIN a
      PROVE  Names(rs, t, a[t]) /\ rs[a[t] + 1].type \in Live
  <2>1. CASE of(t) # {}
    <3>1. last(t) \in of(t) /\ rs[last(t)].type \notin {"COMMIT", "TXN_END"} /\ a[t] = last(t) - 1
      BY <1>1, <1>3, <2>1, ScanAttFacts
    <3>2. last(t) \in (from + 1)..Len(rs) /\ rs[last(t)].txn # NoTxn /\ rs[last(t)].txn = t
      BY <3>1 DEF Scanned
    <3> HIDE DEF last
    <3>3. last(t) \in 1..Len(rs) /\ last(t) \in Int /\ a[t] + 1 = last(t) /\ a[t] \in 0..(Len(rs) - 1)
      BY <3>1, <3>2
    <3>4. rs[last(t)].type \in Live
      BY <3>1, <3>2, <3>3, RecordFacts DEF Live, RecordSet
    <3> QED BY <3>2, <3>3, <3>4 DEF Names
  <2>2. CASE of(t) = {}
    <3>1. t \in DOMAIN seed /\ a[t] = seed[t]
      BY <1>1, <1>3, <2>2, ScanAttFacts
    <3> QED BY <3>1 DEF Running
  <2> QED BY <2>1, <2>2
<1> QED BY <1>2, <1>3 DEF Running

LEMMA AnalyzeKeeps ==
  ASSUME Inv, analyze
  PROVE  Inv'
<1> DEFINE rs == log.stable
           c == LastCheckpoint(rs)
           a == IF c = 0 THEN <<>> ELSE rs[c].att
           d == IF c = 0 THEN <<>> ELSE rs[c].dpt
<1>1. mode = "down" /\ log.pending = <<>> /\ rs = Records(log) /\ rs \in Seq(RecordSet) /\ Chained(rs)
  BY Basics, LogFacts DEF analyze, Inv, StateOK
<1>2. log' = log /\ LogOK' /\ Carried
  BY QuietKeeps, Basics DEF analyze, logVars
<1>3. rec' = [att |-> ScanAtt(rs, c, a), dpt |-> ScanDpt(rs, c, d), pos |-> NoLsn, to_undo |-> {}]
  BY DEF analyze
<1>4. c \in 0..Len(rs) /\ (c # 0 => rs[c].type = "CHECKPOINT_END")
  BY <1>1, LastCheckpointFacts
<1>5. Running(rs, a) /\ d \in PageMap
  <2>1. CASE c = 0
    BY <2>1, EmptyTables
  <2>2. CASE c # 0
    <3>1. c \in 1..Len(rs) /\ rs[c] \in RecordSet /\ rs[c].type = "CHECKPOINT_END" /\ Chain(rs, c)
      BY <1>1, <1>4, <2>2 DEF Chained
    <3>2. rs[c].att \in TxnMap /\ rs[c].dpt \in PageMap
      BY <3>1, RecordFacts
    <3>3. \A t \in DOMAIN rs[c].att :
             Names(rs, t, rs[c].att[t]) /\ rs[rs[c].att[t] + 1].type \in Live
      BY <3>1 DEF Chain, Names
    <3> QED BY <2>2, <3>2, <3>3 DEF Running
  <2> QED BY <2>1, <2>2
<1> HIDE DEF c, a, d
<1>6. Running(rs, ScanAtt(rs, c, a)) /\ ScanDpt(rs, c, d) \in PageMap
  BY <1>1, <1>4, <1>5, ScanRunning, ScanDptFacts
<1>7. RecOK(Records(log'), rec')
  BY <1>1, <1>2, <1>3, <1>6 DEF RecOK, Running, Lsn
<1>8. UNCHANGED <<mem, dirty, disk, platter, att, locks, next_txn_id, ckpt, ckpts, crashes>> /\ mode' = "redo"
  BY DEF analyze, pageVars, txnVars, ckptVars
<1>9. StateOK'
  BY <1>1, <1>2, <1>7, <1>8 DEF Inv, StateOK, Carried
<1> QED BY <1>2, <1>9 DEF Inv

\* The record that redo takes next.
LEMMA ToRedoFacts ==
  ASSUME Inv, ToRedo # {}
  PROVE  /\ Min(ToRedo) \in ToRedo
         /\ Min(ToRedo) \in Nat /\ Min(ToRedo) < NextLsn(log)
         /\ IsChange(RecordAt(log, Min(ToRedo)))
<1> DEFINE n == Min(ToRedo)
<1>1. rec.pos \in Lsn /\ NextLsn(log) \in Nat
  BY Basics DEF RecOK
<1>2. ToRedo \in SUBSET Nat
  <2>1. \A k \in (rec.pos + 1)..(NextLsn(log) - 1) : k \in Nat
    BY <1>1 DEF Lsn, NoLsn
  <2> QED BY <2>1 DEF ToRedo
<1>3. n \in ToRedo
  BY <1>2, MinOf
<1>4. n \in (rec.pos + 1)..(NextLsn(log) - 1) /\ Redoable(n)
  BY <1>3 DEF ToRedo
<1>5. n \in Nat
  BY <1>2, <1>3
<1> HIDE DEF n
<1>6. n < NextLsn(log) /\ IsChange(RecordAt(log, n))
  BY <1>1, <1>4, <1>5 DEF Redoable
<1> QED BY <1>3, <1>5, <1>6 DEF n

LEMMA RedoSkipKeeps ==
  ASSUME Inv, redo_skip
  PROVE  Inv'
<1> DEFINE n == Min(ToRedo)
<1>1. log' = log /\ LogOK' /\ Carried
  BY QuietKeeps, Basics DEF redo_skip, logVars
<1>2. n \in Nat
  BY ToRedoFacts DEF redo_skip
<1>3. rec' = [rec EXCEPT !.pos = n]
  BY DEF redo_skip
<1> HIDE DEF n
<1>4. RecOK(Records(log'), rec')
  <2>1. RecOK(Records(log), rec)
    BY Basics
  <2> QED BY <1>1, <1>2, <1>3, <2>1 DEF RecOK, Lsn
<1>5. UNCHANGED <<mem, dirty, disk, platter, att, locks, next_txn_id, ckpt, ckpts, mode, crashes>>
      /\ mode = "redo"
  BY DEF redo_skip, pageVars, txnVars, ckptVars
<1>6. StateOK'
  BY <1>1, <1>4, <1>5 DEF Inv, StateOK, Carried
<1> QED BY <1>1, <1>6 DEF Inv

LEMMA RedoKeeps ==
  ASSUME Inv, redo
  PROVE  Inv'
<1> DEFINE n == Min(ToRedo)
           r == RecordAt(log, n)
<1>1. log' = log /\ LogOK' /\ Carried /\ NextLsn(log') = NextLsn(log)
  BY QuietKeeps, Basics DEF redo, logVars
<1>2. NextLsn(log) \in Nat
  BY Basics
<1>5. n \in Nat /\ n < NextLsn(log) /\ IsChange(r)
  BY ToRedoFacts DEF redo
<1>6. r \in RecordSet /\ r.page \in Pages /\ r.slot \in Slots /\ r.new \in Content
  <2>1. r = Records(log)[n + 1] /\ n + 1 \in 1..Len(Records(log))
    <3> HIDE DEF n
    <3> QED BY <1>2, <1>5, Basics DEF RecordAt
  <2>2. r \in RecordSet
    BY <2>1, Basics
  <2> HIDE DEF r
  <2> QED BY <2>2, <1>5, RecordFacts DEF IsChange
<1> HIDE DEF n, r
<1>7. mem' = [mem EXCEPT ![r.page].slots[r.slot] = r.new, ![r.page].lsn = n]
      /\ dirty' = dirty \cup {r.page} /\ rec' = [rec EXCEPT !.pos = n]
  BY DEF redo, n, r
<1>8. PagesOK(NextLsn(log'), mem')
  <2>1. PagesOK(NextLsn(log), mem) /\ mem \in [Pages -> Page]
    BY DEF Inv, StateOK, PagesOK
  <2>2. mem' \in [Pages -> Page]
    BY <1>5, <1>6, <1>7, <2>1 DEF Page
  <2>3. \A p \in Pages : mem'[p].lsn \in {mem[p].lsn, n}
    BY <1>6, <1>7, <2>1 DEF Page
  <2> QED BY <1>1, <1>5, <2>1, <2>2, <2>3 DEF PagesOK
<1>9. RecOK(Records(log'), rec')
  <2>1. RecOK(Records(log), rec)
    BY Basics
  <2> QED BY <1>1, <1>5, <1>7, <2>1 DEF RecOK, Lsn
<1>10. UNCHANGED <<disk, platter, att, locks, next_txn_id, ckpt, ckpts, mode, crashes>>
       /\ dirty' \subseteq Pages /\ mode = "redo"
  BY <1>6, <1>7 DEF redo, txnVars, ckptVars, Inv, StateOK
<1>11. StateOK'
  BY <1>1, <1>8, <1>9, <1>10 DEF Inv, StateOK, Carried
<1> QED BY <1>1, <1>11 DEF Inv

LEMMA RedoEndKeeps ==
  ASSUME Inv, redo_end
  PROVE  Inv'
<1> DEFINE us == {rec.att[t] : t \in DOMAIN rec.att} \ {NoLsn}
<1>1. log' = log /\ LogOK' /\ Carried
  BY QuietKeeps, Basics DEF redo_end, logVars
<1>2. RecOK(Records(log), rec) /\ Running(Records(log), rec.att)
  BY Basics DEF RecOK
<1>3. rec' = [rec EXCEPT !.to_undo = us]
  BY DEF redo_end
<1>4. \A t \in DOMAIN rec.att : /\ rec.att[t] \in 0..(Len(Records(log)) - 1)
                                /\ Records(log)[rec.att[t] + 1].txn = t
  BY <1>2 DEF Running, Names
<1>5. us \in SUBSET Nat
  BY <1>4
<1>6. RecOK(Records(log), rec')
  BY <1>2, <1>3, <1>4, <1>5 DEF RecOK
<1>7. UNCHANGED <<mem, dirty, disk, platter, att, locks, next_txn_id, ckpt, ckpts, crashes>>
      /\ mode' = "undo" /\ mode = "redo"
  BY DEF redo_end, pageVars, txnVars, ckptVars
<1>8. StateOK'
  BY <1>1, <1>6, <1>7 DEF Inv, StateOK, Carried
<1> QED BY <1>1, <1>8 DEF Inv

\* The record that undo takes next.
LEMMA UndoLsnFacts ==
  ASSUME Inv, rec.to_undo # {}
  PROVE  LET r == RecordAt(log, UndoLsn) IN
         /\ UndoLsn \in rec.to_undo
         /\ UndoLsn \in 0..(NextLsn(log) - 1)
         /\ r = Records(log)[UndoLsn + 1]
         /\ r \in RecordSet
         /\ r.txn \in DOMAIN rec.att
         /\ r.txn \in Nat
         /\ Names(Records(log), r.txn, UndoLsn)
         /\ Names(Records(log), r.txn, rec.att[r.txn])
         /\ Records(log)[rec.att[r.txn] + 1].type \in Live
         /\ rec.att[r.txn] \in Lsn
<1> DEFINE rs == Records(log)
           r == RecordAt(log, UndoLsn)
<1>1. RecOK(rs, rec) /\ rs \in Seq(RecordSet) /\ Len(rs) = NextLsn(log) /\ NextLsn(log) \in Nat
  BY Basics
<1>2. /\ rec.to_undo \in SUBSET Int
      /\ \A u \in rec.to_undo : u \in 0..(Len(rs) - 1) /\ rs[u + 1].txn \in DOMAIN rec.att
  BY <1>1 DEF RecOK
<1>3. UndoLsn \in rec.to_undo
  <2>1. \A u \in rec.to_undo : u <= NextLsn(log)
    BY <1>1, <1>2
  <2>2. NextLsn(log) \in Int
    BY <1>1
  <2> QED BY <1>2, <2>1, <2>2, MaxOf DEF UndoLsn
<1>4. r = rs[UndoLsn + 1] /\ UndoLsn \in 0..(NextLsn(log) - 1)
  BY <1>1, <1>2, <1>3 DEF RecordAt
<1>5. r \in RecordSet /\ r.txn \in DOMAIN rec.att
  BY <1>1, <1>2, <1>3, <1>4
<1>6. rec.att \in TxnMap /\ \A t \in DOMAIN rec.att : Names(rs, t, rec.att[t]) /\ rs[rec.att[t] + 1].type \in Live
  BY <1>1 DEF RecOK, Running
<1>7. \A t \in DOMAIN rec.att : t \in Nat /\ rec.att[t] \in Nat
  BY <1>6, MapFacts DEF TxnMap
<1>8. Names(rs, r.txn, UndoLsn)
  BY <1>1, <1>4 DEF Names
<1> HIDE DEF r, rs
<1> QED BY <1>3, <1>4, <1>5, <1>6, <1>7, <1>8 DEF r, rs, Lsn

\* to_undo with u replaced by older records of the same transaction.
LEMMA ToUndoReplaced ==
  ASSUME NEW rs \in Seq(RecordSet), NEW rc, RecOK(rs, rc), NEW u \in rc.to_undo, NEW N \in SUBSET Nat,
         \A x, y \in N : x = y, \A x \in N : Names(rs, rs[u + 1].txn, x)
  PROVE  RecOK(rs, [rc EXCEPT !.to_undo = (rc.to_undo \ {u}) \cup N])
<1> DEFINE us == (rc.to_undo \ {u}) \cup N
           q == [rc EXCEPT !.to_undo = us]
<1>1. us \in SUBSET Nat
  BY DEF RecOK
<1>2. q.to_undo = us /\ q.att = rc.att /\ q \in [att : TxnMap, dpt : PageMap, pos : Lsn, to_undo : SUBSET Nat]
  BY <1>1 DEF RecOK
<1>3. \A x \in us : x \in 0..(Len(rs) - 1) /\ rs[x + 1].txn \in DOMAIN rc.att
  BY DEF RecOK, Names
<1>4. ASSUME NEW x \in us, NEW y \in us, rs[x + 1].txn = rs[y + 1].txn
      PROVE  x = y
  BY <1>4 DEF RecOK, Names
<1> HIDE DEF us, q
<1>5. RecOK(rs, q)
  BY <1>2, <1>3, <1>4 DEF RecOK
<1> QED BY <1>5 DEF us, q

LEMMA UndoUpdateKeeps ==
  ASSUME Inv, undo_update
  PROVE  Inv'
<1> DEFINE n == NextLsn(log)
           r == RecordAt(log, UndoLsn)
           c == Compensation(r, rec.att[r.txn])
           N == {UndoNext(r)} \ {NoLsn}
           rc == [rec EXCEPT !.to_undo = ToUndoAfter(r)]
<1>1. mode = "undo" /\ rec.to_undo # {} /\ r.type = "UPDATE"
  BY DEF undo_update
<1>2. /\ UndoLsn \in rec.to_undo
      /\ r = Records(log)[UndoLsn + 1]
      /\ r \in RecordSet
      /\ r.txn \in DOMAIN rec.att
      /\ r.txn \in Nat
      /\ Names(Records(log), r.txn, UndoLsn)
      /\ Names(Records(log), r.txn, rec.att[r.txn])
      /\ rec.att[r.txn] \in Lsn
      /\ n \in Nat
  BY <1>1, UndoLsnFacts, Basics
<1>3. Names(Records(log), r.txn, UndoNext(r)) /\ UndoNext(r) \in Nat
  <2>1. Names(Records(log), r.txn, UndoNext(r))
    BY <1>1, <1>2, UndoNextNames, Basics
  <2> QED BY <2>1 DEF Names
<1>4. /\ c \in RecordSet /\ c.type = "CLR" /\ c.txn = r.txn
      /\ c.prev = rec.att[r.txn] /\ c.undo_next = UndoNext(r)
  <2>1. c.type = "CLR" /\ c.txn = r.txn /\ c.prev = rec.att[r.txn] /\ c.undo_next = UndoNext(r)
    BY <1>1 DEF Compensation, ClrRecord, UndoNext
  <2> QED BY <2>1, <1>1, <1>2, CompensationIsRecord
<1>5. Fits(Records(log), c) /\ c.type # "TXN_END"
  BY <1>2, <1>3, <1>4 DEF Fits
<1>6. log' = Appended(Synced(log), c) /\ mem' = Restored(r, n) /\ dirty' = dirty \cup {r.page}
      /\ rec' = [rec EXCEPT !.att = With(@, r.txn, n), !.to_undo = ToUndoAfter(r)]
  BY DEF undo_update
<1> HIDE DEF c, r
<1>7. /\ LogOK' /\ Carried
      /\ Names(Records(log'), r.txn, n)
      /\ Records(log')[n + 1] = c
      /\ NextLsn(log') = n + 1
      /\ Extends(Records(log), Records(log'))
      /\ Records(log') \in Seq(RecordSet)
  BY <1>4, <1>5, <1>6, AppendKeeps, Basics
<1>8. PagesOK(NextLsn(log'), mem') /\ dirty' \subseteq Pages
  <2>1. PagesOK(n, mem) /\ dirty \subseteq Pages
    BY DEF Inv, StateOK
  <2> QED BY <2>1, <1>1, <1>2, <1>6, <1>7, RestoredPages DEF r
<1>9. RecOK(Records(log'), rc)
  <2>1. N \in SUBSET Nat /\ (\A x, y \in N : x = y) /\ \A x \in N : Names(Records(log), Records(log)[UndoLsn + 1].txn, x)
    BY <1>2, <1>3
  <2>2. RecOK(Records(log), rec) /\ Records(log) \in Seq(RecordSet)
    BY Basics
  <2>3. rc = [rec EXCEPT !.to_undo = (rec.to_undo \ {UndoLsn}) \cup N]
    BY DEF ToUndoAfter
  <2> HIDE DEF N, rc
  <2>4. RecOK(Records(log), rc)
    BY <1>2, <2>1, <2>2, <2>3, ToUndoReplaced
  <2> QED BY <2>2, <2>4, <1>7, RecKept
<1>10. RecOK(Records(log'), rec')
  <2> DEFINE a == With(rec.att, r.txn, n)
  <2>1. rec.att \in TxnMap /\ rc.att = rec.att /\ rc.to_undo = ToUndoAfter(r)
        /\ rec \in [att : TxnMap, dpt : PageMap, pos : Lsn, to_undo : SUBSET Nat]
        /\ ToUndoAfter(r) \in SUBSET Nat
    <3>1. rec \in [att : TxnMap, dpt : PageMap, pos : Lsn, to_undo : SUBSET Nat]
      BY Basics DEF RecOK
    <3> QED BY <3>1, <1>9 DEF RecOK
  <2>2. a \in TxnMap
    BY <1>2, <2>1, WithMap DEF TxnMap
  <2>3. DOMAIN a = DOMAIN rec.att /\ a[r.txn] = n /\ \A t \in DOMAIN rec.att : t # r.txn => a[t] = rec.att[t]
    BY <1>2 DEF With
  <2> HIDE DEF a
  <2>4. rec' \in [att : TxnMap, dpt : PageMap, pos : Lsn, to_undo : SUBSET Nat]
        /\ rec'.att = a /\ rec'.to_undo = rc.to_undo
    BY <1>6, <2>1, <2>2 DEF a
  <2>5. Running(Records(log'), rec.att)
    BY <1>9, <2>1 DEF RecOK
  <2>6. Running(Records(log'), a)
    <3>1. Records(log')[n + 1].type \in Live
      BY <1>4, <1>7 DEF Live
    <3> QED BY <1>7, <2>2, <2>3, <2>5, <3>1 DEF Running
  <2> HIDE DEF rc
  <2> QED BY <1>9, <2>1, <2>3, <2>4, <2>6 DEF RecOK
<1>11. UNCHANGED <<disk, platter, att, locks, next_txn_id, ckpt, ckpts, mode, crashes>>
  BY DEF undo_update, txnVars, ckptVars
<1>12. StateOK'
  BY <1>1, <1>7, <1>8, <1>10, <1>11 DEF Inv, StateOK, Carried
<1> QED BY <1>7, <1>12 DEF Inv

LEMMA UndoSkipKeeps ==
  ASSUME Inv, undo_skip
  PROVE  Inv'
<1> DEFINE r == RecordAt(log, UndoLsn)
           N == {UndoNext(r)} \ {NoLsn}
<1>1. mode = "undo" /\ rec.to_undo # {} /\ r.type # "BEGIN"
  BY DEF undo_skip, EndsUndo
<1>2. /\ UndoLsn \in rec.to_undo
      /\ r = Records(log)[UndoLsn + 1]
      /\ r.txn \in Nat
      /\ Names(Records(log), r.txn, UndoLsn)
  BY <1>1, UndoLsnFacts
<1>3. Names(Records(log), r.txn, UndoNext(r)) /\ UndoNext(r) \in Nat
  <2>1. Names(Records(log), r.txn, UndoNext(r))
    BY <1>1, <1>2, UndoNextNames, Basics
  <2> QED BY <2>1 DEF Names
<1>4. log' = Synced(log) /\ rec' = [rec EXCEPT !.to_undo = (rec.to_undo \ {UndoLsn}) \cup N]
  BY DEF undo_skip, ToUndoAfter
<1>5. LogOK' /\ Carried /\ Records(log') = Records(log)
  BY <1>4, QuietKeeps, Basics
<1>6. RecOK(Records(log'), rec')
  <2>1. N \in SUBSET Nat /\ (\A x, y \in N : x = y) /\ \A x \in N : Names(Records(log), Records(log)[UndoLsn + 1].txn, x)
    BY <1>2, <1>3
  <2>2. RecOK(Records(log), rec) /\ Records(log) \in Seq(RecordSet)
    BY Basics
  <2> HIDE DEF N
  <2> QED BY <1>2, <1>4, <1>5, <2>1, <2>2, ToUndoReplaced
<1>7. UNCHANGED <<mem, dirty, disk, platter, att, locks, next_txn_id, ckpt, ckpts, mode, crashes>>
  BY DEF undo_skip, pageVars, txnVars, ckptVars
<1>8. StateOK'
  BY <1>1, <1>5, <1>6, <1>7 DEF Inv, StateOK, Carried
<1> QED BY <1>5, <1>8 DEF Inv

LEMMA UndoTxnEndKeeps ==
  ASSUME Inv, undo_txn_end
  PROVE  Inv'
<1> DEFINE r == RecordAt(log, UndoLsn)
           c == ControlRecord("TXN_END", r.txn, rec.att[r.txn])
           a == Without(rec.att, r.txn)
           us == rec.to_undo \ {UndoLsn}
<1>1. mode = "undo" /\ rec.to_undo # {}
  BY DEF undo_txn_end
<1>2. /\ UndoLsn \in rec.to_undo
      /\ r = Records(log)[UndoLsn + 1]
      /\ r.txn \in DOMAIN rec.att
      /\ r.txn \in Nat
      /\ Names(Records(log), r.txn, rec.att[r.txn])
      /\ Records(log)[rec.att[r.txn] + 1].type \in Live
      /\ rec.att[r.txn] \in Lsn
  BY <1>1, UndoLsnFacts
<1>3. c \in RecordSet /\ c.type = "TXN_END" /\ c.txn = r.txn /\ c.prev = rec.att[r.txn]
  BY <1>2, ControlIsRecord DEF ControlRecord
<1>4. Fits(Records(log), c) /\ Records(log)[c.prev + 1].type # "COMMIT"
  BY <1>2, <1>3 DEF Fits, Live
<1>5. log' = Appended(Synced(log), c) /\ rec' = [rec EXCEPT !.att = a, !.to_undo = us]
  BY DEF undo_txn_end
<1> HIDE DEF c, r
<1>6. LogOK' /\ Carried
  BY <1>3, <1>4, <1>5, AppendKeeps, Basics
<1>7. RecOK(Records(log'), rec')
  <2>1. RecOK(Records(log'), rec)
    BY <1>6 DEF Carried
  <2>2. rec.att \in TxnMap /\ us \in SUBSET Nat
        /\ rec \in [att : TxnMap, dpt : PageMap, pos : Lsn, to_undo : SUBSET Nat]
        /\ Running(Records(log'), rec.att)
    BY <2>1 DEF RecOK
  <2>3. a \in TxnMap
    BY <2>2, WithoutMap DEF TxnMap
  <2>4. DOMAIN a = DOMAIN rec.att \ {r.txn} /\ \A t \in DOMAIN rec.att : t # r.txn => a[t] = rec.att[t]
    BY DEF Without
  <2> HIDE DEF a
  <2>5. rec' \in [att : TxnMap, dpt : PageMap, pos : Lsn, to_undo : SUBSET Nat]
        /\ rec'.att = a /\ rec'.to_undo = us
    BY <1>5, <2>2, <2>3 DEF a
  <2>6. Running(Records(log'), a)
    BY <2>2, <2>3, <2>4 DEF Running
  <2>7. ASSUME NEW u \in us
        PROVE  u \in 0..(Len(Records(log')) - 1) /\ Records(log')[u + 1].txn \in DOMAIN a
    <3>1. UndoLsn \in 0..(Len(Records(log)) - 1) /\ u \in rec.to_undo /\ u # UndoLsn
      BY <1>2, Basics DEF RecOK
    <3>2. u \in 0..(Len(Records(log)) - 1) /\ Records(log)[u + 1].txn # r.txn
      BY <1>2, <3>1, Basics DEF RecOK
    <3>3. Extends(Records(log), Records(log')) /\ Records(log) \in Seq(RecordSet)
      BY <1>3, <1>4, <1>5, AppendKeeps, Basics
    <3>4. Records(log')[u + 1] = Records(log)[u + 1]
      BY <3>2, <3>3 DEF Extends, Agree
    <3> QED BY <2>1, <2>4, <3>1, <3>2, <3>4 DEF RecOK
  <2> QED BY <2>1, <2>5, <2>6, <2>7 DEF RecOK
<1>8. UNCHANGED <<mem, dirty, disk, platter, att, locks, next_txn_id, ckpt, ckpts, mode, crashes>>
  BY DEF undo_txn_end, pageVars, txnVars, ckptVars
<1>9. StateOK'
  BY <1>1, <1>6, <1>7, <1>8 DEF Inv, StateOK, Carried
<1> QED BY <1>6, <1>9 DEF Inv

LEMMA RecoverEndKeeps ==
  ASSUME Inv, recover_end
  PROVE  Inv'
<1>1. log' = Synced(log) /\ LogOK' /\ Carried
  BY QuietKeeps, Basics DEF recover_end
<1>2. Len(log'.stable) = NextLsn(log)
  BY <1>1, SyncedFacts DEF Inv, LogOK
<1>3. PagesOK(Len(log'.stable), disk')
  <2>1. disk' = [p \in Pages |-> IF p \in dirty THEN mem[p] ELSE disk[p]]
    BY DEF recover_end
  <2>2. PagesOK(NextLsn(log), mem) /\ PagesOK(Len(log'.stable), disk)
    BY <1>1 DEF Inv, StateOK, Carried
  <2> QED BY <1>2, <2>1, <2>2 DEF PagesOK
<1>4. RecOK(Records(log'), rec')
  BY EmptyTables DEF recover_end
<1>5. UNCHANGED <<mem, platter, att, locks, next_txn_id, ckpt, ckpts, crashes>> /\ dirty' = {} /\ mode' = "up"
  BY DEF recover_end, txnVars, ckptVars
<1>6. StateOK'
  BY <1>1, <1>3, <1>4, <1>5 DEF Inv, StateOK, Carried
<1> QED BY <1>1, <1>6 DEF Inv

-----------------------------------------------------------------------------
(* The invariant holds.                                                    *)

LEMMA InitInv ==
  ASSUME Init
  PROVE  Inv
<1>1. log = [stable |-> <<>>, pending |-> <<>>, flushed |-> NoLsn]
  BY DEF Init, EmptyLog
<1>2. log \in LogSet /\ log.flushed < Len(log.stable)
  BY <1>1 DEF LogSet, Lsn, NoLsn
<1>3. Records(log) = <<>> /\ NextLsn(log) = 0 /\ Len(log.stable) = 0
  BY <1>1 DEF Records, NextLsn
<1>4. LogOK
  BY <1>2, <1>3 DEF LogOK, Chained, ForcedOK
<1>5. PagesOK(0, mem)
  <2>1. EmptyPage \in Page /\ EmptyPage.lsn = 0
    BY DEF EmptyPage, Page, Content
  <2> QED BY <2>1 DEF Init, PagesOK
<1>6. TxnsOK(Records(log), att, next_txn_id)
  <2>1. <<>> \in Maps(Nat, Transaction) /\ DOMAIN <<>> = {}
    BY EmptyMap
  <2> QED BY <2>1 DEF Init, TxnsOK
<1>7. CkptOK(Records(log), ckpt) /\ RecOK(Records(log), rec)
  BY EmptyTables DEF Init
<1>8. StateOK
  BY <1>3, <1>5, <1>6, <1>7 DEF Init, StateOK
<1> QED BY <1>4, <1>8 DEF Inv

\* A client's change of a record is a Modify with a slot of the page.
LEMMA ClientChange ==
  ASSUME NEW t, NEW p \in Pages
  PROVE  /\ \A v \in Value : Insert(t, p, v) => \E s \in Slots : Modify(t, p, s, v) /\ v \in Content
         /\ \A s \in Slots, v \in Value : Update(t, p, s, v) => Modify(t, p, s, v) /\ v \in Content
         /\ \A s \in Slots : Delete(t, p, s) => Modify(t, p, s, Nil) /\ Nil \in Content
<1>1. ASSUME NEW v \in Value, Insert(t, p, v)
      PROVE  Min(FreeSlots(p)) \in Slots /\ Modify(t, p, Min(FreeSlots(p)), v)
  <2>1. FreeSlots(p) # {} /\ FreeSlots(p) \in SUBSET Nat /\ FreeSlots(p) \in SUBSET Slots
    BY <1>1, EngineAssumption DEF Insert, FreeSlots
  <2>2. Min(FreeSlots(p)) \in FreeSlots(p)
    BY <2>1, MinOf
  <2> QED BY <1>1, <2>1, <2>2 DEF Insert
<1> QED BY <1>1 DEF Update, Delete, Content

\* One step of the system, action by action.
LEMMA NextInv ==
  ASSUME Inv, [Next]_vars
  PROVE  Inv'
<1>1. CASE begin
  BY <1>1, BeginKeeps
<1>2. ASSUME NEW t \in DOMAIN att,
             \/ \E p \in Pages, v \in Value : Insert(t, p, v)
             \/ \E p \in Pages, s \in Slots, v \in Value : Update(t, p, s, v)
             \/ \E p \in Pages, s \in Slots : Delete(t, p, s)
      PROVE  Inv'
  <2>1. \E p \in Pages, s \in Slots, v \in Content : Modify(t, p, s, v)
    BY <1>2, ClientChange
  <2> QED BY <2>1, ModifyKeeps
<1>3. ASSUME NEW t \in DOMAIN att,
             \/ log_update(t) \/ commit(t) \/ commit_force(t)
             \/ abort(t) \/ abort_step(t) \/ abort_skip(t) \/ abort_end(t)
      PROVE  Inv'
  BY <1>3, LogUpdateKeeps, CommitKeeps, CommitForceKeeps, AbortKeeps, AbortStepKeeps,
     AbortSkipKeeps, AbortEndKeeps
<1>4. CASE Checkpoints
  BY <1>4, CheckpointKeeps, AttSnapshotKeeps, DirtySnapshotKeeps, CheckpointEndKeeps,
     CheckpointFlushKeeps, CheckpointForceKeeps DEF Checkpoints
<1>5. CASE FlushLog
  BY <1>5, FlushLogKeeps
<1>6. ASSUME NEW p \in Pages, WritePage(p)
      PROVE  Inv'
  BY <1>6, WritePageKeeps
<1>7. ASSUME NEW p \in Pages, WriteBack(p)
      PROVE  Inv'
  BY <1>7, WriteBackKeeps
<1>8. ASSUME NEW k \in 0..Len(log.pending), Crash(k)
      PROVE  Inv'
  BY <1>8, CrashKeeps
<1>9. CASE Recovery
  BY <1>9, AnalyzeKeeps, RedoKeeps, RedoSkipKeeps, RedoEndKeeps, UndoUpdateKeeps, UndoSkipKeeps, UndoTxnEndKeeps,
     RecoverEndKeeps DEF Recovery
<1>10. CASE UNCHANGED vars
  BY <1>10 DEF vars, logVars, pageVars, txnVars, ckptVars, runVars, Inv, LogOK, StateOK
<1>11. CASE Transactions
  BY <1>1, <1>2, <1>3, <1>11 DEF Transactions
<1> QED BY <1>4, <1>5, <1>6, <1>7, <1>8, <1>9, <1>10, <1>11 DEF Next

\* The types, the chains of the log and the LSNs of the pages, for every set
\* of pages, slots and values, with any interleaving and any crashes.
THEOREM InvHolds == Spec => []Inv
<1>1. Init => Inv
  BY InitInv
<1>2. Inv /\ [Next]_vars => Inv'
  BY NextInv
<1> QED BY <1>1, <1>2, PTL DEF Spec

\* Every variable keeps its type; among others, recover's undo never looks up
\* a transaction that its ATT does not hold (undo_update and undo_txn_end read
\* att_[txn_id]), and no LSN it follows leaves the log.
THEOREM TypeCorrect == Spec => []TypeOK
<1>1. Inv => TypeOK
  <2> SUFFICES ASSUME Inv PROVE TypeOK
    OBVIOUS
  <2>1. DOMAIN log = {"stable", "pending", "flushed"} /\ log.flushed \in Lsn
    BY Basics DEF LogSet
  <2>2. mem \in [Pages -> Page] /\ disk \in [Pages -> Page] /\ platter \in [Pages -> Page]
    BY DEF Inv, StateOK, PagesOK
  <2>3. DOMAIN att \subseteq Nat /\ \A t \in DOMAIN att : att[t] \in Transaction
    BY Basics
  <2>4. dirty \subseteq Pages /\ locks \subseteq Nat \X Pages \X Slots /\ next_txn_id \in Nat
    BY DEF Inv, StateOK, TxnsOK
  <2>5. ckpt.phase \in {"idle", "att", "dpt", "end", "flush", "force"}
        /\ mode \in {"up", "down", "redo", "undo"} /\ rec.to_undo \subseteq Nat
    BY DEF Inv, StateOK, CkptOK, RecOK
  <2> QED BY <2>1, <2>2, <2>3, <2>4, <2>5 DEF TypeOK
<1> QED BY <1>1, InvHolds, PTL

\* commit forces the log before it writes TXN_END, and no other path (abort,
\* recovery's undo of a loser, a fuzzy checkpoint's stale ATT entry) ever writes
\* a TXN_END behind a COMMIT record that a crash could still lose.
THEOREM CommitIsForced == Spec => []CommitForced
<1>1. Inv => CommitForced
  <2> SUFFICES ASSUME Inv PROVE CommitForced
    OBVIOUS
  <2>1. Len(Records(log)) = NextLsn(log) /\ ForcedOK(Records(log), Len(log.stable))
    BY Basics DEF Inv, LogOK
  <2> QED BY <2>1 DEF CommitForced, ForcedOK, RecordAt
<1> QED BY <1>1, InvHolds, PTL

\* The LSN that a page has on disk is that of a stable record.
LogCoversPages ==
  \A p \in Pages :
    /\ disk[p].lsn = 0 \/ disk[p].lsn < Len(log.stable)
    /\ platter[p].lsn = 0 \/ platter[p].lsn < Len(log.stable)

\* enforce_wal, the part that needs no assumption on who calls: whatever
\* threads do, a page on disk never carries the LSN of a record that a crash
\* could take out of the log.
THEOREM WriteAhead == Spec => []LogCoversPages
<1>1. Inv => LogCoversPages
  BY DEF Inv, StateOK, PagesOK, LogCoversPages
<1> QED BY <1>1, InvHolds, PTL
=============================================================================
