-------------------------- MODULE EnginePageProofs --------------------------
(***************************************************************************)
(* The pages and the log, when one thread at a time calls the managers, no *)
(* page fetch fails, and no crash makes a checkpoint or a page lie         *)
(* (Sheltered): a page shows the changes of the log up to its LSN, and     *)
(* what it shows beyond, for it may reach the disk before the record of    *)
(* its last change does, the log has as well; redo misses no change.       *)
(*                                                                         *)
(* The second part is about what a client reads.  The log alone tells,     *)
(* slot by slot and for each of its prefixes, what committed transactions  *)
(* wrote and what the transactions still running, or cut off by a crash,   *)
(* have on top of it; the CLRs of abort and of recovery's undo take the    *)
(* top off in the reverse order.                                           *)
(***************************************************************************)
EXTENDS EngineTxnProofs

\* EngineFuzzy.cfg, EngineFetch.cfg, EngineSteal.cfg and EngineWindow.cfg show
\* what goes wrong otherwise; with PowerLoss, any checkpoint does, for no fsync
\* follows it.
Sheltered ==
  /\ ~Concurrent
  /\ ~FetchFails
  /\ ~CrashAhead
  /\ MaxCkpt = 0 \/ (~PowerLoss /\ ~CrashInWindow)

-----------------------------------------------------------------------------
(* The invariant.                                                          *)

\* No page lacks a change.
Latest(rs, pages) == \A i \in 1..Len(rs) : IsChange(rs[i]) => i - 1 <= pages[rs[i].page].lsn

\* The transaction x has changed the slot and not logged it yet.
Pending(x, p, s) == x.op # NoOp /\ x.op.page = p /\ x.op.slot = s

\* What the page pg, read as page p, holds is in the log or pending.
Backed(rs, a, pg, p) ==
  \A s \in Slots :
    \/ Explained(rs, pg, p, s)
    \/ \E t \in DOMAIN a : Pending(a[t], p, s) /\ a[t].op.new = pg.slots[s]

\* The pages in memory show the log, but for the change that is pending.
MemShows(rs, m, a) ==
  /\ \A p \in Pages, s \in Slots :
       (\A t \in DOMAIN a : ~Pending(a[t], p, s)) => m[p].slots[s] = Replayed(rs, p, s, m[p].lsn)
  /\ \A t \in DOMAIN a : a[t].op # NoOp =>
       /\ m[a[t].op.page].slots[a[t].op.slot] = a[t].op.new
       /\ a[t].op.old = Replayed(rs, a[t].op.page, a[t].op.slot, m[a[t].op.page].lsn)

Behind(d, m, dirt) == \A p \in Pages : d[p].lsn <= m[p].lsn /\ (p \notin dirt => m[p] = d[p])

\* A CHECKPOINT_END is followed by flush_all_pages: the changes in front of it
\* are on disk, unless that call is still to come.
Done(rs, pages, ck) ==
  \A c \in 1..Len(rs) :
    rs[c].type = "CHECKPOINT_END" /\ ~(ck.phase = "flush" /\ c = ck.lsn + 1) =>
      \A i \in 1..(c - 1) : IsChange(rs[i]) => i - 1 <= pages[rs[i].page].lsn

\* The LSNs of a DPT snapshot are older than the snapshot.
DptOld(rs, ck) ==
  /\ \A c \in 1..Len(rs) : rs[c].type = "CHECKPOINT_END" => \A p \in DOMAIN rs[c].dpt : rs[c].dpt[p] <= c
  /\ \A p \in DOMAIN ck.dpt : ck.dpt[p] <= Len(rs)

NoCheckpoint(rs, ck) == ck.phase = "idle" /\ \A i \in 1..Len(rs) : rs[i].type # "CHECKPOINT_END"

PageInv ==
  LET rs == Records(log) IN
  /\ \A p \in Pages : Backed(rs, att, disk[p], p) /\ (PowerLoss => Backed(rs, att, platter[p], p))
  /\ mode \in {"down", "redo"} => \A p \in Pages, s \in Slots : Explained(rs, mem[p], p, s)
  /\ mode \in {"up", "undo"} => MemShows(rs, mem, att) /\ Latest(rs, mem)
  /\ RedoComplete
  /\ Behind(disk, mem, dirty)
  /\ mode = "down" => mem = disk
  /\ Done(rs, disk, ckpt)
  /\ DptOld(rs, ckpt)
  /\ MaxCkpt = 0 => NoCheckpoint(rs, ckpt)

-----------------------------------------------------------------------------
(* What a replay of the log says.                                          *)

\* The changes of a slot up to LSN n.
UpTo(rs, p, s, n) == {i \in Changes(rs, p, s) : i <= n + 1}

LEMMA UpToFacts ==
  ASSUME NEW rs \in Seq(RecordSet), NEW p, NEW s, NEW n \in Nat
  PROVE  /\ UpTo(rs, p, s, n) \in SUBSET Int
         /\ \A i : i \in UpTo(rs, p, s, n) <=>
              i \in 1..Len(rs) /\ IsChange(rs[i]) /\ rs[i].page = p /\ rs[i].slot = s /\ i <= n + 1
         /\ Replayed(rs, p, s, n) = After(rs, UpTo(rs, p, s, n))
         /\ UpTo(rs, p, s, n) # {} =>
              /\ Max(UpTo(rs, p, s, n)) \in UpTo(rs, p, s, n)
              /\ \A i \in UpTo(rs, p, s, n) : i <= Max(UpTo(rs, p, s, n))
<1> DEFINE S == UpTo(rs, p, s, n)
<1>1. \A i : i \in S <=>
        i \in 1..Len(rs) /\ IsChange(rs[i]) /\ rs[i].page = p /\ rs[i].slot = s /\ i <= n + 1
  BY DEF UpTo, Changes
<1>2. S \in SUBSET Int
  BY <1>1
<1>3. Replayed(rs, p, s, n) = After(rs, S)
  BY DEF Replayed, UpTo
<1>4. n + 1 \in Int /\ \A i \in S : i <= n + 1
  BY <1>1
<1> HIDE DEF S
<1>5. S # {} => Max(S) \in S /\ \A i \in S : i <= Max(S)
  BY <1>2, <1>4, MaxOf
<1> QED BY <1>1, <1>2, <1>3, <1>5 DEF S

\* The first record of a log changes nothing.
LEMMA FirstNoChange ==
  ASSUME NEW rs \in Seq(RecordSet), Chained(rs), NEW i \in 1..Len(rs), IsChange(rs[i])
  PROVE  i >= 2
<1>1. Chain(rs, i)
  BY DEF Chained
<1>2. rs[i].prev \in 0..(i - 2)
  BY <1>1 DEF Chain, IsChange
<1> QED BY <1>2

\* A replay depends on the records up to its end.
LEMMA ReplayedKept ==
  ASSUME NEW rs \in Seq(RecordSet), NEW qs \in Seq(RecordSet), Chained(rs), Chained(qs),
         NEW m \in Nat, Agree(rs, qs, m), NEW n \in Nat, n = 0 \/ n < m, NEW p, NEW s
  PROVE  Replayed(qs, p, s, n) = Replayed(rs, p, s, n)
<1> DEFINE R == UpTo(rs, p, s, n)
           Q == UpTo(qs, p, s, n)
<1>1. m <= Len(rs) /\ m <= Len(qs) /\ \A i \in 1..m : qs[i] = rs[i]
  BY DEF Agree
<1>2. \A i : i \in R <=>
        i \in 1..Len(rs) /\ IsChange(rs[i]) /\ rs[i].page = p /\ rs[i].slot = s /\ i <= n + 1
  BY UpToFacts
<1>3. \A i : i \in Q <=>
        i \in 1..Len(qs) /\ IsChange(qs[i]) /\ qs[i].page = p /\ qs[i].slot = s /\ i <= n + 1
  BY UpToFacts
<1>4. Replayed(rs, p, s, n) = After(rs, R) /\ Replayed(qs, p, s, n) = After(qs, Q)
  BY UpToFacts
<1>5. R # {} => Max(R) \in R
  BY UpToFacts
<1> HIDE DEF R, Q
<1>6. \A i \in R : i \in 1..m
  <2> TAKE i \in R
  <2>1. i \in 1..Len(rs) /\ i >= 2 /\ i <= n + 1
    BY <1>2, FirstNoChange
  <2> QED BY <2>1
<1>7. \A i \in Q : i \in 1..m
  <2> TAKE i \in Q
  <2>1. i \in 1..Len(qs) /\ i >= 2 /\ i <= n + 1
    BY <1>3, FirstNoChange
  <2> QED BY <2>1
<1>8. Len(rs) \in Nat /\ Len(qs) \in Nat /\ \A i \in 1..m : i \in 1..Len(rs) /\ i \in 1..Len(qs)
  BY <1>1
<1>9. R = Q
  BY <1>1, <1>2, <1>3, <1>6, <1>7, <1>8
<1>10. R # {} => rs[Max(R)] = qs[Max(R)]
  BY <1>1, <1>5, <1>6
<1> QED BY <1>4, <1>9, <1>10 DEF After

\* A replay up to a change of the slot shows that change.
LEMMA ReplayedChange ==
  ASSUME NEW rs \in Seq(RecordSet), NEW k \in 1..Len(rs), IsChange(rs[k])
  PROVE  Replayed(rs, rs[k].page, rs[k].slot, k - 1) = rs[k].new
<1> DEFINE S == UpTo(rs, rs[k].page, rs[k].slot, k - 1)
<1>1. k - 1 \in Nat /\ k - 1 + 1 = k
  OBVIOUS
<1>2. /\ S \in SUBSET Int
      /\ \A i : i \in S <=>
           i \in 1..Len(rs) /\ IsChange(rs[i]) /\ rs[i].page = rs[k].page /\ rs[i].slot = rs[k].slot
           /\ i <= k - 1 + 1
      /\ Replayed(rs, rs[k].page, rs[k].slot, k - 1) = After(rs, S)
  BY <1>1, UpToFacts
<1> HIDE DEF S
<1>3. k \in S /\ \A i \in S : i <= k
  BY <1>1, <1>2
<1>4. Max(S) = k
  BY <1>2, <1>3, MaxIs
<1> QED BY <1>2, <1>3, <1>4 DEF After

\* Records that do not change the slot make no difference.
LEMMA ReplayedSkip ==
  ASSUME NEW rs \in Seq(RecordSet), NEW p, NEW s, NEW a \in Nat, NEW b \in Nat, a <= b,
         \A i \in 1..Len(rs) :
           IsChange(rs[i]) /\ rs[i].page = p /\ rs[i].slot = s => i <= a + 1 \/ i > b + 1
  PROVE  Replayed(rs, p, s, b) = Replayed(rs, p, s, a)
<1> DEFINE A == UpTo(rs, p, s, a)
           B == UpTo(rs, p, s, b)
<1>2. \A i : i \in A <=>
        i \in 1..Len(rs) /\ IsChange(rs[i]) /\ rs[i].page = p /\ rs[i].slot = s /\ i <= a + 1
  BY UpToFacts
<1>3. \A i : i \in B <=>
        i \in 1..Len(rs) /\ IsChange(rs[i]) /\ rs[i].page = p /\ rs[i].slot = s /\ i <= b + 1
  BY UpToFacts
<1>4. Replayed(rs, p, s, a) = After(rs, A) /\ Replayed(rs, p, s, b) = After(rs, B)
  BY UpToFacts
<1> HIDE DEF A, B
<1>5. \A i \in Int : (i <= a + 1 => i <= b + 1) /\ (i > b + 1 => ~(i <= b + 1))
  OBVIOUS
<1>6. \A i \in A : i \in B
  BY <1>2, <1>3, <1>5
<1>7. \A i \in B : i \in A
  BY <1>2, <1>3, <1>5
<1>8. A = B
  BY <1>6, <1>7
<1> QED BY <1>4, <1>8

-----------------------------------------------------------------------------
(* The parts of PageInv, for a step that appends a record.                 *)

LEMMA PageFacts ==
  ASSUME Inv, NEW p \in Pages
  PROVE  /\ mem[p] \in Page /\ disk[p] \in Page /\ platter[p] \in Page
         /\ mem[p].lsn \in Nat /\ disk[p].lsn \in Nat /\ platter[p].lsn \in Nat
         /\ mem[p].lsn = 0 \/ mem[p].lsn < NextLsn(log)
         /\ disk[p].lsn = 0 \/ disk[p].lsn < Len(log.stable)
         /\ platter[p].lsn = 0 \/ platter[p].lsn < Len(log.stable)
         /\ disk[p].lsn = 0 \/ disk[p].lsn < NextLsn(log)
         /\ platter[p].lsn = 0 \/ platter[p].lsn < NextLsn(log)
         /\ mem[p].lsn <= NextLsn(log)
<1>1. /\ mem[p] \in Page /\ disk[p] \in Page /\ platter[p] \in Page
      /\ mem[p].lsn = 0 \/ mem[p].lsn < NextLsn(log)
      /\ disk[p].lsn = 0 \/ disk[p].lsn < Len(log.stable)
      /\ platter[p].lsn = 0 \/ platter[p].lsn < Len(log.stable)
  BY DEF Inv, StateOK, PagesOK
<1>2. mem[p].lsn \in Nat /\ disk[p].lsn \in Nat /\ platter[p].lsn \in Nat
  BY <1>1 DEF Page
<1>3. NextLsn(log) \in Nat /\ Len(log.stable) \in 0..NextLsn(log)
  BY Basics
<1> QED BY <1>1, <1>2, <1>3

LEMMA ReplayedGrown ==
  ASSUME Inv, Inv', NEW r, Adds(r), NEW n \in Nat, n = 0 \/ n < NextLsn(log), NEW p, NEW s
  PROVE  Replayed(Records(log'), p, s, n) = Replayed(Records(log), p, s, n)
<1> DEFINE rs == Records(log)
           qs == Records(log')
           m == Len(rs)
<1>1. rs \in Seq(RecordSet) /\ qs \in Seq(RecordSet) /\ m \in Nat /\ m = NextLsn(log)
      /\ Agree(rs, qs, m) /\ Chained(rs)
  BY AddsFacts
<1>2. Chained(qs)
  BY DEF Inv, LogOK
<1> HIDE DEF rs, qs, m
<1>3. Replayed(qs, p, s, n) = Replayed(rs, p, s, n)
  BY <1>1, <1>2, ReplayedKept
<1> QED BY <1>3 DEF rs, qs

\* A slot that agrees with the LSN of its page is explained, and so is one that
\* agrees with a later LSN.
LEMMA ExplainedBy ==
  ASSUME NEW rs, NEW pg, NEW p, NEW s, NEW n,
         n = pg.lsn \/ n \in pg.lsn..(Len(rs) - 1), pg.slots[s] = Replayed(rs, p, s, n)
  PROVE  Explained(rs, pg, p, s)
BY DEF Explained

LEMMA ExplainedGrown ==
  ASSUME Inv, Inv', NEW r, Adds(r), NEW pg \in Page, NEW p, NEW s, pg.lsn = 0 \/ pg.lsn < NextLsn(log),
         Explained(Records(log), pg, p, s)
  PROVE  Explained(Records(log'), pg, p, s)
<1> DEFINE rs == Records(log)
           qs == Records(log')
<1>1. pg.lsn \in Nat /\ Len(rs) \in Nat /\ Len(rs) = NextLsn(log) /\ Len(qs) = Len(rs) + 1
  BY AddsFacts DEF Page
<1>2. PICK n \in {pg.lsn} \cup (pg.lsn..(Len(rs) - 1)) : pg.slots[s] = Replayed(rs, p, s, n)
  BY DEF Explained
<1>3. n \in Nat /\ (n = 0 \/ n < NextLsn(log)) /\ (n = pg.lsn \/ n \in pg.lsn..(Len(qs) - 1))
  BY <1>1, <1>2
<1>4. Replayed(qs, p, s, n) = Replayed(rs, p, s, n)
  BY <1>3, ReplayedGrown
<1> HIDE DEF rs, qs
<1>5. Explained(qs, pg, p, s)
  BY <1>2, <1>3, <1>4, ExplainedBy
<1> QED BY <1>5 DEF qs

\* What was pending still is, or r is its record.
KeepsOps(r) ==
  \A t \in DOMAIN att : att[t].op # NoOp =>
    \/ t \in DOMAIN att' /\ att'[t].op = att[t].op
    \/ IsChange(r) /\ r.page = att[t].op.page /\ r.slot = att[t].op.slot /\ r.new = att[t].op.new

\* A page stays backed when the log grows, one that was ahead of it too.
LEMMA BackedGrown ==
  ASSUME Inv, Inv', NEW r, Adds(r), KeepsOps(r), NEW pg \in Page, NEW p,
         pg.lsn = 0 \/ pg.lsn < NextLsn(log), Backed(Records(log), att, pg, p)
  PROVE  Backed(Records(log'), att', pg, p)
<1> DEFINE rs == Records(log)
           qs == Records(log')
           k == Len(qs)
<1>1. /\ pg.lsn \in Nat /\ Len(rs) \in Nat /\ Len(rs) = NextLsn(log) /\ k = Len(rs) + 1
      /\ qs \in Seq(RecordSet) /\ qs[k] = r
  BY AddsFacts DEF Page
<1> SUFFICES ASSUME NEW s \in Slots
             PROVE  \/ Explained(qs, pg, p, s)
                    \/ \E t \in DOMAIN att' : Pending(att'[t], p, s) /\ att'[t].op.new = pg.slots[s]
  BY DEF Backed
<1>2. CASE Explained(rs, pg, p, s)
  BY <1>2, ExplainedGrown
<1>3. CASE ~Explained(rs, pg, p, s)
  <2>1. PICK t \in DOMAIN att : Pending(att[t], p, s) /\ att[t].op.new = pg.slots[s]
    BY <1>3 DEF Backed
  <2>2. CASE t \in DOMAIN att' /\ att'[t].op = att[t].op
    BY <2>1, <2>2 DEF Pending
  <2>3. CASE ~(t \in DOMAIN att' /\ att'[t].op = att[t].op)
    <3>1. IsChange(r) /\ r.page = p /\ r.slot = s /\ r.new = pg.slots[s]
      BY <2>1, <2>3 DEF KeepsOps, Pending
    <3>2. k \in 1..Len(qs) /\ k - 1 \in pg.lsn..(Len(qs) - 1)
      BY <1>1
    <3> HIDE DEF qs, k
    <3>3. Replayed(qs, qs[k].page, qs[k].slot, k - 1) = qs[k].new
      BY <1>1, <3>1, <3>2, ReplayedChange
    <3>4. Explained(qs, pg, p, s)
      BY <1>1, <3>1, <3>2, <3>3, ExplainedBy
    <3> QED BY <3>4
  <2> QED BY <2>2, <2>3
<1> QED BY <1>2, <1>3

\* A checkpoint that is not in its flush may become any other; one that is
\* stays.  A new CHECKPOINT_END still waits for its flush.
LEMMA DoneGrown ==
  ASSUME Inv, NEW r, Adds(r), NEW pages, NEW ck, NEW dk, Done(Records(log), pages, ck),
         ck.phase # "flush" \/ dk = ck,
         r.type = "CHECKPOINT_END" => dk.phase = "flush" /\ dk.lsn = NextLsn(log)
  PROVE  Done(Records(log'), pages, dk)
<1> DEFINE rs == Records(log)
           qs == Records(log')
<1>1. /\ rs \in Seq(RecordSet) /\ qs \in Seq(RecordSet) /\ Len(rs) \in Nat
      /\ Len(qs) = Len(rs) + 1 /\ Len(rs) = NextLsn(log)
      /\ qs[Len(qs)] = r /\ \A i \in 1..Len(rs) : qs[i] = rs[i]
  BY AddsFacts
<1> SUFFICES ASSUME NEW c \in 1..Len(qs), qs[c].type = "CHECKPOINT_END",
                    ~(dk.phase = "flush" /\ c = dk.lsn + 1),
                    NEW i \in 1..(c - 1), IsChange(qs[i])
             PROVE  i - 1 <= pages[qs[i].page].lsn
  BY DEF Done
<1>2. c # Len(qs)
  BY <1>1
<1>3. c \in 1..Len(rs) /\ i \in 1..Len(rs)
  BY <1>1, <1>2
<1>4. qs[c] = rs[c] /\ qs[i] = rs[i]
  BY <1>1, <1>3
<1>5. ~(ck.phase = "flush" /\ c = ck.lsn + 1)
  OBVIOUS
<1> QED BY <1>3, <1>4, <1>5 DEF Done

LEMMA DptOldGrown ==
  ASSUME Inv, NEW r, Adds(r), NEW dk, DptOld(Records(log), ckpt),
         DOMAIN dk.dpt = {} \/ dk.dpt = ckpt.dpt,
         r.type = "CHECKPOINT_END" => r.dpt = ckpt.dpt
  PROVE  DptOld(Records(log'), dk)
<1> DEFINE rs == Records(log)
           qs == Records(log')
<1>1. /\ rs \in Seq(RecordSet) /\ qs \in Seq(RecordSet) /\ Len(rs) \in Nat
      /\ Len(qs) = Len(rs) + 1
      /\ qs[Len(qs)] = r /\ \A i \in 1..Len(rs) : qs[i] = rs[i]
  BY AddsFacts
<1>2. ckpt.dpt \in PageMap
  BY Basics DEF CkptOK
<1>3. \A p \in DOMAIN ckpt.dpt : ckpt.dpt[p] \in Nat /\ ckpt.dpt[p] <= Len(rs)
  BY <1>2, MapFacts DEF DptOld, PageMap
<1>4. \A p \in DOMAIN ckpt.dpt : ckpt.dpt[p] <= Len(qs)
  BY <1>1, <1>3
<1>5. ASSUME NEW c \in 1..Len(qs), qs[c].type = "CHECKPOINT_END", NEW p \in DOMAIN qs[c].dpt
      PROVE  qs[c].dpt[p] <= c
  <2>1. CASE c \in 1..Len(rs)
    BY <2>1, <1>1, <1>5 DEF DptOld
  <2>2. CASE c \notin 1..Len(rs)
    <3>1. c = Len(qs)
      BY <1>1, <2>2
    <3> QED BY <3>1, <1>1, <1>4, <1>5
  <2> QED BY <2>1, <2>2
<1> QED BY <1>4, <1>5 DEF DptOld

LEMMA NoCheckpointGrown ==
  ASSUME Inv, NEW r, Adds(r), r.type # "CHECKPOINT_END", NEW ck, NEW dk,
         NoCheckpoint(Records(log), ck), dk.phase = "idle"
  PROVE  NoCheckpoint(Records(log'), dk)
<1> DEFINE rs == Records(log)
           qs == Records(log')
<1>1. /\ rs \in Seq(RecordSet) /\ qs \in Seq(RecordSet) /\ Len(rs) \in Nat
      /\ Len(qs) = Len(rs) + 1
      /\ qs[Len(qs)] = r /\ \A i \in 1..Len(rs) : qs[i] = rs[i]
  BY AddsFacts
<1>2. ASSUME NEW c \in 1..Len(qs)
      PROVE  qs[c].type # "CHECKPOINT_END"
  <2>1. c \in 1..Len(rs) \/ c = Len(qs)
    BY <1>1
  <2> QED BY <2>1, <1>1 DEF NoCheckpoint
<1> QED BY <1>2 DEF NoCheckpoint

-----------------------------------------------------------------------------
(* PageInv, for a step that appends a record.                              *)

\* The pages on disk, and what checkpoints left, when the log grows.
DiskPart(rs) ==
  /\ \A p \in Pages : Backed(rs, att, disk[p], p) /\ (PowerLoss => Backed(rs, att, platter[p], p))
  /\ Done(rs, disk, ckpt)
  /\ DptOld(rs, ckpt)
  /\ MaxCkpt = 0 => NoCheckpoint(rs, ckpt)

MemPart(rs) ==
  /\ mode \in {"down", "redo"} => \A p \in Pages, s \in Slots : Explained(rs, mem[p], p, s)
  /\ mode \in {"up", "undo"} => MemShows(rs, mem, att) /\ Latest(rs, mem)
  /\ RedoComplete
  /\ Behind(disk, mem, dirty)
  /\ mode = "down" => mem = disk

LEMMA PageParts == PageInv <=> DiskPart(Records(log)) /\ MemPart(Records(log))
BY DEF PageInv, DiskPart, MemPart

LEMMA DiskPartGrown ==
  ASSUME Inv, Inv', DiskPart(Records(log)), NEW r, Adds(r), r.type # "CHECKPOINT_END",
         KeepsOps(r), UNCHANGED <<disk, platter, ckpt>>
  PROVE  DiskPart(Records(log))'
<1>1. ASSUME NEW p \in Pages
      PROVE  /\ Backed(Records(log'), att', disk[p], p)
             /\ PowerLoss => Backed(Records(log'), att', platter[p], p)
  BY PageFacts, BackedGrown DEF DiskPart
<1>2. Done(Records(log'), disk, ckpt)
  BY DoneGrown DEF DiskPart
<1>3. DptOld(Records(log'), ckpt)
  BY DptOldGrown DEF DiskPart
<1>4. MaxCkpt = 0 => NoCheckpoint(Records(log'), ckpt)
  <2>1. MaxCkpt = 0 => NoCheckpoint(Records(log), ckpt) /\ ckpt.phase = "idle"
    BY DEF DiskPart, NoCheckpoint
  <2> QED BY <2>1, NoCheckpointGrown
<1> QED BY <1>1, <1>2, <1>3, <1>4 DEF DiskPart

\* The same changes are pending after the step.
SameOps ==
  /\ \A t \in DOMAIN att : att[t].op # NoOp => t \in DOMAIN att' /\ att'[t].op = att[t].op
  /\ \A t \in DOMAIN att' : att'[t].op # NoOp => t \in DOMAIN att /\ att'[t].op = att[t].op

\* A record that is no change leaves the pages as the log shows them.
LEMMA ControlMem ==
  ASSUME Inv, Inv', MemPart(Records(log)), NEW r, Adds(r), ~IsChange(r),
         mode \in {"up", "undo"}, SameOps, UNCHANGED <<mem, dirty, disk, mode>>
  PROVE  MemPart(Records(log))'
<1> DEFINE rs == Records(log)
           qs == Records(log')
<1>1. /\ rs \in Seq(RecordSet) /\ qs \in Seq(RecordSet) /\ Len(rs) \in Nat
      /\ Len(qs) = Len(rs) + 1
      /\ qs[Len(qs)] = r /\ \A i \in 1..Len(rs) : qs[i] = rs[i]
  BY AddsFacts
<1>2. ASSUME NEW p \in Pages, NEW s
      PROVE  Replayed(qs, p, s, mem[p].lsn) = Replayed(rs, p, s, mem[p].lsn)
  BY PageFacts, ReplayedGrown
<1>3. MemShows(qs, mem, att')
  <2>1. ASSUME NEW p \in Pages, NEW s \in Slots, \A t \in DOMAIN att' : ~Pending(att'[t], p, s)
        PROVE  mem[p].slots[s] = Replayed(qs, p, s, mem[p].lsn)
    <3>1. \A t \in DOMAIN att : ~Pending(att[t], p, s)
      BY <2>1 DEF SameOps, Pending
    <3>2. mem[p].slots[s] = Replayed(rs, p, s, mem[p].lsn)
      BY <3>1 DEF MemPart, MemShows
    <3> QED BY <3>2, <1>2
  <2>2. ASSUME NEW t \in DOMAIN att', att'[t].op # NoOp
        PROVE  LET o == att'[t].op IN
               /\ mem[o.page].slots[o.slot] = o.new
               /\ o.old = Replayed(qs, o.page, o.slot, mem[o.page].lsn)
    <3>1. t \in DOMAIN att /\ att'[t].op = att[t].op
      BY <2>2 DEF SameOps
    <3>2. att[t].op.page \in Pages
      <4>1. att[t].op \in Change \cup {NoOp}
        BY <3>1, Basics DEF Transaction
      <4> QED BY <4>1, <3>1, <2>2 DEF Change
    <3>3. LET o == att[t].op IN
          /\ mem[o.page].slots[o.slot] = o.new
          /\ o.old = Replayed(rs, o.page, o.slot, mem[o.page].lsn)
      BY <3>1, <2>2 DEF MemPart, MemShows
    <3> QED BY <3>1, <3>2, <3>3, <1>2
  <2> QED BY <2>1, <2>2 DEF MemShows
<1>4. Latest(qs, mem)
  <2>1. ASSUME NEW i \in 1..Len(qs), IsChange(qs[i])
        PROVE  i - 1 <= mem[qs[i].page].lsn
    <3>1. i # Len(qs)
      BY <1>1, <2>1
    <3>2. i \in 1..Len(rs) /\ qs[i] = rs[i]
      BY <1>1, <3>1
    <3> QED BY <3>2, <2>1 DEF MemPart, Latest
  <2> QED BY <2>1 DEF Latest
<1>5. RedoComplete'
  BY DEF RedoComplete
<1> QED BY <1>3, <1>4, <1>5 DEF MemPart

LEMMA AddsControl ==
  ASSUME Inv, Inv', PageInv, NEW r, Adds(r), ~IsChange(r), r.type # "CHECKPOINT_END",
         mode \in {"up", "undo"}, SameOps, UNCHANGED <<mem, dirty, disk, platter, ckpt, mode>>
  PROVE  PageInv'
<1>1. DiskPart(Records(log)) /\ MemPart(Records(log))
  BY PageParts
<1>2. KeepsOps(r)
  BY DEF SameOps, KeepsOps
<1>3. DiskPart(Records(log))' /\ MemPart(Records(log))'
  BY <1>1, <1>2, DiskPartGrown, ControlMem
<1> QED BY <1>3, PageParts DEF PageInv, DiskPart, MemPart

\* The step stamps the page of r, its newest change, with the LSN n.
Stamps(r, n) ==
  /\ mem'[r.page].lsn = n
  /\ mem'[r.page].slots[r.slot] = r.new
  /\ \A s \in Slots : s # r.slot => mem'[r.page].slots[s] = mem[r.page].slots[s]
  /\ \A p \in Pages : p # r.page => mem'[p] = mem[p]
  /\ dirty' = dirty \cup {r.page}

\* A change, its record and its stamp: at most that slot was pending.
LEMMA AddsChange ==
  ASSUME Inv, Inv', PageInv, NEW r, Adds(r), IsChange(r), Stamps(r, NextLsn(log)),
         mode \in {"up", "undo"}, UNCHANGED <<disk, platter, ckpt, mode>>,
         \A t \in DOMAIN att : att[t].op # NoOp =>
           att[t].op.page = r.page /\ att[t].op.slot = r.slot /\ att[t].op.new = r.new,
         \A t \in DOMAIN att' : att'[t].op = NoOp
  PROVE  PageInv'
<1> DEFINE rs == Records(log)
           qs == Records(log')
           n == NextLsn(log)
<1>1. /\ rs \in Seq(RecordSet) /\ qs \in Seq(RecordSet) /\ Len(rs) \in Nat /\ r \in RecordSet
      /\ Len(qs) = Len(rs) + 1 /\ Len(rs) = n
      /\ qs[Len(qs)] = r /\ \A i \in 1..Len(rs) : qs[i] = rs[i]
  BY AddsFacts
<1>2. r.page \in Pages /\ r.slot \in Slots /\ r.type # "CHECKPOINT_END"
  BY <1>1, RecordFacts DEF IsChange
<1>3. DiskPart(Records(log))'
  BY <1>2, PageParts, DiskPartGrown DEF KeepsOps
<1>4. MemShows(rs, mem, att) /\ Latest(rs, mem) /\ Behind(disk, mem, dirty)
  BY DEF PageInv
<1>5. Latest(qs, mem')
  <2>1. ASSUME NEW i \in 1..Len(qs), IsChange(qs[i])
        PROVE  i - 1 <= mem'[qs[i].page].lsn
    <3>1. CASE i = Len(qs)
      BY <1>1, <3>1 DEF Stamps
    <3>2. CASE i # Len(qs)
      <4>1. i \in 1..Len(rs) /\ qs[i] = rs[i]
        BY <1>1, <3>2
      <4>2. rs[i].page \in Pages
        BY <4>1, <2>1, <1>1, RecordFacts DEF IsChange
      <4>3. CASE rs[i].page = r.page
        BY <4>1, <4>3, <1>1 DEF Stamps
      <4>4. CASE rs[i].page # r.page
        BY <4>1, <4>2, <4>4, <1>4, <2>1 DEF Stamps, Latest
      <4> QED BY <4>3, <4>4
    <3> QED BY <3>1, <3>2
  <2> QED BY <2>1 DEF Latest
<1>6. MemShows(qs, mem', att')
  <2>1. ASSUME NEW p \in Pages, NEW s \in Slots
        PROVE  mem'[p].slots[s] = Replayed(qs, p, s, mem'[p].lsn)
    <3>1. CASE p = r.page /\ s = r.slot
      <4> DEFINE k == Len(qs)
      <4>1. k \in 1..Len(qs) /\ qs[k] = r /\ k - 1 = n
        BY <1>1
      <4> HIDE DEF k, qs, n
      <4>2. Replayed(qs, qs[k].page, qs[k].slot, k - 1) = qs[k].new
        BY <4>1, <1>1, ReplayedChange
      <4> QED BY <4>1, <4>2, <3>1 DEF Stamps, n
    <3>2. CASE ~(p = r.page /\ s = r.slot)
      <4>1. \A t \in DOMAIN att : ~Pending(att[t], p, s)
        BY <3>2 DEF Pending
      <4>2. mem[p].slots[s] = Replayed(rs, p, s, mem[p].lsn)
        BY <4>1, <1>4 DEF MemShows
      <4>3. /\ mem[p].lsn \in Nat /\ mem[p].lsn <= n /\ n \in Nat
            /\ mem[p].lsn = 0 \/ mem[p].lsn < n
        BY PageFacts, <1>1
      <4>4. Replayed(qs, p, s, mem[p].lsn) = Replayed(rs, p, s, mem[p].lsn)
        BY <4>3, ReplayedGrown
      <4>5. CASE p # r.page
        BY <4>5, <4>2, <4>4 DEF Stamps
      <4>6. CASE p = r.page
        <5>1. ASSUME NEW i \in 1..Len(qs), IsChange(qs[i]), qs[i].page = p, qs[i].slot = s
              PROVE  i <= mem[p].lsn + 1
          <6>1. i # Len(qs)
            BY <1>1, <5>1, <4>6, <3>2
          <6>2. i \in 1..Len(rs) /\ qs[i] = rs[i]
            BY <1>1, <6>1
          <6>3. i - 1 <= mem[p].lsn
            BY <6>2, <5>1, <1>4 DEF Latest
          <6> QED BY <6>3, <4>3
        <5> DEFINE a == mem[p].lsn
        <5>2. a \in Nat /\ n \in Nat /\ a <= n
          BY <4>3
        <5>3. \A i \in 1..Len(qs) :
                IsChange(qs[i]) /\ qs[i].page = p /\ qs[i].slot = s => i <= a + 1 \/ i > n + 1
          BY <5>1
        <5> HIDE DEF a, n, qs
        <5>4. Replayed(qs, p, s, n) = Replayed(qs, p, s, a)
          BY <5>2, <5>3, <1>1, ReplayedSkip
        <5>5. mem'[p].lsn = n /\ mem'[p].slots[s] = mem[p].slots[s]
          BY <4>6, <3>2 DEF Stamps, n
        <5> QED BY <5>4, <5>5, <4>2, <4>4 DEF a
      <4> QED BY <4>5, <4>6
    <3> QED BY <3>1, <3>2
  <2> QED BY <2>1 DEF MemShows
<1>7. Behind(disk, mem', dirty')
  <2>1. ASSUME NEW p \in Pages
        PROVE  disk[p].lsn <= mem'[p].lsn /\ (p \notin dirty' => mem'[p] = disk[p])
    <3>1. disk[p].lsn <= mem[p].lsn /\ (p \notin dirty => mem[p] = disk[p])
      BY <1>4 DEF Behind
    <3>2. disk[p].lsn \in Nat /\ mem[p].lsn \in Nat /\ mem[p].lsn <= n /\ n \in Nat
      BY PageFacts, <1>1
    <3>3. CASE p = r.page
      BY <3>1, <3>2, <3>3 DEF Stamps
    <3>4. CASE p # r.page
      BY <3>1, <3>4 DEF Stamps
    <3> QED BY <3>3, <3>4
  <2> QED BY <2>1 DEF Behind
<1>8. RedoComplete' /\ mode' # "down"
  BY DEF RedoComplete
<1> QED BY <1>3, <1>5, <1>6, <1>7, <1>8 DEF PageInv, DiskPart

-----------------------------------------------------------------------------
(* TransactionManager keeps PageInv.                                       *)

LEMMA ControlType ==
  ASSUME NEW type \in {"BEGIN", "COMMIT", "ABORT", "TXN_END", "CHECKPOINT_BEGIN"}, NEW t, NEW prev
  PROVE  ~IsChange(ControlRecord(type, t, prev)) /\ ControlRecord(type, t, prev).type # "CHECKPOINT_END"
BY DEF ControlRecord, IsChange

LEMMA BeginPage ==
  ASSUME Inv, Inv', PageInv, ~Concurrent, begin
  PROVE  PageInv'
<1>1. /\ mode = "up" /\ next_txn_id \notin DOMAIN att
      /\ Adds(ControlRecord("BEGIN", next_txn_id, NoLsn))
      /\ Sets(next_txn_id, NextLsn(log), "GROWING", NoLsn, NoOp)
      /\ UNCHANGED <<mem, dirty, disk, platter, ckpt, mode>>
  BY BeginEffect
<1>2. SameOps
  BY <1>1 DEF Sets, SameOps
<1> QED BY <1>1, <1>2, ControlType, AddsControl

LEMMA CommitPage ==
  ASSUME Inv, Inv', PageInv, ~Concurrent, NEW t \in DOMAIN att, commit(t) \/ abort(t)
  PROVE  PageInv'
<1>1. PICK type \in {"COMMIT", "ABORT"} :
        \E state, undo :
          /\ mode = "up" /\ Idle
          /\ Adds(ControlRecord(type, t, att[t].prev))
          /\ Sets(t, NextLsn(log), state, undo, NoOp)
          /\ UNCHANGED <<mem, dirty, disk, platter, ckpt, mode>>
  BY CommitEffect, AbortEffect
<1>2. SameOps
  BY <1>1 DEF Sets, SameOps, Idle, Busy
<1> QED BY <1>1, <1>2, ControlType, AddsControl

LEMMA TxnEndPage ==
  ASSUME Inv, Inv', PageInv, NEW t \in DOMAIN att, commit_force(t) \/ abort_end(t)
  PROVE  PageInv'
<1>1. /\ mode = "up" /\ att[t].state # "GROWING"
      /\ Adds(ControlRecord("TXN_END", t, att[t].prev))
      /\ Drops(t)
      /\ UNCHANGED <<mem, dirty, disk, platter, ckpt, mode>>
  BY CommitForceEffect, AbortEndEffect
<1>2. att[t].op = NoOp
  BY <1>1, Basics DEF TxnOK
<1>3. SameOps
  BY <1>1, <1>2 DEF Drops, SameOps
<1> QED BY <1>1, <1>3, ControlType, AddsControl

LEMMA ModifyPage ==
  ASSUME Inv, Inv', PageInv, ~Concurrent, NEW t \in DOMAIN att, NEW p \in Pages, NEW s \in Slots,
         NEW new \in Content, Modify(t, p, s, new)
  PROVE  PageInv'
<1> DEFINE op == [page |-> p, slot |-> s, old |-> mem[p].slots[s], new |-> new]
           rs == Records(log)
<1>1. /\ mode = "up" /\ Idle
      /\ op # NoOp
      /\ log' = log
      /\ Sets(t, att[t].prev, "GROWING", att[t].undo, op)
      /\ UNCHANGED <<disk, platter, ckpt, mode, rec>>
  BY ModifyEffect
<1>2. mem' = [mem EXCEPT ![p].slots[s] = new] /\ dirty' = dirty \cup {p}
  BY DEF Modify
<1>3. mem \in [Pages -> Page]
  BY DEF Inv, StateOK, PagesOK
<1>4. /\ mem'[p].lsn = mem[p].lsn
      /\ mem'[p].slots[s] = new
      /\ \A x \in Slots : x # s => mem'[p].slots[x] = mem[p].slots[x]
      /\ \A q \in Pages : q # p => mem'[q] = mem[q]
  BY <1>2, <1>3 DEF Page
<1>5. \A q \in Pages : mem'[q].lsn = mem[q].lsn
  BY <1>4
<1>6. \A q \in Pages, x \in Slots : mem[q].slots[x] = Replayed(rs, q, x, mem[q].lsn)
  BY <1>1 DEF PageInv, MemShows, Pending, Idle, Busy
<1>7. \A u \in DOMAIN att' : att'[u].op # NoOp => u = t
  BY <1>1 DEF Sets, Idle, Busy
<1>8. att'[t].op = op /\ t \in DOMAIN att'
  BY <1>1 DEF Sets
<1>9. MemShows(rs, mem', att')
  <2>1. ASSUME NEW q \in Pages, NEW x \in Slots, \A u \in DOMAIN att' : ~Pending(att'[u], q, x)
        PROVE  mem'[q].slots[x] = Replayed(rs, q, x, mem'[q].lsn)
    <3>1. ~(q = p /\ x = s)
      BY <2>1, <1>8, <1>1 DEF Pending
    <3>2. mem'[q].slots[x] = mem[q].slots[x]
      BY <3>1, <1>4
    <3> QED BY <3>2, <1>5, <1>6
  <2>2. ASSUME NEW u \in DOMAIN att', att'[u].op # NoOp
        PROVE  LET o == att'[u].op IN
               /\ mem'[o.page].slots[o.slot] = o.new
               /\ o.old = Replayed(rs, o.page, o.slot, mem'[o.page].lsn)
    <3>1. att'[u].op = op
      BY <2>2, <1>7, <1>8
    <3>2. op.page = p /\ op.slot = s /\ op.old = mem[p].slots[s] /\ op.new = new
      OBVIOUS
    <3> HIDE DEF op
    <3> QED BY <3>1, <3>2, <1>4, <1>6
  <2> QED BY <2>1, <2>2 DEF MemShows
<1>10. Latest(rs, mem')
  <2>1. rs \in Seq(RecordSet)
    BY Basics
  <2>2. \A i \in 1..Len(rs) : IsChange(rs[i]) => rs[i].page \in Pages
    BY <2>1, RecordFacts DEF IsChange
  <2> HIDE DEF rs
  <2>3. Latest(rs, mem)
    BY <1>1 DEF PageInv, rs
  <2> QED BY <2>2, <2>3, <1>5 DEF Latest
<1>11. Behind(disk, mem', dirty')
  BY <1>2, <1>4, <1>5 DEF PageInv, Behind
<1>12. RedoComplete' /\ mode' # "down"
  BY <1>1 DEF RedoComplete
<1>13. ASSUME NEW q \in Pages
       PROVE  Backed(rs, att', disk[q], q) /\ (PowerLoss => Backed(rs, att', platter[q], q))
  BY <1>1 DEF PageInv, Backed, Pending, Idle, Busy
<1> QED BY <1>1, <1>9, <1>10, <1>11, <1>12, <1>13 DEF PageInv

LEMMA LogUpdatePage ==
  ASSUME Inv, Inv', TxnInv, PageInv, ~FetchFails, NEW t \in DOMAIN att, log_update(t)
  PROVE  PageInv'
<1> DEFINE op == att[t].op
           r == UpdateRecord(t, att[t].prev, op)
           n == NextLsn(log)
<1>1. /\ mode = "up"
      /\ op # NoOp /\ op \in Change
      /\ Adds(r)
      /\ Sets(t, n, "GROWING", att[t].undo, NoOp)
      /\ UNCHANGED <<disk, platter, ckpt, mode>>
  BY LogUpdateEffect
<1>2. mem' = [mem EXCEPT ![op.page].lsn = n] /\ dirty' = dirty \cup {op.page}
  BY DEF log_update
<1>3. r.type = "UPDATE" /\ r.page = op.page /\ r.slot = op.slot /\ r.new = op.new
  BY DEF UpdateRecord
<1>4. op.page \in Pages /\ op.slot \in Slots
  BY <1>1 DEF Change
<1>5. mem \in [Pages -> Page]
  BY DEF Inv, StateOK, PagesOK
<1>6. mem[op.page].slots[op.slot] = op.new
  BY <1>1 DEF PageInv, MemShows
<1>7. Stamps(r, n)
  <2>1. /\ mem'[op.page].lsn = n
        /\ mem'[op.page].slots = mem[op.page].slots
        /\ \A p \in Pages : p # op.page => mem'[p] = mem[p]
    BY <1>2, <1>4, <1>5 DEF Page
  <2> HIDE DEF op, r, n
  <2> QED BY <2>1, <1>2, <1>3, <1>6 DEF Stamps
<1>8. \A u \in DOMAIN att : att[u].op # NoOp => u = t
  BY <1>1 DEF TxnInv, Serial, Busy
<1>9. \A u \in DOMAIN att' : att'[u].op = NoOp
  BY <1>1, <1>8 DEF Sets
<1>10. \A u \in DOMAIN att : att[u].op # NoOp =>
         att[u].op.page = r.page /\ att[u].op.slot = r.slot /\ att[u].op.new = r.new
  BY <1>8, <1>3
<1>11. IsChange(r)
  BY <1>3 DEF IsChange
<1> HIDE DEF op, r, n
<1> QED BY <1>1, <1>7, <1>9, <1>10, <1>11, AddsChange DEF n

\* What an undo does to the pages is what its compensation says.
LEMMA RestoredStamps ==
  ASSUME Inv, NEW r \in RecordSet, r.type = "UPDATE", NEW prev, NEW n,
         mem' = Restored(r, n), dirty' = dirty \cup {r.page}
  PROVE  Stamps(Compensation(r, prev), n) /\ IsChange(Compensation(r, prev))
<1> DEFINE c == Compensation(r, prev)
<1>1. c.type = "CLR" /\ c.page = r.page /\ c.slot = r.slot /\ c.new = r.old
  BY DEF Compensation, ClrRecord
<1>2. r.page \in Pages /\ r.slot \in Slots
  BY RecordFacts
<1>3. mem \in [Pages -> Page]
  BY DEF Inv, StateOK, PagesOK
<1>4. /\ mem'[r.page].lsn = n
      /\ mem'[r.page].slots[r.slot] = r.old
      /\ \A s \in Slots : s # r.slot => mem'[r.page].slots[s] = mem[r.page].slots[s]
      /\ \A p \in Pages : p # r.page => mem'[p] = mem[p]
  BY <1>2, <1>3 DEF Restored, Page
<1> HIDE DEF c
<1>5. Stamps(c, n) /\ IsChange(c)
  BY <1>1, <1>4 DEF Stamps, IsChange
<1> QED BY <1>5 DEF c

LEMMA AbortStepPage ==
  ASSUME Inv, Inv', TxnInv, PageInv, NEW t \in DOMAIN att, abort_step(t)
  PROVE  PageInv'
<1> DEFINE r == Records(log)[Frontier(Records(log), att[t].prev + 1)]
           c == Compensation(r, att[t].prev)
           n == NextLsn(log)
<1>1. /\ mode = "up"
      /\ att[t].state = "ABORTED"
      /\ r \in RecordSet /\ r.type = "UPDATE"
      /\ Adds(c)
      /\ Sets(t, n, "ABORTED", r.prev, NoOp)
      /\ mem' = Restored(r, n)
      /\ dirty' = dirty \cup {r.page}
      /\ UNCHANGED <<disk, platter, ckpt, mode>>
  BY AbortStepEffect
<1>2. \A u \in DOMAIN att : att[u].op = NoOp
  <2>1. att[t].op = NoOp
    BY <1>1, Basics DEF TxnOK
  <2> QED BY <2>1, <1>1 DEF TxnInv, Serial, Busy
<1>3. \A u \in DOMAIN att' : att'[u].op = NoOp
  BY <1>1, <1>2 DEF Sets
<1> HIDE DEF r
<1>4. Stamps(c, n) /\ IsChange(c)
  BY <1>1, RestoredStamps
<1> HIDE DEF c, n
<1> QED BY <1>1, <1>2, <1>3, <1>4, AddsChange DEF n

-----------------------------------------------------------------------------
(* The log and the pages reach the disk.                                   *)

\* A step that appends nothing leaves redo as much to do.
LEMMA RedoKept ==
  ASSUME RedoComplete, Records(log') = Records(log), NextLsn(log') = NextLsn(log),
         UNCHANGED <<mem, rec, mode>>
  PROVE  RedoComplete'
BY DEF RedoComplete, ToRedo, Redoable, RecordAt

LEMMA DoneLater ==
  ASSUME NEW rs \in Seq(RecordSet), NEW d, NEW e, NEW ck, Done(rs, d, ck),
         \A p \in Pages : d[p].lsn \in Nat /\ e[p].lsn \in Nat /\ d[p].lsn <= e[p].lsn
  PROVE  Done(rs, e, ck)
<1> SUFFICES ASSUME NEW c \in 1..Len(rs), rs[c].type = "CHECKPOINT_END",
                    ~(ck.phase = "flush" /\ c = ck.lsn + 1),
                    NEW i \in 1..(c - 1), IsChange(rs[i])
             PROVE  i - 1 <= e[rs[i].page].lsn
  BY DEF Done
<1>1. i \in 1..Len(rs)
  OBVIOUS
<1>2. rs[i].page \in Pages
  BY <1>1, RecordFacts DEF IsChange
<1>3. i - 1 <= d[rs[i].page].lsn
  BY DEF Done
<1> QED BY <1>1, <1>2, <1>3

LEMMA FlushLogPage ==
  ASSUME Inv, PageInv, FlushLog
  PROVE  PageInv'
<1>1. Records(log') = Records(log) /\ NextLsn(log') = NextLsn(log)
      /\ UNCHANGED <<mem, dirty, disk, platter, att, ckpt, mode, rec>>
  BY QuietLog DEF FlushLog, pageVars, txnVars, ckptVars, runVars
<1>2. RedoComplete'
  BY <1>1, RedoKept DEF PageInv
<1> QED BY <1>1, <1>2 DEF PageInv

LEMMA WritePagePage ==
  ASSUME Inv, Inv', PageInv, ~Concurrent, NEW p \in Pages, WritePage(p)
  PROVE  PageInv'
<1> DEFINE rs == Records(log)
<1>1. Records(log') = rs /\ UNCHANGED <<mem, platter, att, ckpt, mode, rec>>
  BY WritePageEffect
<1>2. /\ mode # "down"
      /\ disk' = [disk EXCEPT ![p] = mem[p]]
      /\ dirty' = dirty \ {p}
      /\ log' = FlushedTo(log, mem[p].lsn)
  BY DEF WritePage
<1>3. disk \in [Pages -> Page] /\ rs \in Seq(RecordSet)
  BY Basics DEF Inv, StateOK, PagesOK
<1>4. disk'[p] = mem[p] /\ \A q \in Pages : q # p => disk'[q] = disk[q]
  BY <1>2, <1>3
<1>5. Behind(disk, mem, dirty)
  BY DEF PageInv
<1>6. Backed(rs, att, mem[p], p)
  <2> SUFFICES ASSUME NEW s \in Slots
               PROVE  \/ Explained(rs, mem[p], p, s)
                      \/ \E t \in DOMAIN att : Pending(att[t], p, s) /\ att[t].op.new = mem[p].slots[s]
    BY DEF Backed
  <2>1. CASE mode \in {"down", "redo"}
    BY <2>1 DEF PageInv
  <2>2. CASE mode \notin {"down", "redo"}
    <3>1. MemShows(rs, mem, att)
      BY <2>2 DEF PageInv, Inv, StateOK
    <3>2. CASE \E t \in DOMAIN att : Pending(att[t], p, s)
      BY <3>1, <3>2 DEF MemShows, Pending
    <3>3. CASE \A t \in DOMAIN att : ~Pending(att[t], p, s)
      <4>1. mem[p].slots[s] = Replayed(rs, p, s, mem[p].lsn)
        BY <3>1, <3>3 DEF MemShows
      <4> QED BY <4>1, ExplainedBy
    <3> QED BY <3>2, <3>3
  <2> QED BY <2>1, <2>2
<1>7. \A q \in Pages : Backed(rs, att, disk'[q], q) /\ (PowerLoss => Backed(rs, att, platter[q], q))
  BY <1>4, <1>6 DEF PageInv
<1>8. Behind(disk', mem, dirty')
  <2>1. mem[p].lsn \in Nat
    BY PageFacts
  <2> QED BY <1>2, <1>4, <1>5, <2>1 DEF Behind
<1>9. Done(rs, disk', ckpt)
  <2>1. \A q \in Pages : disk[q].lsn \in Nat /\ mem[q].lsn \in Nat
    BY PageFacts
  <2>2. \A q \in Pages : disk'[q].lsn \in Nat /\ disk[q].lsn <= disk'[q].lsn
    BY <1>4, <1>5, <2>1 DEF Behind
  <2>3. Done(rs, disk, ckpt)
    BY DEF PageInv
  <2> HIDE DEF rs
  <2> QED BY <1>3, <2>1, <2>2, <2>3, DoneLater
<1>10. NextLsn(log') = NextLsn(log)
  <2>1. mem[p].lsn \in Int
    BY PageFacts
  <2> QED BY <2>1, <1>2, QuietLog
<1>11. RedoComplete'
  BY <1>1, <1>10, RedoKept DEF PageInv
<1> QED BY <1>1, <1>2, <1>7, <1>8, <1>9, <1>11 DEF PageInv

LEMMA WriteBackPage ==
  ASSUME Inv, PageInv, NEW p \in Pages, WriteBack(p)
  PROVE  PageInv'
<1>1. platter' = [platter EXCEPT ![p] = disk[p]]
      /\ UNCHANGED <<log, mem, dirty, disk, att, ckpt, mode, rec>>
  BY DEF WriteBack, logVars, txnVars, ckptVars, runVars
<1>2. platter \in [Pages -> Page]
  BY DEF Inv, StateOK, PagesOK
<1>3. \A q \in Pages : platter'[q] \in {disk[q], platter[q]}
  BY <1>1, <1>2
<1>4. \A q \in Pages : /\ Backed(Records(log), att, disk[q], q)
                       /\ PowerLoss => Backed(Records(log), att, platter'[q], q)
  BY <1>3 DEF PageInv
<1>5. RedoComplete'
  BY <1>1, RedoKept DEF PageInv
<1> QED BY <1>1, <1>4, <1>5 DEF PageInv

\* flush_all_pages, when no change is pending: the disk shows what memory does.
LEMMA FlushAll ==
  ASSUME Inv, PageInv, mode \in {"up", "undo"}, \A t \in DOMAIN att : att[t].op = NoOp,
         disk' = [p \in Pages |-> IF p \in dirty THEN mem[p] ELSE disk[p]], mem' = mem,
         dirty' = {}
  PROVE  /\ \A p \in Pages : disk'[p] = mem[p] /\ Backed(Records(log), att, disk'[p], p)
         /\ Behind(disk', mem', dirty')
         /\ \A ck : Done(Records(log), disk', ck)
<1> DEFINE rs == Records(log)
<1>1. \A p \in Pages : disk'[p] = mem[p]
  BY DEF PageInv, Behind
<1>2. ASSUME NEW p \in Pages
      PROVE  Backed(rs, att, disk'[p], p)
  <2>1. \A s \in Slots : mem[p].slots[s] = Replayed(rs, p, s, mem[p].lsn)
    BY DEF PageInv, MemShows, Pending
  <2>2. \A s \in Slots : Explained(rs, mem[p], p, s)
    BY <2>1, ExplainedBy
  <2> QED BY <2>2, <1>1 DEF Backed
<1>3. Behind(disk', mem', dirty')
  <2>1. \A p \in Pages : mem[p].lsn \in Nat
    BY PageFacts
  <2> QED BY <1>1, <2>1 DEF Behind
<1>4. ASSUME NEW ck
      PROVE  Done(rs, disk', ck)
  <2>1. rs \in Seq(RecordSet) /\ Latest(rs, mem)
    BY Basics DEF PageInv
  <2> HIDE DEF rs
  <2> SUFFICES ASSUME NEW c \in 1..Len(rs), NEW i \in 1..(c - 1), IsChange(rs[i])
               PROVE  i - 1 <= disk'[rs[i].page].lsn
    BY DEF Done
  <2>2. i \in 1..Len(rs)
    BY <2>1
  <2>3. rs[i].page \in Pages
    BY <2>1, <2>2, RecordFacts DEF IsChange
  <2> QED BY <1>1, <2>1, <2>2, <2>3 DEF Latest
<1> QED BY <1>1, <1>2, <1>3, <1>4

-----------------------------------------------------------------------------
(* CheckpointManager keeps PageInv.                                        *)

\* A checkpoint takes its turn only if checkpoints are allowed at all.
LEMMA CheckpointsAllowed ==
  ASSUME PageInv, ckpt.phase # "idle"
  PROVE  MaxCkpt # 0
BY DEF PageInv, NoCheckpoint

LEMMA CheckpointGrown ==
  ASSUME Inv, Inv', PageInv, NEW r, Adds(r), ~IsChange(r), MaxCkpt # 0, mode = "up",
         UNCHANGED <<mem, dirty, disk, platter, att, mode>>,
         ckpt.phase # "flush", DOMAIN ckpt'.dpt = {} \/ ckpt'.dpt = ckpt.dpt,
         r.type = "CHECKPOINT_END" =>
           ckpt'.phase = "flush" /\ ckpt'.lsn = NextLsn(log) /\ r.dpt = ckpt.dpt
  PROVE  PageInv'
<1>1. DiskPart(Records(log)) /\ MemPart(Records(log))
  BY PageParts
<1>2. MemPart(Records(log))'
  BY <1>1, ControlMem DEF SameOps
<1>3. ASSUME NEW p \in Pages
      PROVE  /\ Backed(Records(log'), att', disk[p], p)
             /\ PowerLoss => Backed(Records(log'), att', platter[p], p)
  <2>1. KeepsOps(r)
    BY DEF KeepsOps
  <2> QED BY <2>1, <1>1, PageFacts, BackedGrown DEF DiskPart
<1> DEFINE dk == ckpt'
<1> HIDE DEF dk
<1>4. Done(Records(log'), disk, dk)
  BY <1>1, DoneGrown DEF DiskPart, dk
<1>5. DptOld(Records(log'), dk)
  BY <1>1, DptOldGrown DEF DiskPart, dk
<1> QED BY <1>2, <1>3, <1>4, <1>5 DEF PageInv, MemPart, dk

LEMMA CheckpointPage ==
  ASSUME Inv, Inv', PageInv, checkpoint
  PROVE  PageInv'
<1> DEFINE r == ControlRecord("CHECKPOINT_BEGIN", NoTxn, NoLsn)
<1>1. /\ mode = "up" /\ ckpt.phase = "idle" /\ ckpts < MaxCkpt
      /\ log' = Appended(log, r)
      /\ ckpt' = [ckpt EXCEPT !.phase = "att"]
      /\ UNCHANGED <<mem, dirty, disk, platter, att, mode>>
  BY DEF checkpoint, CanCall, pageVars, txnVars, runVars
<1>2. r \in RecordSet
  BY EmptyTables, CheckpointsAreRecords
<1>3. Adds(r)
  BY <1>1, <1>2, Basics, AddsRecord
<1>4. MaxCkpt # 0
  BY <1>1 DEF Inv, StateOK
<1>5. ckpt'.dpt = ckpt.dpt
  BY <1>1, Basics DEF CkptOK
<1>6. ~IsChange(r) /\ r.type # "CHECKPOINT_END"
  BY ControlType
<1> HIDE DEF r
<1> QED BY <1>1, <1>3, <1>4, <1>5, <1>6, CheckpointGrown

\* The snapshots of a checkpoint.
LEMMA SnapshotPage ==
  ASSUME Inv, Inv', PageInv, get_att_snapshot \/ get_dirty_pages
  PROVE  PageInv'
<1>1. /\ mode = "up" /\ ckpt.phase \in {"att", "dpt"} /\ ckpt'.phase \in {"dpt", "end"}
      /\ UNCHANGED <<log, mem, dirty, disk, platter, att, mode, rec>>
  BY Basics DEF get_att_snapshot, get_dirty_pages, logVars, pageVars, txnVars, runVars, CkptOK
<1>2. \A p \in DOMAIN ckpt'.dpt : ckpt'.dpt[p] <= Len(Records(log))
  <2>1. CASE get_att_snapshot
    <3>1. ckpt'.dpt = ckpt.dpt
      BY <2>1, Basics DEF get_att_snapshot, CkptOK
    <3> QED BY <3>1 DEF PageInv, DptOld
  <2>2. CASE get_dirty_pages
    <3>1. ckpt'.dpt = [p \in dirty |-> mem[p].lsn]
      BY <2>2, Basics DEF get_dirty_pages, CkptOK
    <3>2. dirty \subseteq Pages
      BY DEF Inv, StateOK
    <3>3. \A p \in Pages : mem[p].lsn <= Len(Records(log))
      BY PageFacts, Basics
    <3> QED BY <3>1, <3>2, <3>3
  <2> QED BY <2>1, <2>2
<1>3. Done(Records(log), disk, ckpt')
  BY <1>1 DEF PageInv, Done
<1>4. DptOld(Records(log), ckpt')
  BY <1>2 DEF PageInv, DptOld
<1>5. RedoComplete' /\ MaxCkpt # 0
  BY <1>1, CheckpointsAllowed DEF RedoComplete
<1> QED BY <1>1, <1>3, <1>4, <1>5 DEF PageInv

LEMMA CheckpointEndPage ==
  ASSUME Inv, Inv', PageInv, checkpoint_end
  PROVE  PageInv'
<1> DEFINE r == CheckpointEnd(ckpt.att, ckpt.dpt)
<1>1. /\ mode = "up" /\ ckpt.phase = "end"
      /\ Adds(r)
      /\ r.type = "CHECKPOINT_END" /\ r.dpt = ckpt.dpt
      /\ ckpt'.phase = "flush" /\ ckpt'.lsn = NextLsn(log)
      /\ UNCHANGED <<mem, dirty, disk, platter, att, mode>>
  BY CheckpointEndEffect
<1>2. ckpt'.dpt = <<>>
  BY DEF checkpoint_end, IdleCheckpoint
<1>3. DOMAIN ckpt'.dpt = {}
  BY <1>2, EmptyMap
<1>4. MaxCkpt # 0 /\ ~IsChange(r)
  BY <1>1, CheckpointsAllowed DEF IsChange
<1> HIDE DEF r
<1> QED BY <1>1, <1>3, <1>4, CheckpointGrown

LEMMA CheckpointFlushPage ==
  ASSUME Inv, Inv', TxnInv, PageInv, checkpoint_flush
  PROVE  PageInv'
<1>1. /\ mode = "up" /\ ckpt.phase = "flush"
      /\ log' = ForcedForPages(log)
      /\ disk' = [p \in Pages |-> IF p \in dirty THEN mem[p] ELSE disk[p]]
      /\ dirty' = {}
      /\ ckpt' = [ckpt EXCEPT !.phase = "force"]
      /\ UNCHANGED <<mem, platter, att, mode, rec>>
  BY DEF checkpoint_flush, txnVars, runVars
<1>2. Records(log') = Records(log)
  BY <1>1, QuietLog
<1>3. \A t \in DOMAIN att : att[t].op = NoOp
  BY <1>1 DEF TxnInv, Serial, Busy
<1>4. /\ \A p \in Pages : Backed(Records(log), att, disk'[p], p)
      /\ Behind(disk', mem', dirty')
      /\ \A ck : Done(Records(log), disk', ck)
  BY <1>1, <1>3, FlushAll
<1>5. Done(Records(log), disk', ckpt')
  BY <1>4
<1>6. DptOld(Records(log), ckpt')
  <2>1. ckpt'.dpt = ckpt.dpt
    BY <1>1, Basics DEF CkptOK
  <2> QED BY <2>1 DEF PageInv, DptOld
<1>7. RedoComplete' /\ MaxCkpt # 0
  BY <1>1, CheckpointsAllowed DEF RedoComplete
<1> QED BY <1>1, <1>2, <1>4, <1>5, <1>6, <1>7 DEF PageInv

LEMMA CheckpointForcePage ==
  ASSUME Inv, Inv', PageInv, checkpoint_force
  PROVE  PageInv'
<1>1. /\ mode = "up" /\ ckpt.phase = "force"
      /\ log' = FlushedTo(log, ckpt.lsn)
      /\ ckpt' = IdleCheckpoint
      /\ UNCHANGED <<mem, dirty, disk, platter, att, mode, rec>>
  BY DEF checkpoint_force, pageVars, txnVars, runVars
<1>2. Records(log') = Records(log)
  <2>1. ckpt.lsn \in Int
    BY Basics DEF CkptOK, Lsn, NoLsn
  <2> QED BY <1>1, <2>1, QuietLog
<1>3. Done(Records(log), disk, ckpt') /\ DptOld(Records(log), ckpt')
  <2>1. ckpt'.phase = "idle" /\ DOMAIN ckpt'.dpt = {}
    BY <1>1, EmptyMap DEF IdleCheckpoint
  <2> QED BY <2>1, <1>1 DEF PageInv, Done, DptOld
<1>4. RedoComplete' /\ MaxCkpt # 0
  BY <1>1, CheckpointsAllowed DEF RedoComplete
<1> QED BY <1>1, <1>2, <1>3, <1>4 DEF PageInv

-----------------------------------------------------------------------------
(* Crashes, and RecoveryManager keeps PageInv.                             *)

\* No checkpoint that a crash leaves in the log is ahead of the disk.
LEMMA CrashPage ==
  ASSUME Inv, Inv', PageInv, Sheltered, NEW k \in 0..Len(log.pending), Crash(k)
  PROVE  PageInv'
<1> DEFINE rs == Records(log)
           qs == Records(log')
           m == Len(qs)
<1>1. /\ Agree(rs, qs, m)
      /\ qs \in Seq(RecordSet)
      /\ m = Len(log.stable) + k
      /\ m \in Len(log.stable)..NextLsn(log)
      /\ mode' = "down" /\ DOMAIN att' = {} /\ ckpt'.phase = "idle"
  BY CrashEffect
<1>2. /\ disk' = IF PowerLoss THEN platter ELSE disk
      /\ mem' = disk' /\ platter' = platter /\ dirty' = {} /\ ckpt' = IdleCheckpoint
      /\ ~CrashInWindow /\ ckpt.phase = "flush" => Len(log.stable) + k <= ckpt.lsn
  BY DEF Crash, Surviving
<1>3. /\ rs \in Seq(RecordSet) /\ Len(rs) \in Nat /\ NextLsn(log) \in Nat
      /\ Len(log.stable) \in Nat /\ Chained(rs)
  BY Basics
<1>4. Chained(qs)
  BY DEF Inv, LogOK
<1>5. m \in Nat /\ m <= Len(rs) /\ \A i \in 1..m : i \in 1..Len(rs) /\ qs[i] = rs[i]
  BY <1>1, <1>3 DEF Agree
<1>6. Records(log') = Reopened(log, k).stable
  BY CrashEffect DEF Crash
<1>7. \A p \in Pages, s \in Slots : Explained(qs, disk'[p], p, s)
  BY <1>2, <1>6 DEF Sheltered, Crash
<1>8. \A p \in Pages : /\ Backed(qs, att', disk'[p], p)
                       /\ PowerLoss => Backed(qs, att', platter'[p], p)
  BY <1>2, <1>7 DEF Backed
<1>9. \A p \in Pages, s \in Slots : Explained(qs, mem'[p], p, s)
  BY <1>2, <1>7
<1>10. Behind(disk', mem', dirty')
  <2>1. \A p \in Pages : disk'[p].lsn \in Nat
    BY <1>2, PageFacts
  <2> QED BY <1>2, <2>1 DEF Behind
<1>11. MaxCkpt = 0 => NoCheckpoint(qs, ckpt')
  BY <1>1, <1>5 DEF PageInv, NoCheckpoint
<1>12. Done(qs, disk', ckpt')
  <2>1. CASE MaxCkpt = 0
    BY <2>1, <1>11 DEF Done, NoCheckpoint
  <2>2. CASE MaxCkpt # 0
    <3>1. disk' = disk /\ ~CrashInWindow
      BY <1>2, <2>2 DEF Sheltered
    <3>2. ASSUME NEW c \in 1..m
          PROVE  ~(ckpt.phase = "flush" /\ c = ckpt.lsn + 1)
      <4>1. ckpt.lsn \in Int
        BY Basics DEF CkptOK, Lsn, NoLsn
      <4> QED BY <4>1, <1>1, <1>2, <3>1, <1>5
    <3>3. ASSUME NEW c \in 1..m, qs[c].type = "CHECKPOINT_END", NEW i \in 1..(c - 1), IsChange(qs[i])
          PROVE  i - 1 <= disk'[qs[i].page].lsn
      <4>1. i \in 1..m
        BY <1>5
      <4>2. qs[c] = rs[c] /\ qs[i] = rs[i] /\ c \in 1..Len(rs)
        BY <4>1, <1>5
      <4>3. Done(rs, disk, ckpt)
        BY DEF PageInv
      <4> QED BY <4>2, <4>3, <3>1, <3>2, <3>3 DEF Done
    <3> QED BY <3>3 DEF Done
  <2> QED BY <2>1, <2>2
<1>13. DptOld(qs, ckpt')
  <2>1. DOMAIN ckpt'.dpt = {}
    BY <1>2, EmptyMap DEF IdleCheckpoint
  <2>2. DptOld(rs, ckpt)
    BY DEF PageInv
  <2> HIDE DEF rs, qs
  <2> QED BY <2>1, <2>2, <1>5 DEF DptOld
<1>14. RedoComplete'
  BY <1>1 DEF RedoComplete
<1> QED BY <1>1, <1>2, <1>8, <1>9, <1>10, <1>11, <1>12, <1>13, <1>14 DEF PageInv

\* The DPT that analysis finds lets redo see every change a page lacks.
LEMMA AnalyzePage ==
  ASSUME Inv, Inv', PageInv, analyze
  PROVE  PageInv'
<1> DEFINE rs == Records(log)
           c == LastCheckpoint(rs)
           d == IF c = 0 THEN <<>> ELSE rs[c].dpt
           dpt == ScanDpt(rs, c, d)
<1>1. mode = "down" /\ mode' = "redo" /\ UNCHANGED <<log, mem, dirty, disk, platter, att, ckpt>>
  BY DEF analyze, logVars, pageVars, txnVars, ckptVars
<1>2. rs \in Seq(RecordSet) /\ Len(rs) = NextLsn(log) /\ NextLsn(log) \in Nat /\ log.stable = rs
  BY <1>1, Basics, LogFacts DEF Inv, StateOK
<1>3. rec'.dpt = dpt /\ rec'.pos = NoLsn
  BY <1>2 DEF analyze
<1>4. /\ c \in 0..Len(rs)
      /\ c # 0 => rs[c].type = "CHECKPOINT_END" /\ c \in 1..Len(rs)
  BY <1>2, LastCheckpointFacts
<1>5. d \in PageMap
  BY <1>2, <1>4, RecordFacts, EmptyTables
<1>6. mem = disk /\ ckpt.phase = "idle"
  BY <1>1, RecoveryAlone DEF PageInv
<1>7. \A p \in DOMAIN d : d[p] \in Nat /\ d[p] <= c
  <2>1. \A p \in DOMAIN d : d[p] \in Nat
    BY <1>5, MapFacts DEF PageMap
  <2>2. CASE c = 0
    BY <2>2, EmptyMap
  <2>3. CASE c # 0
    BY <2>1, <2>3, <1>4 DEF PageInv, DptOld
  <2> QED BY <2>2, <2>3
<1>8. ASSUME NEW n \in 0..(NextLsn(log) - 1), IsChange(rs[n + 1]), n > mem[rs[n + 1].page].lsn
      PROVE  rs[n + 1].page \in DOMAIN dpt /\ n >= dpt[rs[n + 1].page]
  <2> DEFINE p == rs[n + 1].page
             changes(q) == {i \in (c + 1)..Len(rs) : IsChange(rs[i]) /\ rs[i].page = q}
  <2>1. n + 1 \in 1..Len(rs) /\ n \in Int
    BY <1>2
  <2>2. p \in Pages
    BY <2>1, <1>2, <1>8, RecordFacts DEF IsChange
  <2>3. n + 1 > c
    <3>1. CASE c = 0
      BY <3>1, <2>1
    <3>2. CASE c # 0
      <4>1. c \in 1..Len(rs) /\ rs[c].type = "CHECKPOINT_END"
        BY <3>2, <1>4
      <4>2. \A i \in 1..(c - 1) : IsChange(rs[i]) => i - 1 <= mem[rs[i].page].lsn
        BY <4>1, <1>6 DEF PageInv, Done
      <4>3. mem[p].lsn \in Nat
        BY <2>2, PageFacts
      <4>4. ~(n + 1 \in 1..(c - 1))
        <5> SUFFICES ASSUME n + 1 \in 1..(c - 1)
                     PROVE  FALSE
          OBVIOUS
        <5>1. n + 1 - 1 <= mem[rs[n + 1].page].lsn
          BY <4>2, <1>8
        <5> QED BY <5>1, <4>3, <1>8, <2>1
      <4>5. n + 1 # c
        BY <4>1, <1>8 DEF IsChange
      <4> QED BY <4>1, <4>4, <4>5, <2>1
    <3> QED BY <3>1, <3>2
  <2>4. n + 1 \in changes(p)
    BY <2>1, <2>3, <1>4, <1>8
  <2>5. /\ \A q \in DOMAIN d : q \in DOMAIN dpt /\ dpt[q] = d[q]
        /\ \A q \in Pages \ DOMAIN d :
             /\ q \in DOMAIN dpt <=> changes(q) # {}
             /\ q \in DOMAIN dpt => dpt[q] + 1 \in changes(q) /\ \A i \in changes(q) : dpt[q] + 1 <= i
        /\ dpt \in PageMap
    <3> HIDE DEF c, d, rs
    <3> QED BY <1>2, <1>4, <1>5, ScanDptFacts
  <2>6. CASE p \in DOMAIN d
    <3>1. p \in DOMAIN dpt /\ dpt[p] = d[p]
      BY <2>5, <2>6
    <3>2. d[p] \in Nat /\ d[p] <= c
      BY <2>6, <1>7
    <3> HIDE DEF d, dpt, c
    <3> QED BY <3>1, <3>2, <2>1, <2>3, <1>4
  <2>7. CASE p \notin DOMAIN d
    <3>1. p \in DOMAIN dpt /\ dpt[p] + 1 <= n + 1
      BY <2>2, <2>4, <2>5, <2>7
    <3>2. dpt[p] \in Nat
      BY <3>1, <2>5, MapFacts DEF PageMap
    <3> HIDE DEF d, dpt
    <3> QED BY <3>1, <3>2, <2>1
  <2> QED BY <2>6, <2>7
<1>9. RedoComplete'
  <2> SUFFICES ASSUME NEW n \in 0..(NextLsn(log) - 1), IsChange(rs[n + 1]), n > mem[rs[n + 1].page].lsn
               PROVE  n \in ToRedo'
    BY <1>1 DEF RedoComplete, RecordAt
  <2>1. rs[n + 1].page \in DOMAIN dpt /\ n >= dpt[rs[n + 1].page]
    BY <1>8
  <2>2. Redoable(n)'
    <3> HIDE DEF dpt
    <3> QED BY <2>1, <1>1, <1>3 DEF Redoable, RecordAt
  <2>3. n \in (rec'.pos + 1)..(NextLsn(log') - 1)
    BY <1>1, <1>2, <1>3 DEF NoLsn
  <2> QED BY <2>2, <2>3 DEF ToRedo
<1> QED BY <1>1, <1>9 DEF PageInv

\* redo goes through the log in order, so when it stamps a page with an LSN no
\* older change of that page is missing.
LEMMA RedoPage ==
  ASSUME Inv, Inv', PageInv, redo
  PROVE  PageInv'
<1> DEFINE rs == Records(log)
           S == ToRedo
           n == Min(S)
           k == n + 1
           r == rs[k]
<1>1. /\ mode = "redo" /\ S # {}
      /\ mem' = [mem EXCEPT ![r.page].slots[r.slot] = r.new, ![r.page].lsn = n]
      /\ dirty' = dirty \cup {r.page}
      /\ rec' = [rec EXCEPT !.pos = n]
      /\ UNCHANGED <<log, disk, platter, att, ckpt, mode>>
  BY DEF redo, RecordAt, logVars, txnVars, ckptVars
<1>2. /\ rs \in Seq(RecordSet) /\ Len(rs) = NextLsn(log) /\ NextLsn(log) \in Nat
      /\ rec \in [att : TxnMap, dpt : PageMap, pos : Lsn, to_undo : SUBSET Nat]
  BY Basics DEF RecOK
<1>3. rec.pos \in Int /\ rec.pos >= -1
  BY <1>2 DEF Lsn, NoLsn
<1>4. \A x \in S : /\ x \in Nat /\ x < NextLsn(log) /\ x > rec.pos
                   /\ IsChange(rs[x + 1])
                   /\ x > mem[rs[x + 1].page].lsn
  BY <1>2, <1>3 DEF ToRedo, Redoable, RecordAt
<1>5. S \in SUBSET Nat
  BY <1>4
<1>6. n \in S /\ \A x \in S : n <= x
  <2> HIDE DEF S
  <2> QED BY <1>1, <1>5, MinOf
<1>7. \A x \in 0..(NextLsn(log) - 1) : IsChange(rs[x + 1]) /\ x > mem[rs[x + 1].page].lsn => x \in S
  BY <1>1 DEF PageInv, RedoComplete, RecordAt
<1>8. n \in Nat /\ n < NextLsn(log) /\ IsChange(r) /\ n > mem[r.page].lsn /\ n > rec.pos
  BY <1>4, <1>6
<1>9. k \in 1..Len(rs) /\ k - 1 = n
  BY <1>2, <1>8
<1> HIDE DEF n, S
<1>10. r.page \in Pages /\ r.slot \in Slots /\ r \in RecordSet
  BY <1>2, <1>8, <1>9, RecordFacts DEF IsChange
<1>11. mem \in [Pages -> Page]
  BY DEF Inv, StateOK, PagesOK
<1>12. /\ mem'[r.page].lsn = n
       /\ mem'[r.page].slots[r.slot] = r.new
       /\ \A s \in Slots : s # r.slot => mem'[r.page].slots[s] = mem[r.page].slots[s]
       /\ \A p \in Pages : p # r.page => mem'[p] = mem[p]
  <2> HIDE DEF r
  <2> QED BY <1>1, <1>10, <1>11 DEF Page
<1>13. DOMAIN att = {} /\ att' = att
  BY <1>1, RecoveryAlone
<1>14. \A p \in Pages, s \in Slots : Explained(rs, mem[p], p, s)
  BY <1>1 DEF PageInv
<1>15. ASSUME NEW p \in Pages, NEW s \in Slots
       PROVE  Explained(rs, mem'[p], p, s)
  <2>1. CASE p # r.page
    BY <2>1, <1>12, <1>14
  <2>2. CASE p = r.page /\ s = r.slot
    <3> HIDE DEF rs, k
    <3>1. Replayed(rs, rs[k].page, rs[k].slot, k - 1) = rs[k].new
      BY <1>2, <1>8, <1>9, ReplayedChange
    <3>2. mem'[p].slots[s] = Replayed(rs, p, s, n) /\ mem'[p].lsn = n
      BY <3>1, <2>2, <1>9, <1>12
    <3> QED BY <3>2, ExplainedBy
  <2>3. CASE p = r.page /\ s # r.slot
    <3> DEFINE a == mem[p].lsn
    <3>1. a \in Nat /\ a <= n
      BY <2>3, <1>8, PageFacts
    <3>2. PICK m \in {a} \cup (a..(Len(rs) - 1)) : mem[p].slots[s] = Replayed(rs, p, s, m)
      BY <1>14 DEF Explained
    <3>3. m \in Nat /\ a <= m /\ (m = a \/ m <= Len(rs) - 1)
      BY <3>1, <3>2, <1>2
    <3>4. mem'[p].slots[s] = Replayed(rs, p, s, m) /\ mem'[p].lsn = n
      BY <2>3, <3>2, <1>12
    <3>5. CASE m > n
      <4>1. m \in n..(Len(rs) - 1)
        BY <3>1, <3>3, <3>5, <1>2, <1>8
      <4> HIDE DEF rs
      <4> QED BY <4>1, <3>4, ExplainedBy
    <3>6. CASE ~(m > n)
      <4>1. m <= n
        BY <3>3, <3>6, <1>8
      <4>2. ASSUME NEW i \in 1..Len(rs), IsChange(rs[i]), rs[i].page = p, rs[i].slot = s
            PROVE  i <= m + 1 \/ i > n + 1
        <5> SUFFICES ASSUME i > m + 1, i <= n + 1
                     PROVE  FALSE
          BY <3>3, <1>8
        <5> DEFINE x == i - 1
        <5>1. x \in 0..(NextLsn(log) - 1) /\ x + 1 = i /\ x > a /\ x <= n
          BY <1>2, <1>8, <3>1, <3>3
        <5> HIDE DEF x
        <5>2. x \in S
          BY <5>1, <4>2, <1>7
        <5>3. x = n
          BY <5>1, <5>2, <1>6, <1>8
        <5> QED BY <5>1, <5>3, <4>2, <2>3
      <4> HIDE DEF a, rs
      <4>3. Replayed(rs, p, s, n) = Replayed(rs, p, s, m)
        BY <4>1, <4>2, <3>3, <1>2, <1>8, ReplayedSkip
      <4> QED BY <4>3, <3>4, ExplainedBy
    <3> QED BY <3>5, <3>6
  <2> QED BY <2>1, <2>2, <2>3
<1>16. Behind(disk, mem', dirty')
  <2>1. ASSUME NEW p \in Pages
        PROVE  disk[p].lsn <= mem'[p].lsn /\ (p \notin dirty' => mem'[p] = disk[p])
    <3>1. disk[p].lsn <= mem[p].lsn /\ (p \notin dirty => mem[p] = disk[p])
      BY DEF PageInv, Behind
    <3>2. disk[p].lsn \in Nat /\ mem[p].lsn \in Nat
      BY PageFacts
    <3>3. CASE p = r.page
      <4>1. mem'[p].lsn = n /\ p \in dirty' /\ n \in Nat /\ n > mem[p].lsn
        BY <3>3, <1>1, <1>8, <1>12
      <4> QED BY <3>1, <3>2, <4>1
    <3>4. CASE p # r.page
      BY <3>1, <3>4, <1>1, <1>12
    <3> QED BY <3>3, <3>4
  <2> QED BY <2>1 DEF Behind
<1>17. RedoComplete'
  <2>1. rec'.pos = n /\ rec'.dpt = rec.dpt
    BY <1>1, <1>2
  <2>2. ASSUME NEW x \in 0..(NextLsn(log) - 1), IsChange(rs[x + 1]), x > mem'[rs[x + 1].page].lsn
        PROVE  x \in ToRedo'
    <3> DEFINE p == rs[x + 1].page
    <3>1. x \in Nat /\ x + 1 \in 1..Len(rs)
      BY <1>2
    <3>2. p \in Pages /\ mem[p].lsn \in Nat
      BY <3>1, <2>2, <1>2, RecordFacts, PageFacts DEF IsChange
    <3>3. x > mem[p].lsn /\ x # n
      <4>1. CASE p = r.page
        BY <4>1, <3>1, <3>2, <2>2, <1>8, <1>12
      <4>2. CASE p # r.page
        BY <4>2, <3>1, <3>2, <2>2, <1>12
      <4> QED BY <4>1, <4>2
    <3>4. x \in S
      BY <3>3, <2>2, <1>7
    <3>5. x > n
      BY <3>1, <3>3, <3>4, <1>6, <1>8
    <3>6. Redoable(x)
      BY <3>4 DEF S, ToRedo
    <3>7. Redoable(x)'
      BY <3>6, <2>1, <2>2, <1>1 DEF Redoable, RecordAt
    <3>8. x \in (rec'.pos + 1)..(NextLsn(log') - 1)
      BY <3>1, <3>5, <2>1, <1>1, <1>2, <1>8
    <3> QED BY <3>7, <3>8 DEF ToRedo
  <2> QED BY <2>2, <1>1 DEF RedoComplete, RecordAt
<1> QED BY <1>1, <1>13, <1>15, <1>16, <1>17 DEF PageInv

\* When redo has nothing more to do, no page lacks a change, so a page that was
\* ahead of its LSN no longer is.
LEMMA RedoEndPage ==
  ASSUME Inv, Inv', PageInv, redo_end
  PROVE  PageInv'
<1> DEFINE rs == Records(log)
<1>1. /\ mode = "redo" /\ ToRedo = {} /\ mode' = "undo"
      /\ UNCHANGED <<log, mem, dirty, disk, platter, att, ckpt>>
  BY DEF redo_end, logVars, pageVars, txnVars, ckptVars
<1>2. rs \in Seq(RecordSet) /\ Len(rs) = NextLsn(log) /\ NextLsn(log) \in Nat
  BY Basics
<1>3. \A x \in 0..(NextLsn(log) - 1) : IsChange(rs[x + 1]) => ~(x > mem[rs[x + 1].page].lsn)
  BY <1>1 DEF PageInv, RedoComplete, RecordAt
<1>4. Latest(rs, mem)
  <2>1. ASSUME NEW i \in 1..Len(rs), IsChange(rs[i])
        PROVE  i - 1 <= mem[rs[i].page].lsn
    <3> DEFINE x == i - 1
    <3>1. x \in 0..(NextLsn(log) - 1) /\ x + 1 = i
      BY <1>2
    <3>2. rs[i].page \in Pages
      BY <2>1, <1>2, RecordFacts DEF IsChange
    <3>3. mem[rs[i].page].lsn \in Nat
      BY <3>2, PageFacts
    <3> HIDE DEF x
    <3>4. ~(x > mem[rs[i].page].lsn)
      BY <3>1, <2>1, <1>3
    <3> QED BY <3>1, <3>3, <3>4 DEF x
  <2> QED BY <2>1 DEF Latest
<1>5. RedoComplete'
  BY <1>1 DEF RedoComplete
<1>6. ASSUME NEW p \in Pages, NEW s \in Slots
      PROVE  mem[p].slots[s] = Replayed(rs, p, s, mem[p].lsn)
  <2> DEFINE a == mem[p].lsn
  <2>1. a \in Nat
    BY PageFacts
  <2>2. Explained(rs, mem[p], p, s)
    BY <1>1 DEF PageInv
  <2>3. PICK m \in {a} \cup (a..(Len(rs) - 1)) : mem[p].slots[s] = Replayed(rs, p, s, m)
    BY <2>2 DEF Explained
  <2>4. m \in Nat /\ a <= m
    BY <2>1, <2>3
  <2>5. \A i \in 1..Len(rs) :
          IsChange(rs[i]) /\ rs[i].page = p /\ rs[i].slot = s => i <= a + 1 \/ i > m + 1
    BY <1>4, <2>1 DEF Latest
  <2> HIDE DEF a, rs
  <2>6. Replayed(rs, p, s, m) = Replayed(rs, p, s, a)
    BY <2>1, <2>4, <2>5, <1>2, ReplayedSkip
  <2> QED BY <2>3, <2>6 DEF a
<1>7. MemShows(rs, mem, att)
  <2>1. DOMAIN att = {}
    BY <1>1, RecoveryAlone
  <2> QED BY <2>1, <1>6 DEF MemShows
<1> QED BY <1>1, <1>4, <1>5, <1>7 DEF PageInv

LEMMA UndoUpdatePage ==
  ASSUME Inv, Inv', TxnInv, PageInv, undo_update
  PROVE  PageInv'
<1> DEFINE r == RecordAt(log, UndoLsn)
           prev == rec.att[r.txn]
           c == Compensation(r, prev)
           n == NextLsn(log)
<1>1. /\ mode = "undo" /\ rec.to_undo # {}
      /\ r.type = "UPDATE"
      /\ Adds(c)
      /\ mem' = Restored(r, n)
      /\ dirty' = dirty \cup {r.page}
      /\ UNCHANGED <<disk, platter, att, ckpt, mode>>
  BY UndoUpdateEffect
<1>2. r \in RecordSet
  BY <1>1, UndoLsnFacts
<1>3. DOMAIN att = {} /\ DOMAIN att' = {}
  BY <1>1, RecoveryAlone
<1> HIDE DEF r, prev
<1>4. Stamps(c, n) /\ IsChange(c)
  BY <1>1, <1>2, RestoredStamps
<1> HIDE DEF c, n
<1> QED BY <1>1, <1>3, <1>4, AddsChange DEF n

LEMMA UndoTxnEndPage ==
  ASSUME Inv, Inv', TxnInv, PageInv, undo_txn_end
  PROVE  PageInv'
<1> DEFINE r == RecordAt(log, UndoLsn)
           c == ControlRecord("TXN_END", r.txn, rec.att[r.txn])
<1>1. /\ mode = "undo"
      /\ Adds(c)
      /\ UNCHANGED <<mem, dirty, disk, platter, att, ckpt, mode>>
  BY UndoTxnEndEffect
<1>2. SameOps
  BY <1>1 DEF SameOps
<1>3. ~IsChange(c) /\ c.type # "CHECKPOINT_END"
  BY ControlType
<1> HIDE DEF c
<1> QED BY <1>1, <1>2, <1>3, AddsControl

LEMMA UndoSkipPage ==
  ASSUME Inv, PageInv, undo_skip
  PROVE  PageInv'
<1>1. Records(log') = Records(log) /\ mode = "undo"
      /\ UNCHANGED <<mem, dirty, disk, platter, att, ckpt, mode>>
  BY QuietLog DEF undo_skip, pageVars, txnVars, ckptVars
<1>2. RedoComplete'
  BY <1>1 DEF RedoComplete
<1> QED BY <1>1, <1>2 DEF PageInv

LEMMA RecoverEndPage ==
  ASSUME Inv, PageInv, recover_end
  PROVE  PageInv'
<1>1. /\ mode = "undo" /\ mode' = "up"
      /\ log' = Synced(log)
      /\ disk' = [p \in Pages |-> IF p \in dirty THEN mem[p] ELSE disk[p]]
      /\ dirty' = {}
      /\ UNCHANGED <<mem, platter, att, ckpt>>
  BY DEF recover_end, txnVars, ckptVars
<1>2. Records(log') = Records(log)
  BY <1>1, QuietLog
<1>3. DOMAIN att = {}
  BY <1>1, RecoveryAlone
<1>4. /\ \A p \in Pages : Backed(Records(log), att, disk'[p], p)
      /\ Behind(disk', mem', dirty')
      /\ \A ck : Done(Records(log), disk', ck)
  BY <1>1, <1>3, FlushAll
<1>5. RedoComplete'
  BY <1>1 DEF RedoComplete
<1> QED BY <1>1, <1>2, <1>4, <1>5 DEF PageInv

-----------------------------------------------------------------------------
(* The theorems.                                                           *)

LEMMA InitPage ==
  ASSUME Init
  PROVE  PageInv
<1>1. /\ log = EmptyLog /\ mem = [p \in Pages |-> EmptyPage] /\ disk = mem /\ platter = mem
      /\ att = <<>> /\ ckpt = IdleCheckpoint /\ mode = "up"
  BY DEF Init
<1>2. Records(log) = <<>> /\ Len(Records(log)) = 0
  BY <1>1 DEF EmptyLog, Records
<1>3. \A p \in Pages : mem[p].lsn = 0 /\ \A s \in Slots : mem[p].slots[s] = Nil
  BY <1>1 DEF EmptyPage
<1>4. \A p, s, n : Replayed(Records(log), p, s, n) = Nil
  BY <1>2 DEF Replayed, Changes, After
<1>5. DOMAIN att = {} /\ ckpt.phase = "idle" /\ DOMAIN ckpt.dpt = {}
  BY <1>1, EmptyMap DEF IdleCheckpoint
<1>6. \A p \in Pages : /\ Backed(Records(log), att, disk[p], p)
                       /\ Backed(Records(log), att, platter[p], p)
  <2>1. \A p \in Pages, s \in Slots : Explained(Records(log), mem[p], p, s)
    BY <1>3, <1>4, ExplainedBy
  <2> QED BY <2>1, <1>1 DEF Backed
<1>7. MemShows(Records(log), mem, att)
  BY <1>3, <1>4, <1>5 DEF MemShows
<1>8. Latest(Records(log), mem) /\ Done(Records(log), disk, ckpt) /\ DptOld(Records(log), ckpt)
      /\ NoCheckpoint(Records(log), ckpt)
  BY <1>2, <1>5 DEF Latest, Done, DptOld, NoCheckpoint
<1>9. RedoComplete /\ Behind(disk, mem, dirty)
  BY <1>1, <1>3 DEF RedoComplete, Behind
<1> QED BY <1>1, <1>6, <1>7, <1>8, <1>9 DEF PageInv

LEMMA NextPage ==
  ASSUME Inv, Inv', TxnInv, PageInv, Sheltered, [Next]_vars
  PROVE  PageInv'
<1>0. ~Concurrent /\ ~FetchFails
  BY DEF Sheltered
<1>1. CASE begin
  BY <1>0, <1>1, BeginPage
<1>2. ASSUME NEW t \in DOMAIN att,
             \/ \E p \in Pages, v \in Value : Insert(t, p, v)
             \/ \E p \in Pages, s \in Slots, v \in Value : Update(t, p, s, v)
             \/ \E p \in Pages, s \in Slots : Delete(t, p, s)
      PROVE  PageInv'
  <2>1. \E p \in Pages, s \in Slots, v \in Content : Modify(t, p, s, v)
    BY <1>2, ClientChange
  <2> QED BY <1>0, <2>1, ModifyPage
<1>3. ASSUME NEW t \in DOMAIN att,
             \/ log_update(t) \/ commit(t) \/ commit_force(t)
             \/ abort(t) \/ abort_step(t) \/ abort_skip(t) \/ abort_end(t)
      PROVE  PageInv'
  BY <1>0, <1>3, LogUpdatePage, CommitPage, TxnEndPage, AbortStepPage DEF abort_skip
<1>4. CASE Checkpoints
  BY <1>4, CheckpointPage, SnapshotPage, CheckpointEndPage, CheckpointFlushPage, CheckpointForcePage
     DEF Checkpoints
<1>5. CASE FlushLog
  BY <1>5, FlushLogPage
<1>6. ASSUME NEW p \in Pages, WritePage(p) \/ WriteBack(p)
      PROVE  PageInv'
  BY <1>0, <1>6, WritePagePage, WriteBackPage
<1>7. ASSUME NEW k \in 0..Len(log.pending), Crash(k)
      PROVE  PageInv'
  BY <1>7, CrashPage
<1>8. CASE Recovery
  BY <1>0, <1>8, AnalyzePage, RedoPage, RedoEndPage, UndoUpdatePage, UndoSkipPage, UndoTxnEndPage,
     RecoverEndPage DEF Recovery, redo_skip
<1>9. CASE UNCHANGED vars
  <2>1. UNCHANGED <<log, mem, dirty, disk, platter, att, ckpt, mode, rec>>
    BY <1>9 DEF vars, logVars, pageVars, txnVars, ckptVars, runVars
  <2>2. RedoComplete'
    BY <2>1, RedoKept DEF PageInv
  <2> QED BY <2>1, <2>2 DEF PageInv
<1>10. CASE Transactions
  BY <1>1, <1>2, <1>3, <1>10 DEF Transactions
<1> QED BY <1>4, <1>5, <1>6, <1>7, <1>8, <1>9, <1>10 DEF Next

\* Every page, wherever it is, shows the changes of the log up to its LSN and
\* nothing but changes that the log has or is about to get; the pages of a
\* running engine lack none, whatever aborts, evictions (also of a page whose
\* change is not logged yet), crashes and interrupted recoveries went before.
THEOREM PageInvHolds ==
  ASSUME Sheltered
  PROVE  Spec => [](Inv /\ TxnInv /\ PageInv)
<1>0. ~Concurrent /\ ~FetchFails
  BY DEF Sheltered
<1>1. Init => Inv /\ TxnInv /\ PageInv
  BY InitInv, InitTxn, InitPage
<1>2. Inv /\ TxnInv /\ PageInv /\ [Next]_vars => (Inv /\ TxnInv /\ PageInv)'
  BY <1>0, NextInv, NextTxn, NextPage
<1> QED BY <1>1, <1>2, PTL DEF Spec

\* enforce_wal: a page on disk carries the LSN of a stable record and shows the
\* changes up to it, whichever of evict, flush_page and flush_all_pages wrote
\* it.  A change of a later LSN that it shows is one the log has or, if the page
\* was evicted between the change and its record, one that a running
\* transaction is about to log.
THEOREM WrittenAsLogged ==
  ASSUME Sheltered
  PROVE  Spec => []WrittenIsLogged
<1>1. Inv /\ PageInv => WrittenIsLogged
  <2> SUFFICES ASSUME Inv, PageInv, NEW p \in Pages
               PROVE  /\ disk[p].lsn = 0 \/ disk[p].lsn < Len(log.stable)
                      /\ \A s \in Slots :
                           \/ Explained(Records(log), disk[p], p, s)
                           \/ \E t \in DOMAIN att :
                                /\ att[t].op # NoOp
                                /\ att[t].op.page = p /\ att[t].op.slot = s
                                /\ att[t].op.new = disk[p].slots[s]
    BY DEF WrittenIsLogged
  <2>1. disk[p].lsn = 0 \/ disk[p].lsn < Len(log.stable)
    BY PageFacts
  <2>2. Backed(Records(log), att, disk[p], p)
    BY DEF PageInv
  <2> QED BY <2>1, <2>2 DEF Backed, Pending
<1> QED BY <1>1, PageInvHolds, PTL

\* redo: from the DPT of the last checkpoint, which listed the pages before its
\* CHECKPOINT_END and flushed them after it, analysis rebuilds a table under
\* which redo passes over no change that a page on disk lacks.
THEOREM NothingToRedoMissed ==
  ASSUME Sheltered
  PROVE  Spec => []RedoComplete
<1>1. PageInv => RedoComplete
  BY DEF PageInv
<1> QED BY <1>1, PageInvHolds, PTL

-----------------------------------------------------------------------------
(* The invariant.  Each predicate about the first n records looks at       *)
(* nothing behind them.                                                    *)

\* The i-th of the first n records is a change that its transaction has
\* neither committed nor undone.
Open(rs, n, i) ==
  /\ i \in 1..n /\ rs[i].type = "UPDATE"
  /\ ~Restarted(rs, rs[i].txn, i, n)
  /\ \E l \in 1..n : LastOf(rs, n, rs[i].txn, l) /\ ~Ended(rs[l]) /\ i <= Frontier(rs, l)

\* Committed, among the first n records.
CommittedBy(rs, n, i) ==
  \E c \in (i + 1)..n :
    /\ rs[c].type = "COMMIT" /\ rs[c].txn = rs[i].txn
    /\ ~Restarted(rs, rs[i].txn, i, c)

At(r, p, s) == r.page = p /\ r.slot = s

ChangesTo(rs, n, p, s) == {i \in 1..n : IsChange(rs[i]) /\ At(rs[i], p, s)}
OpenOn(rs, n, p, s) == {i \in 1..n : Open(rs, n, i) /\ At(rs[i], p, s)}
CommittedOn(rs, n, p, s) ==
  {i \in 1..n : rs[i].type = "UPDATE" /\ At(rs[i], p, s) /\ CommittedBy(rs, n, i)}

\* What the last of the open changes U wrote, or the last committed one.
Top(rs, U, C) == IF U = {} THEN After(rs, C) ELSE After(rs, U)

\* The slot holds the last open change, if there is one, and otherwise what the
\* last committed transaction wrote; each open change found the one before it,
\* they are of one transaction, and behind all committed ones.
SlotOK(rs, n, p, s) ==
  LET U == OpenOn(rs, n, p, s)
      C == CommittedOn(rs, n, p, s)
  IN /\ After(rs, ChangesTo(rs, n, p, s)) = Top(rs, U, C)
     /\ \A i \in U : rs[i].old = Top(rs, {j \in U : j < i}, C)
     /\ \A i, j \in U : rs[i].txn = rs[j].txn
     /\ \A i \in U, c \in C : c < i

SlotsOK(rs) == \A n \in 0..Len(rs), p \in Pages, s \in Slots : SlotOK(rs, n, p, s)

\* Clients keep off each other's records: a change that is open or pending is
\* covered, and a slot is held by one transaction.
Covered(rs, k) ==
  \A i \in 1..Len(rs) : Open(rs, Len(rs), i) => <<rs[i].txn, rs[i].page, rs[i].slot>> \in k

Exclusive(a, k) ==
  /\ \A x \in k : x[1] \in DOMAIN a
  /\ \A x, y \in k : x[2] = y[2] /\ x[3] = y[3] => x[1] = y[1]
  /\ \A t \in DOMAIN a : a[t].op # NoOp => <<t, a[t].op.page, a[t].op.slot>> \in k

AcidInv ==
  LET rs == Records(log) IN
  /\ SlotsOK(rs)
  /\ Exclusive(att, locks)
  /\ mode # "up" => locks = {}
  /\ mode = "up" => Covered(rs, locks)

-----------------------------------------------------------------------------
(* The predicates depend on the first n records.                           *)

LEMMA OpenAgrees ==
  ASSUME NEW rs \in Seq(RecordSet), NEW qs \in Seq(RecordSet), NEW n \in Nat, Agree(rs, qs, n),
         Chained(rs), NEW i
  PROVE  Open(rs, n, i) <=> Open(qs, n, i)
<1>1. n \in 0..n /\ \A j \in 1..n : qs[j] = rs[j]
  BY DEF Agree
<1>2. ASSUME NEW t
      PROVE  i \in 1..n => (Restarted(rs, t, i, n) <=> Restarted(qs, t, i, n))
  <2>1. i \in 1..n => \A b \in (i + 1)..n : b \in 1..n
    OBVIOUS
  <2> QED BY <2>1, <1>1 DEF Restarted
<1>3. ASSUME NEW l \in 1..n, NEW t
      PROVE  /\ LastOf(rs, n, t, l) <=> LastOf(qs, n, t, l)
             /\ Frontier(qs, l) = Frontier(rs, l)
             /\ Ended(qs[l]) <=> Ended(rs[l])
  BY <1>1, LastAgrees, FrontierAgrees
<1>4. i \in 1..n => qs[i] = rs[i]
  BY <1>1
<1> QED BY <1>2, <1>3, <1>4 DEF Open

LEMMA CommittedAgrees ==
  ASSUME NEW rs \in Seq(RecordSet), NEW qs \in Seq(RecordSet), NEW n \in Nat, Agree(rs, qs, n),
         NEW i \in 1..n
  PROVE  CommittedBy(rs, n, i) <=> CommittedBy(qs, n, i)
<1>1. \A j \in 1..n : qs[j] = rs[j]
  BY DEF Agree
<1>2. ASSUME NEW c \in (i + 1)..n, NEW t
      PROVE  c \in 1..n /\ (Restarted(rs, t, i, c) <=> Restarted(qs, t, i, c))
  <2>1. c \in 1..n /\ \A b \in (i + 1)..c : b \in 1..n
    OBVIOUS
  <2> QED BY <2>1, <1>1 DEF Restarted
<1> QED BY <1>1, <1>2 DEF CommittedBy

\* What a set of positions up to n says is the same.
LEMMA AfterAgrees ==
  ASSUME NEW rs \in Seq(RecordSet), NEW qs \in Seq(RecordSet), NEW n \in Nat, Agree(rs, qs, n),
         NEW S \in SUBSET (1..n)
  PROVE  After(rs, S) = After(qs, S)
<1>1. CASE S = {}
  BY <1>1 DEF After
<1>2. CASE S # {}
  <2>1. S \in SUBSET Int /\ n \in Int /\ \A x \in S : x <= n
    OBVIOUS
  <2>2. Max(S) \in S
    BY <2>1, <1>2, MaxOf
  <2>3. rs[Max(S)] = qs[Max(S)]
    BY <2>2 DEF Agree
  <2> QED BY <1>2, <2>3 DEF After
<1> QED BY <1>1, <1>2

LEMMA SlotAgrees ==
  ASSUME NEW rs \in Seq(RecordSet), NEW qs \in Seq(RecordSet), NEW n \in Nat, Agree(rs, qs, n),
         Chained(rs), NEW p, NEW s, SlotOK(rs, n, p, s)
  PROVE  SlotOK(qs, n, p, s)
<1> DEFINE U == OpenOn(rs, n, p, s)
           C == CommittedOn(rs, n, p, s)
           H == ChangesTo(rs, n, p, s)
<1>1. \A j \in 1..n : qs[j] = rs[j]
  BY DEF Agree
<1>2. OpenOn(qs, n, p, s) = U
  BY <1>1, OpenAgrees DEF OpenOn
<1>3. CommittedOn(qs, n, p, s) = C
  BY <1>1, CommittedAgrees DEF CommittedOn
<1>4. ChangesTo(qs, n, p, s) = H
  BY <1>1 DEF ChangesTo
<1>5. U \in SUBSET (1..n) /\ C \in SUBSET (1..n) /\ H \in SUBSET (1..n)
  BY DEF OpenOn, CommittedOn, ChangesTo
<1>6. /\ After(rs, H) = Top(rs, U, C)
      /\ \A i \in U : rs[i].old = Top(rs, {j \in U : j < i}, C)
      /\ \A i, j \in U : rs[i].txn = rs[j].txn
      /\ \A i \in U, c \in C : c < i
  BY DEF SlotOK
<1> HIDE DEF U, C, H
<1>7. \A S \in SUBSET (1..n) : After(rs, S) = After(qs, S)
  BY AfterAgrees
<1>8. \A V \in SUBSET (1..n) : Top(rs, V, C) = Top(qs, V, C)
  BY <1>5, <1>7 DEF Top
<1>9. After(qs, H) = Top(qs, U, C)
  BY <1>5, <1>6, <1>7, <1>8
<1>10. ASSUME NEW i \in U
       PROVE  qs[i].old = Top(qs, {j \in U : j < i}, C)
  <2> DEFINE V == {j \in U : j < i}
  <2>1. V \in SUBSET (1..n)
    BY <1>5
  <2>2. rs[i].old = Top(rs, V, C)
    BY <1>6
  <2> HIDE DEF V
  <2>3. rs[i].old = Top(qs, V, C)
    BY <2>1, <2>2, <1>8
  <2> QED BY <2>3, <1>1, <1>5 DEF V
<1>11. \A i, j \in U : qs[i].txn = qs[j].txn
  BY <1>1, <1>5, <1>6
<1> QED BY <1>2, <1>3, <1>4, <1>6, <1>9, <1>10, <1>11 DEF SlotOK

-----------------------------------------------------------------------------
(* How the m-th record changes what is open and what is committed.         *)

\* Restarted, one record later.
LEMMA RestartedStep ==
  ASSUME NEW rs \in Seq(RecordSet), NEW m \in 1..Len(rs), NEW i \in 1..(m - 1), NEW t
  PROVE  Restarted(rs, t, i, m) <=>
           Restarted(rs, t, i, m - 1) \/ (rs[m].type = "BEGIN" /\ rs[m].txn = t)
<1>1. \A b : b \in (i + 1)..m <=> b \in (i + 1)..(m - 1) \/ b = m
  OBVIOUS
<1> QED BY <1>1 DEF Restarted

\* A record of another transaction, or of none.
LEMMA OpenOther ==
  ASSUME NEW rs \in Seq(RecordSet), NEW m \in 1..Len(rs), NEW i \in 1..m, rs[i].txn # rs[m].txn
  PROVE  Open(rs, m, i) <=> Open(rs, m - 1, i)
<1>1. i \in 1..(m - 1)
  OBVIOUS
<1>2. Restarted(rs, rs[i].txn, i, m) <=> Restarted(rs, rs[i].txn, i, m - 1)
  BY <1>1, RestartedStep
<1>3. \A l : LastOf(rs, m, rs[i].txn, l) <=> LastOf(rs, m - 1, rs[i].txn, l)
  BY LastStep
<1>4. \A l : LastOf(rs, m - 1, rs[i].txn, l) => l \in 1..(m - 1) /\ l \in 1..m
  BY DEF LastOf
<1> QED BY <1>1, <1>2, <1>3, <1>4 DEF Open

\* A change of the transaction whose last record is the l-th.
LEMMA OpenOwn ==
  ASSUME NEW rs \in Seq(RecordSet), NEW n \in Nat, NEW i \in 1..n, NEW l, LastOf(rs, n, rs[i].txn, l)
  PROVE  Open(rs, n, i) <=>
           /\ rs[i].type = "UPDATE" /\ ~Restarted(rs, rs[i].txn, i, n)
           /\ ~Ended(rs[l]) /\ i <= Frontier(rs, l)
<1>1. l \in 1..n
  BY DEF LastOf
<1>2. \A k : LastOf(rs, n, rs[i].txn, k) => k = l
  BY LastUnique
<1> QED BY <1>1, <1>2 DEF Open

\* Records that open, commit and undo nothing.
LEMMA OpenSame ==
  ASSUME NEW rs \in Seq(RecordSet), Chained(rs), Linked(rs), NEW m \in 1..Len(rs),
         rs[m].type \notin {"UPDATE", "CLR", "COMMIT"}, NEW i \in 1..m
  PROVE  Open(rs, m, i) <=> Open(rs, m - 1, i)
<1> DEFINE r == rs[m]
           t == r.txn
           l == r.prev + 1
<1>1. r \in RecordSet /\ Continues(rs, m - 1, r) /\ Chain(rs, m) /\ m - 1 \in Nat
  BY DEF Linked, Chained
<1>2. CASE rs[i].txn # t
  BY <1>2, OpenOther
<1>3. CASE rs[i].txn = t /\ i = m
  BY <1>3 DEF Open
<1>4. CASE rs[i].txn = t /\ i \in 1..(m - 1) /\ rs[i].type # "UPDATE"
  BY <1>4 DEF Open
<1>5. CASE rs[i].txn = t /\ i \in 1..(m - 1) /\ rs[i].type = "UPDATE"
  <2>1. t \in Nat
    BY <1>5, RecordFacts
  <2>2. r.type \in {"BEGIN", "ABORT", "TXN_END"}
    BY <2>1, <1>1, RecordFacts
  <2>3. LastOf(rs, m, t, m)
    BY LastStep
  <2>4. Open(rs, m, i) <=> ~Restarted(rs, t, i, m) /\ ~Ended(r) /\ i <= Frontier(rs, m)
    BY <2>3, <1>5, OpenOwn
  <2>5. CASE r.type = "BEGIN"
    <3>1. ~Open(rs, m, i)
      BY <2>4, <2>5, <1>5, RestartedStep
    <3>2. \A j \in 1..(m - 1) : LastOf(rs, m - 1, t, j) => Ended(rs[j])
      BY <1>1, <2>5 DEF Continues
    <3>3. ~Open(rs, m - 1, i)
      BY <3>2, <1>5 DEF Open
    <3> QED BY <3>1, <3>3
  <2>6. CASE r.type = "ABORT"
    <3>1. LastOf(rs, m - 1, t, l) /\ rs[l].type \in {"BEGIN", "UPDATE"}
      BY <1>1, <2>6 DEF Continues
    <3>2. Open(rs, m - 1, i) <=> ~Restarted(rs, t, i, m - 1) /\ ~Ended(rs[l]) /\ i <= Frontier(rs, l)
      BY <3>1, <1>1, <1>5, OpenOwn
    <3>3. Frontier(rs, m) = l /\ Frontier(rs, l) = l /\ ~Ended(r) /\ ~Ended(rs[l])
      BY <2>6, <3>1 DEF Frontier, UndoNext, Ended
    <3>4. Restarted(rs, t, i, m) <=> Restarted(rs, t, i, m - 1)
      BY <2>6, <1>5, RestartedStep
    <3> HIDE DEF l, t
    <3> QED BY <2>4, <3>2, <3>3, <3>4
  <2>7. CASE r.type = "TXN_END"
    <3>1. ~Open(rs, m, i)
      BY <2>4, <2>7 DEF Ended
    <3>2. LastOf(rs, m - 1, t, l) /\
          (rs[l].type = "COMMIT" \/ (rs[l].type \in Live /\ rs[Frontier(rs, l)].type = "BEGIN"))
      BY <1>1, <2>7 DEF Continues
    <3>3. Open(rs, m - 1, i) <=> ~Restarted(rs, t, i, m - 1) /\ ~Ended(rs[l]) /\ i <= Frontier(rs, l)
      BY <3>2, <1>1, <1>5, OpenOwn
    <3>4. CASE rs[l].type = "COMMIT"
      BY <3>1, <3>3, <3>4 DEF Ended
    <3>5. CASE rs[l].type \in Live /\ rs[Frontier(rs, l)].type = "BEGIN"
      <4> DEFINE b == Frontier(rs, l)
      <4>1. l \in 1..(m - 1) /\ l \in 1..Len(rs) /\ rs[l].txn = t
        BY <3>2 DEF LastOf
      <4> HIDE DEF l
      <4>2. b \in 1..l /\ rs[b].txn = t
        BY <4>1, <3>5, FrontierRange
      <4>3. rs[b].type = "BEGIN" /\ i # b
        BY <3>5, <1>5
      <4> HIDE DEF b
      <4>4. i <= b => b \in (i + 1)..(m - 1)
        BY <4>1, <4>2, <4>3, <1>5
      <4>5. i <= b => Restarted(rs, t, i, m - 1)
        BY <4>2, <4>3, <4>4 DEF Restarted
      <4> QED BY <3>1, <3>3, <4>5 DEF b
    <3> QED BY <3>2, <3>4, <3>5
  <2> QED BY <2>2, <2>5, <2>6, <2>7
<1> QED BY <1>2, <1>3, <1>4, <1>5

\* An UPDATE is open, besides what was.
LEMMA OpenUpdate ==
  ASSUME NEW rs \in Seq(RecordSet), Chained(rs), Linked(rs), NEW m \in 1..Len(rs),
         rs[m].type = "UPDATE", NEW i \in 1..m
  PROVE  Open(rs, m, i) <=> Open(rs, m - 1, i) \/ i = m
<1> DEFINE r == rs[m]
           t == r.txn
           l == r.prev + 1
<1>1. Continues(rs, m - 1, r) /\ m - 1 \in Nat
  BY DEF Linked
<1>2. LastOf(rs, m - 1, t, l) /\ rs[l].type \in {"BEGIN", "UPDATE"}
  BY <1>1 DEF Continues
<1>3. LastOf(rs, m, t, m) /\ Frontier(rs, m) = m /\ ~Ended(rs[m])
  BY LastStep DEF Frontier, Ended
<1>4. Frontier(rs, l) = l /\ ~Ended(rs[l])
  BY <1>2 DEF Frontier, Ended
<1>5. CASE rs[i].txn # t
  BY <1>5, OpenOther
<1>6. CASE i = m
  <2>1. ~Restarted(rs, t, m, m)
    BY DEF Restarted
  <2> QED BY <2>1, <1>3, <1>6, OpenOwn
<1>7. CASE rs[i].txn = t /\ i \in 1..(m - 1)
  <2>1. Open(rs, m, i) <=> rs[i].type = "UPDATE" /\ ~Restarted(rs, t, i, m) /\ i <= m
    BY <1>3, <1>7, OpenOwn
  <2>2. Open(rs, m - 1, i) <=> rs[i].type = "UPDATE" /\ ~Restarted(rs, t, i, m - 1) /\ i <= l
    BY <1>1, <1>2, <1>4, <1>7, OpenOwn
  <2>3. Restarted(rs, t, i, m) <=> Restarted(rs, t, i, m - 1)
    BY <1>7, RestartedStep
  <2>4. i <= l
    BY <1>2, <1>7 DEF LastOf
  <2> QED BY <2>1, <2>2, <2>3, <2>4, <1>7
<1> QED BY <1>5, <1>6, <1>7

\* A COMMIT closes its transaction's changes, and they are all that it had.
LEMMA OpenCommit ==
  ASSUME NEW rs \in Seq(RecordSet), Chained(rs), Linked(rs), NEW m \in 1..Len(rs),
         rs[m].type = "COMMIT", NEW i \in 1..m
  PROVE  /\ Open(rs, m, i) <=> Open(rs, m - 1, i) /\ rs[i].txn # rs[m].txn
         /\ rs[i].type = "UPDATE" /\ rs[i].txn = rs[m].txn =>
              (~Restarted(rs, rs[i].txn, i, m) <=> Open(rs, m - 1, i))
<1> DEFINE r == rs[m]
           t == r.txn
           l == r.prev + 1
<1>1. Continues(rs, m - 1, r) /\ m - 1 \in Nat
  BY DEF Linked
<1>2. LastOf(rs, m - 1, t, l) /\ rs[l].type \in {"BEGIN", "UPDATE"}
  BY <1>1 DEF Continues
<1>3. LastOf(rs, m, t, m) /\ Ended(rs[m])
  BY LastStep DEF Ended
<1>4. Frontier(rs, l) = l /\ ~Ended(rs[l])
  BY <1>2 DEF Frontier, Ended
<1>5. CASE rs[i].txn # t
  BY <1>5, OpenOther
<1>6. CASE rs[i].txn = t
  <2>0. m \in Nat /\ LastOf(rs, m, rs[i].txn, m)
    BY <1>3, <1>6
  <2>1. ~Open(rs, m, i)
    BY <2>0, <1>3, OpenOwn
  <2>2. CASE i = m
    BY <2>1, <2>2, <1>6
  <2>3. CASE i \in 1..(m - 1)
    <3>1. Open(rs, m - 1, i) <=> rs[i].type = "UPDATE" /\ ~Restarted(rs, t, i, m - 1) /\ i <= l
      BY <1>1, <1>2, <1>4, <1>6, <2>3, OpenOwn
    <3>2. Restarted(rs, t, i, m) <=> Restarted(rs, t, i, m - 1)
      BY <2>3, RestartedStep
    <3>3. i <= l
      BY <1>2, <1>6, <2>3 DEF LastOf
    <3> QED BY <2>1, <3>1, <3>2, <3>3, <1>6
  <2> QED BY <2>2, <2>3
<1> QED BY <1>5, <1>6

\* A CLR closes the last open change of its transaction.
LEMMA OpenClr ==
  ASSUME NEW rs \in Seq(RecordSet), Chained(rs), Linked(rs), NEW m \in 1..Len(rs),
         rs[m].type = "CLR"
  PROVE  \E f \in 1..(m - 1) :
           /\ Open(rs, m - 1, f) /\ rs[f].txn = rs[m].txn /\ Undoes(rs[m], rs[f])
           /\ \A i \in 1..m : Open(rs, m, i) <=> Open(rs, m - 1, i) /\ i # f
           /\ \A i \in 1..m : Open(rs, m - 1, i) /\ rs[i].txn = rs[m].txn => i <= f
<1> DEFINE r == rs[m]
           t == r.txn
           l == r.prev + 1
           f == Frontier(rs, l)
           g == rs[f].prev + 1
<1>1. Continues(rs, m - 1, r) /\ m - 1 \in Nat /\ r \in RecordSet
  BY DEF Linked
<1>2. LastOf(rs, m - 1, t, l) /\ rs[l].type \in Live /\ Undoes(r, rs[f])
  BY <1>1 DEF Continues
<1>3. l \in 1..(m - 1) /\ l \in 1..Len(rs) /\ rs[l].txn = t
  BY <1>2 DEF LastOf
<1>4. f \in 1..l /\ rs[f].txn = t
  <2> HIDE DEF l
  <2> QED BY <1>2, <1>3, FrontierRange
<1>5. f \in 1..(m - 1) /\ f \in 1..Len(rs)
  <2> HIDE DEF l, f
  <2> QED BY <1>3, <1>4
<1>6. rs[f].type = "UPDATE" /\ r.undo_next = rs[f].prev
  BY <1>2 DEF Undoes
<1>7. Frontier(rs, m) = g /\ LastOf(rs, m, t, m) /\ ~Ended(r) /\ ~Ended(rs[l])
  BY <1>2, <1>6, LastStep DEF Frontier, UndoNext, Ended, Live
<1>8. LastOf(rs, f - 1, t, g)
  <2>1. Continues(rs, f - 1, rs[f])
    <3> HIDE DEF f
    <3> QED BY <1>5 DEF Linked
  <2> QED BY <2>1, <1>4, <1>6 DEF Continues
<1> HIDE DEF f, g, l
<1>9. \A b \in 1..l : rs[b].type = "BEGIN" /\ rs[b].txn = t => b <= f
  BY <1>2, <1>3, FrontierAfterBegin DEF f
<1>10. ~Restarted(rs, t, f, m - 1)
  <2> SUFFICES ASSUME NEW b \in (f + 1)..(m - 1), rs[b].type = "BEGIN", rs[b].txn = t
               PROVE  FALSE
    BY DEF Restarted
  <2>1. b <= l
    BY <1>2, <1>5 DEF LastOf
  <2>2. b \in 1..l
    BY <2>1, <1>3, <1>5
  <2> QED BY <2>2, <1>9, <1>5
<1>11. ASSUME NEW i \in 1..(m - 1), rs[i].txn = t
       PROVE  Open(rs, m - 1, i) <=>
                rs[i].type = "UPDATE" /\ ~Restarted(rs, t, i, m - 1) /\ i <= f
  BY <1>1, <1>2, <1>7, <1>11, OpenOwn DEF f
<1>12. Open(rs, m - 1, f)
  BY <1>4, <1>5, <1>6, <1>10, <1>11
<1>13. \A i \in 1..m : ~(i \in 1..(m - 1)) => i = m
  OBVIOUS
<1>14. ~Open(rs, m - 1, m)
  BY DEF Open
<1>15. ASSUME NEW i \in 1..m, Open(rs, m - 1, i), rs[i].txn = t
       PROVE  i <= f
  BY <1>11, <1>13, <1>14, <1>15
<1>16. ASSUME NEW i \in 1..m
       PROVE  Open(rs, m, i) <=> Open(rs, m - 1, i) /\ i # f
  <2>1. CASE rs[i].txn # t
    BY <2>1, <1>4, OpenOther
  <2>2. CASE i = m
    BY <2>2, <1>14 DEF Open
  <2>3. CASE rs[i].txn = t /\ i \in 1..(m - 1)
    <3>1. Open(rs, m, i) <=> rs[i].type = "UPDATE" /\ ~Restarted(rs, t, i, m) /\ i <= g
      BY <2>3, <1>7, OpenOwn
    <3>2. Restarted(rs, t, i, m) <=> Restarted(rs, t, i, m - 1)
      BY <2>3, RestartedStep
    <3>3. i <= f /\ i # f <=> i <= g
      <4>1. g \in 1..(f - 1) /\ \A j \in (g + 1)..(f - 1) : rs[j].txn # t
        BY <1>8 DEF LastOf
      <4>2. CASE i <= g
        BY <4>1, <4>2, <1>5, <2>3
      <4>3. CASE ~(i <= g)
        <5>1. i \in 1..(f - 1) => i \in (g + 1)..(f - 1)
          BY <4>1, <4>3, <1>5, <2>3
        <5>2. ~(i \in 1..(f - 1))
          BY <5>1, <4>1, <2>3
        <5> QED BY <5>2, <4>3, <1>5, <2>3
      <4> QED BY <4>2, <4>3
    <3> QED BY <3>1, <3>2, <3>3, <1>11, <2>3
  <2> QED BY <2>1, <2>2, <2>3, <1>13
<1> QED BY <1>2, <1>4, <1>5, <1>12, <1>15, <1>16 DEF f

\* The m-th record commits changes only if it is their transaction's COMMIT.
LEMMA CommittedStep ==
  ASSUME NEW rs \in Seq(RecordSet), NEW m \in 1..Len(rs), NEW i \in 1..m
  PROVE  CommittedBy(rs, m, i) <=>
           \/ CommittedBy(rs, m - 1, i)
           \/ /\ rs[m].type = "COMMIT" /\ rs[m].txn = rs[i].txn /\ i # m
              /\ ~Restarted(rs, rs[i].txn, i, m)
<1>1. \A c : c \in (i + 1)..m <=> c \in (i + 1)..(m - 1) \/ (c = m /\ i # m)
  OBVIOUS
<1> QED BY <1>1 DEF CommittedBy

LEMMA CommittedSame ==
  ASSUME NEW rs \in Seq(RecordSet), Chained(rs), Linked(rs), NEW m \in 1..Len(rs), NEW i \in 1..m,
         rs[i].type = "UPDATE"
  PROVE  CommittedBy(rs, m, i) <=>
           \/ CommittedBy(rs, m - 1, i)
           \/ rs[m].type = "COMMIT" /\ rs[m].txn = rs[i].txn /\ Open(rs, m - 1, i)
<1>1. CASE rs[m].type # "COMMIT"
  BY <1>1, CommittedStep
<1>2. CASE rs[m].type = "COMMIT"
  <2>1. i # m
    BY <1>2
  <2>2. rs[i].txn = rs[m].txn => (~Restarted(rs, rs[i].txn, i, m) <=> Open(rs, m - 1, i))
    BY <1>2, OpenCommit
  <2> QED BY <2>1, <2>2, CommittedStep
<1> QED BY <1>1, <1>2

-----------------------------------------------------------------------------
(* How the m-th record changes a slot.                                     *)

LEMMA SlotSets ==
  ASSUME NEW rs \in Seq(RecordSet), NEW n \in 0..Len(rs), NEW p, NEW s
  PROVE  /\ \A i : i \in ChangesTo(rs, n, p, s) <=> i \in 1..n /\ IsChange(rs[i]) /\ At(rs[i], p, s)
         /\ \A i : i \in OpenOn(rs, n, p, s) <=>
              i \in 1..n /\ rs[i].type = "UPDATE" /\ Open(rs, n, i) /\ At(rs[i], p, s)
         /\ \A i : i \in CommittedOn(rs, n, p, s) <=>
              i \in 1..n /\ rs[i].type = "UPDATE" /\ At(rs[i], p, s) /\ CommittedBy(rs, n, i)
BY DEF ChangesTo, OpenOn, CommittedOn, Open

\* What the last position of a set wrote.
LEMMA AfterLast ==
  ASSUME NEW rs, NEW S \in SUBSET Int, NEW m \in S, \A x \in S : x <= m
  PROVE  After(rs, S) = rs[m].new
<1>1. S # {} /\ Max(S) = m
  BY MaxIs
<1> QED BY <1>1 DEF After

\* A record that is no change leaves the changes.
LEMMA ChangesSame ==
  ASSUME NEW rs \in Seq(RecordSet), NEW m \in 1..Len(rs), NEW p, NEW s,
         ~(IsChange(rs[m]) /\ At(rs[m], p, s))
  PROVE  ChangesTo(rs, m, p, s) = ChangesTo(rs, m - 1, p, s)
<1>1. \A i : i \in 1..m <=> i \in 1..(m - 1) \/ i = m
  OBVIOUS
<1> QED BY <1>1 DEF ChangesTo

LEMMA ChangesMore ==
  ASSUME NEW rs \in Seq(RecordSet), NEW m \in 1..Len(rs), NEW p, NEW s,
         IsChange(rs[m]), At(rs[m], p, s)
  PROVE  After(rs, ChangesTo(rs, m, p, s)) = rs[m].new
<1> DEFINE S == ChangesTo(rs, m, p, s)
<1>1. S \in SUBSET Int /\ m \in S /\ \A x \in S : x <= m
  BY DEF ChangesTo
<1> HIDE DEF S
<1> QED BY <1>1, AfterLast DEF S

LEMMA CommittedOnSame ==
  ASSUME NEW rs \in Seq(RecordSet), Chained(rs), Linked(rs), NEW m \in 1..Len(rs), NEW p, NEW s,
         rs[m].type # "COMMIT"
  PROVE  CommittedOn(rs, m, p, s) = CommittedOn(rs, m - 1, p, s)
<1>1. ASSUME NEW i
      PROVE  i \in CommittedOn(rs, m, p, s) <=> i \in CommittedOn(rs, m - 1, p, s)
  <2>1. ~CommittedBy(rs, m - 1, m)
    BY DEF CommittedBy
  <2>2. i \in 1..m <=> i \in 1..(m - 1) \/ i = m
    OBVIOUS
  <2> QED BY <2>1, <2>2, CommittedSame DEF CommittedOn
<1> QED BY <1>1

\* A record that leaves the changes, the open and the committed ones.
LEMMA SlotSame ==
  ASSUME NEW rs, NEW m, NEW n, NEW p, NEW s, SlotOK(rs, n, p, s),
         ChangesTo(rs, m, p, s) = ChangesTo(rs, n, p, s),
         OpenOn(rs, m, p, s) = OpenOn(rs, n, p, s),
         CommittedOn(rs, m, p, s) = CommittedOn(rs, n, p, s)
  PROVE  SlotOK(rs, m, p, s)
BY DEF SlotOK

LEMMA SlotQuiet ==
  ASSUME NEW rs \in Seq(RecordSet), Chained(rs), Linked(rs), NEW m \in 1..Len(rs), NEW p, NEW s,
         SlotOK(rs, m - 1, p, s), rs[m].type \notin {"UPDATE", "CLR", "COMMIT"}
  PROVE  SlotOK(rs, m, p, s)
<1>1. ChangesTo(rs, m, p, s) = ChangesTo(rs, m - 1, p, s)
  BY ChangesSame DEF IsChange
<1>2. CommittedOn(rs, m, p, s) = CommittedOn(rs, m - 1, p, s)
  BY CommittedOnSame
<1>3. OpenOn(rs, m, p, s) = OpenOn(rs, m - 1, p, s)
  <2>1. \A i \in 1..m : Open(rs, m, i) <=> Open(rs, m - 1, i)
    BY OpenSame
  <2>2. \A i : i \in 1..m <=> i \in 1..(m - 1) \/ i = m
    OBVIOUS
  <2>3. ~Open(rs, m - 1, m)
    BY DEF Open
  <2> QED BY <2>1, <2>2, <2>3 DEF OpenOn
<1> QED BY <1>1, <1>2, <1>3, SlotSame

LEMMA SlotUpdate ==
  ASSUME NEW rs \in Seq(RecordSet), Chained(rs), Linked(rs), NEW m \in 1..Len(rs), NEW p, NEW s,
         SlotOK(rs, m - 1, p, s), rs[m].type = "UPDATE",
         At(rs[m], p, s) =>
           /\ rs[m].old = After(rs, ChangesTo(rs, m - 1, p, s))
           /\ \A i \in OpenOn(rs, m - 1, p, s) : rs[i].txn = rs[m].txn
  PROVE  SlotOK(rs, m, p, s)
<1> DEFINE U == OpenOn(rs, m - 1, p, s)
           V == OpenOn(rs, m, p, s)
           C == CommittedOn(rs, m - 1, p, s)
<1>1. CommittedOn(rs, m, p, s) = C
  BY CommittedOnSame
<1>2. \A i : i \in V <=> i \in U \/ (i = m /\ At(rs[m], p, s))
  <2>1. \A i \in 1..m : Open(rs, m, i) <=> Open(rs, m - 1, i) \/ i = m
    BY OpenUpdate
  <2>2. \A i : i \in 1..m <=> i \in 1..(m - 1) \/ i = m
    OBVIOUS
  <2>3. ~Open(rs, m - 1, m)
    BY DEF Open
  <2> QED BY <2>1, <2>2, <2>3 DEF OpenOn
<1>3. CASE ~At(rs[m], p, s)
  <2>1. V = U
    BY <1>2, <1>3
  <2>2. ChangesTo(rs, m, p, s) = ChangesTo(rs, m - 1, p, s)
    BY <1>3, ChangesSame
  <2> QED BY <2>1, <2>2, <1>1, SlotSame
<1>4. CASE At(rs[m], p, s)
  <2>1. U \in SUBSET (1..(m - 1)) /\ C \in SUBSET (1..(m - 1))
    BY DEF OpenOn, CommittedOn
  <2>2. /\ After(rs, ChangesTo(rs, m - 1, p, s)) = Top(rs, U, C)
        /\ \A i \in U : rs[i].old = Top(rs, {j \in U : j < i}, C)
        /\ \A i, j \in U : rs[i].txn = rs[j].txn
        /\ \A i \in U, c \in C : c < i
    BY DEF SlotOK
  <2>3. After(rs, ChangesTo(rs, m, p, s)) = rs[m].new
    BY <1>4, ChangesMore DEF IsChange
  <2>4. /\ rs[m].old = After(rs, ChangesTo(rs, m - 1, p, s))
        /\ \A i \in U : rs[i].txn = rs[m].txn
    BY <1>4
  <2> HIDE DEF U, V, C
  <2>0. m \in Int /\ (\A x \in U : x \in Int /\ x < m) /\ \A x \in C : x \in Int /\ x < m
    BY <2>1
  <2>5. V \in SUBSET Int /\ m \in V /\ \A x \in V : x <= m
    <3>1. \A x \in V : x \in Int /\ x <= m
      BY <1>2, <2>0
    <3>2. m \in V
      BY <1>2, <1>4
    <3> QED BY <3>1, <3>2
  <2>6. Top(rs, V, C) = rs[m].new
    BY <2>5, AfterLast DEF Top
  <2>7. ASSUME NEW i \in V
        PROVE  rs[i].old = Top(rs, {j \in V : j < i}, C)
    <3>1. CASE i = m
      <4>1. {j \in V : j < m} = U
        BY <1>2, <2>1, <2>5
      <4> QED BY <4>1, <3>1, <2>2, <2>4
    <3>2. CASE i # m
      <4>1. i \in U
        BY <1>2, <3>2
      <4>2. {j \in V : j < i} = {j \in U : j < i}
        BY <1>2, <2>1, <4>1
      <4> QED BY <4>1, <4>2, <2>2
    <3> QED BY <3>1, <3>2
  <2>8. \A i, j \in V : rs[i].txn = rs[j].txn
    BY <1>2, <2>2, <2>4
  <2>9. \A i \in V, c \in C : c < i
    BY <1>2, <2>0, <2>2
  <2> QED BY <1>1, <2>3, <2>6, <2>7, <2>8, <2>9 DEF SlotOK, V
<1> QED BY <1>3, <1>4

LEMMA SlotCommit ==
  ASSUME NEW rs \in Seq(RecordSet), Chained(rs), Linked(rs), NEW m \in 1..Len(rs), NEW p, NEW s,
         SlotOK(rs, m - 1, p, s), rs[m].type = "COMMIT"
  PROVE  SlotOK(rs, m, p, s)
<1> DEFINE t == rs[m].txn
           U == OpenOn(rs, m - 1, p, s)
           V == OpenOn(rs, m, p, s)
           C == CommittedOn(rs, m - 1, p, s)
           D == CommittedOn(rs, m, p, s)
           H == ChangesTo(rs, m - 1, p, s)
<1>0. (\A i : i \in 1..m <=> i \in 1..(m - 1) \/ i = m) /\ ~Open(rs, m - 1, m) /\ ~CommittedBy(rs, m - 1, m)
  BY DEF Open, CommittedBy
<1>1. ChangesTo(rs, m, p, s) = H
  BY ChangesSame DEF IsChange
<1>2. \A i : i \in V <=> i \in U /\ rs[i].txn # t
  <2>1. \A i \in 1..m : Open(rs, m, i) <=> Open(rs, m - 1, i) /\ rs[i].txn # t
    BY OpenCommit
  <2> QED BY <2>1, <1>0 DEF OpenOn
<1>3. \A i : i \in D <=> i \in C \/ (i \in U /\ rs[i].txn = t)
  <2>1. \A i \in 1..m : rs[i].type = "UPDATE" =>
          (CommittedBy(rs, m, i) <=> CommittedBy(rs, m - 1, i) \/ (rs[i].txn = t /\ Open(rs, m - 1, i)))
    BY CommittedSame
  <2>2. \A i : Open(rs, m - 1, i) => rs[i].type = "UPDATE"
    BY DEF Open
  <2> QED BY <2>1, <2>2, <1>0 DEF OpenOn, CommittedOn
<1>4. (\A x \in U : x \in Int /\ x < m) /\ \A x \in C : x \in Int /\ x < m
  BY DEF OpenOn, CommittedOn
<1>5. /\ After(rs, H) = Top(rs, U, C)
      /\ \A i, j \in U : rs[i].txn = rs[j].txn
      /\ \A i \in U, c \in C : c < i
  BY DEF SlotOK
<1> HIDE DEF U, V, C, D, H
<1>6. CASE \A i \in U : rs[i].txn # t
  <2>1. V = U
    BY <1>2, <1>6
  <2>2. D = C
    BY <1>3, <1>6
  <2> QED BY <2>1, <2>2, <1>1, SlotSame DEF U, V, C, D, H
<1>7. CASE \E i \in U : rs[i].txn = t
  <2>1. PICK k \in U : rs[k].txn = t
    BY <1>7
  <2>2. \A i \in U : rs[i].txn = t
    BY <2>1, <1>5
  <2>3. V = {}
    BY <1>2, <2>2
  <2>4. U \in SUBSET Int /\ U # {} /\ m \in Int /\ \A x \in U : x <= m
    BY <1>4, <2>1
  <2>5. Max(U) \in U /\ \A x \in U : x <= Max(U)
    BY <2>4, MaxOf
  <2> DEFINE w == Max(U)
  <2> HIDE DEF w
  <2>6. w \in U /\ \A x \in U : x <= w
    BY <2>5 DEF w
  <2>7. \A x \in D : x \in Int /\ x <= w
    BY <1>3, <1>4, <1>5, <2>6
  <2>8. D \in SUBSET Int /\ w \in D
    BY <1>3, <2>2, <2>6, <2>7
  <2>9. After(rs, D) = rs[w].new
    BY <2>7, <2>8, AfterLast
  <2>10. After(rs, U) = rs[w].new
    BY <2>4, <2>6, AfterLast
  <2>11. After(rs, H) = Top(rs, V, D)
    BY <1>5, <2>3, <2>4, <2>9, <2>10 DEF Top
  <2> QED BY <2>3, <2>11, <1>1 DEF SlotOK, V, D
<1> QED BY <1>6, <1>7

LEMMA SlotClr ==
  ASSUME NEW rs \in Seq(RecordSet), Chained(rs), Linked(rs), NEW m \in 1..Len(rs), NEW p, NEW s,
         SlotOK(rs, m - 1, p, s), rs[m].type = "CLR"
  PROVE  SlotOK(rs, m, p, s)
<1> DEFINE U == OpenOn(rs, m - 1, p, s)
           V == OpenOn(rs, m, p, s)
           C == CommittedOn(rs, m - 1, p, s)
<1>0. (\A i : i \in 1..m <=> i \in 1..(m - 1) \/ i = m) /\ ~Open(rs, m - 1, m)
  BY DEF Open
<1>1. CommittedOn(rs, m, p, s) = C
  BY CommittedOnSame
<1>2. PICK f \in 1..(m - 1) :
        /\ Open(rs, m - 1, f) /\ rs[f].txn = rs[m].txn /\ Undoes(rs[m], rs[f])
        /\ \A i \in 1..m : Open(rs, m, i) <=> Open(rs, m - 1, i) /\ i # f
        /\ \A i \in 1..m : Open(rs, m - 1, i) /\ rs[i].txn = rs[m].txn => i <= f
  BY OpenClr
<1>3. \A i : i \in V <=> i \in U /\ i # f
  BY <1>0, <1>2 DEF OpenOn
<1>4. At(rs[f], p, s) <=> At(rs[m], p, s)
  BY <1>2 DEF Undoes, At
<1>5. f \in U <=> At(rs[m], p, s)
  BY <1>2, <1>4 DEF OpenOn
<1>6. CASE ~At(rs[m], p, s)
  <2>1. V = U
    BY <1>3, <1>5, <1>6
  <2>2. ChangesTo(rs, m, p, s) = ChangesTo(rs, m - 1, p, s)
    BY <1>6, ChangesSame
  <2> QED BY <2>1, <2>2, <1>1, SlotSame
<1>7. CASE At(rs[m], p, s)
  <2>1. \A x \in U : x \in 1..(m - 1) /\ Open(rs, m - 1, x)
    BY DEF OpenOn
  <2>2. /\ \A i \in U : rs[i].old = Top(rs, {j \in U : j < i}, C)
        /\ \A i, j \in U : rs[i].txn = rs[j].txn
        /\ \A i \in U, c \in C : c < i
    BY DEF SlotOK
  <2>3. After(rs, ChangesTo(rs, m, p, s)) = rs[m].new
    BY <1>7, ChangesMore DEF IsChange
  <2> HIDE DEF U, V, C
  <2>4. f \in U /\ f \in Int /\ \A x \in U : x \in Int /\ x <= f
    <3>1. f \in U
      BY <1>5, <1>7
    <3>2. \A x \in U : rs[x].txn = rs[m].txn
      BY <3>1, <2>2, <1>2
    <3> QED BY <3>1, <3>2, <2>1, <1>0, <1>2
  <2>5. rs[m].new = rs[f].old
    BY <1>2 DEF Undoes
  <2>6. V = {j \in U : j < f}
    <3>1. \A j \in U : j # f <=> j < f
      BY <2>4
    <3> QED BY <3>1, <1>3
  <2>7. rs[f].old = Top(rs, V, C)
    BY <2>2, <2>4, <2>6
  <2>8. ASSUME NEW i \in V
        PROVE  rs[i].old = Top(rs, {j \in V : j < i}, C)
    <3>1. i \in U /\ i \in Int /\ i < f
      BY <2>4, <2>6
    <3>2. {j \in V : j < i} = {j \in U : j < i}
      <4>1. \A j \in U : j < i => j # f
        BY <3>1, <2>4
      <4> QED BY <4>1, <1>3
    <3> QED BY <3>1, <3>2, <2>2
  <2>9. (\A i, j \in V : rs[i].txn = rs[j].txn) /\ \A i \in V, c \in C : c < i
    BY <1>3, <2>2
  <2> QED BY <1>1, <2>3, <2>5, <2>7, <2>8, <2>9 DEF SlotOK, V
<1> QED BY <1>6, <1>7

\* A record keeps every slot right if an UPDATE found what the log shows, on a
\* slot that no other transaction has open changes on.
LEMMA SlotStep ==
  ASSUME NEW rs \in Seq(RecordSet), Chained(rs), Linked(rs), NEW m \in 1..Len(rs), NEW p, NEW s,
         SlotOK(rs, m - 1, p, s),
         rs[m].type = "UPDATE" /\ At(rs[m], p, s) =>
           /\ rs[m].old = After(rs, ChangesTo(rs, m - 1, p, s))
           /\ \A i \in OpenOn(rs, m - 1, p, s) : rs[i].txn = rs[m].txn
  PROVE  SlotOK(rs, m, p, s)
BY SlotQuiet, SlotUpdate, SlotCommit, SlotClr

-----------------------------------------------------------------------------
(* The log grows, or a crash cuts it.                                      *)

LEMMA AgreeShorter ==
  ASSUME NEW rs, NEW qs, NEW m \in Nat, Agree(rs, qs, m), Len(rs) \in Nat, Len(qs) \in Nat,
         NEW n \in 0..m
  PROVE  n \in Nat /\ Agree(rs, qs, n)
BY DEF Agree

LEMMA SlotsCut ==
  ASSUME NEW rs \in Seq(RecordSet), NEW qs \in Seq(RecordSet), Agree(rs, qs, Len(qs)),
         Chained(rs), SlotsOK(rs)
  PROVE  SlotsOK(qs)
<1> SUFFICES ASSUME NEW n \in 0..Len(qs), NEW p \in Pages, NEW s \in Slots
             PROVE  SlotOK(qs, n, p, s)
  BY DEF SlotsOK
<1> DEFINE m == Len(qs)
<1>1. m \in Nat /\ Len(rs) \in Nat /\ Agree(rs, qs, m) /\ n \in 0..m /\ m <= Len(rs)
  BY DEF Agree
<1>2. n \in 0..Len(rs)
  BY <1>1
<1>3. SlotOK(rs, n, p, s)
  BY <1>2 DEF SlotsOK
<1> HIDE DEF m
<1>4. n \in Nat /\ Agree(rs, qs, n)
  BY <1>1, AgreeShorter DEF m
<1> QED BY <1>3, <1>4, SlotAgrees

\* What an UPDATE must find on its slot.
Found(rs, r) ==
  r.type = "UPDATE" =>
    /\ r.old = After(rs, ChangesTo(rs, Len(rs), r.page, r.slot))
    /\ \A i \in OpenOn(rs, Len(rs), r.page, r.slot) : rs[i].txn = r.txn

LEMMA SlotsGrown ==
  ASSUME Inv, Inv', TxnInv', SlotsOK(Records(log)), NEW r, Adds(r), Found(Records(log), r)
  PROVE  SlotsOK(Records(log'))
<1> DEFINE rs == Records(log)
           qs == Records(log')
           m == Len(qs)
           k == Len(rs)
<1>1. /\ rs \in Seq(RecordSet) /\ qs \in Seq(RecordSet) /\ r \in RecordSet
      /\ k \in Nat /\ m = k + 1 /\ m \in 1..Len(qs) /\ m - 1 = k
      /\ qs[m] = r /\ Agree(rs, qs, k) /\ (\A i \in 1..k : qs[i] = rs[i]) /\ Chained(rs)
  BY AddsFacts
<1>2. Chained(qs) /\ Linked(qs)
  BY DEF Inv, LogOK, TxnInv
<1> SUFFICES ASSUME NEW n \in 0..m, NEW p \in Pages, NEW s \in Slots
             PROVE  SlotOK(qs, n, p, s)
  BY DEF SlotsOK
<1> HIDE DEF rs, qs, m, k
<1>3. ASSUME NEW j \in 0..k
      PROVE  SlotOK(qs, j, p, s)
  <2>1. Len(rs) \in Nat /\ Len(qs) \in Nat
    BY <1>1
  <2>2. j \in Nat /\ Agree(rs, qs, j)
    BY <1>1, <2>1, AgreeShorter
  <2>3. SlotOK(rs, j, p, s)
    BY DEF SlotsOK, rs, k
  <2> QED BY <1>1, <2>2, <2>3, SlotAgrees
<1>4. CASE n \in 0..k
  BY <1>3, <1>4
<1>5. CASE n = m
  <2>1. SlotOK(qs, m - 1, p, s)
    BY <1>1, <1>3
  <2>2. ASSUME qs[m].type = "UPDATE", At(qs[m], p, s)
        PROVE  /\ qs[m].old = After(qs, ChangesTo(qs, m - 1, p, s))
               /\ \A i \in OpenOn(qs, m - 1, p, s) : qs[i].txn = qs[m].txn
    <3>1. /\ r.old = After(rs, ChangesTo(rs, k, p, s))
          /\ \A i \in OpenOn(rs, k, p, s) : rs[i].txn = r.txn
      BY <1>1, <2>2 DEF Found, At, rs, k
    <3>2. ChangesTo(qs, k, p, s) = ChangesTo(rs, k, p, s) /\ ChangesTo(rs, k, p, s) \in SUBSET (1..k)
      BY <1>1 DEF ChangesTo
    <3>3. OpenOn(qs, k, p, s) = OpenOn(rs, k, p, s) /\ OpenOn(rs, k, p, s) \in SUBSET (1..k)
      BY <1>1, OpenAgrees DEF OpenOn
    <3>4. After(qs, ChangesTo(qs, k, p, s)) = After(rs, ChangesTo(rs, k, p, s))
      BY <1>1, <3>2, AfterAgrees
    <3> QED BY <1>1, <3>1, <3>3, <3>4
  <2> QED BY <1>1, <1>2, <1>5, <2>1, <2>2, SlotStep
<1> QED BY <1>1, <1>4, <1>5

\* What is open once r is appended.
LEMMA OpenAdds ==
  ASSUME Inv, Inv', TxnInv', NEW r, Adds(r), NEW i, Open(Records(log'), Len(Records(log')), i)
  PROVE  \/ /\ Open(Records(log), Len(Records(log)), i) /\ i \in 1..Len(Records(log))
            /\ Records(log')[i] = Records(log)[i]
            /\ ~(Ended(r) /\ Records(log)[i].txn = r.txn)
         \/ Records(log')[i] = r /\ r.type = "UPDATE"
<1> DEFINE rs == Records(log)
           qs == Records(log')
           m == Len(qs)
           k == Len(rs)
<1>1. /\ rs \in Seq(RecordSet) /\ qs \in Seq(RecordSet) /\ r \in RecordSet
      /\ k \in Nat /\ m = k + 1 /\ m \in 1..Len(qs) /\ m - 1 = k /\ m \in Nat
      /\ qs[m] = r /\ Agree(rs, qs, k) /\ (\A j \in 1..k : qs[j] = rs[j]) /\ Chained(rs)
  BY AddsFacts
<1>2. Chained(qs) /\ Linked(qs)
  BY DEF Inv, LogOK, TxnInv
<1>3. Open(qs, m, i) /\ i \in 1..m
  BY DEF Open
<1> HIDE DEF rs, qs, m, k
<1>4. Open(qs, m - 1, i) \/ (i = m /\ r.type = "UPDATE")
  <2>1. CASE r.type \notin {"UPDATE", "CLR", "COMMIT"}
    BY <2>1, <1>1, <1>2, <1>3, OpenSame
  <2>2. CASE r.type = "UPDATE"
    BY <2>2, <1>1, <1>2, <1>3, OpenUpdate
  <2>3. CASE r.type = "COMMIT"
    BY <2>3, <1>1, <1>2, <1>3, OpenCommit
  <2>4. CASE r.type = "CLR"
    BY <2>4, <1>1, <1>2, <1>3, OpenClr
  <2> QED BY <2>1, <2>2, <2>3, <2>4
<1>5. CASE i = m /\ r.type = "UPDATE"
  BY <1>5, <1>1 DEF rs, qs
<1>6. CASE Open(qs, m - 1, i)
  <2>1. Open(rs, k, i) /\ i \in 1..k
    BY <1>1, <1>6, OpenAgrees DEF Open
  <2>2. qs[i] = rs[i]
    BY <1>1, <2>1
  <2>3. ASSUME Ended(r), rs[i].txn = r.txn
        PROVE  FALSE
    <3>1. LastOf(qs, m, qs[i].txn, m)
      BY <1>1, <2>2, <2>3, LastStep
    <3> QED BY <3>1, <1>1, <1>3, <2>3, OpenOwn
  <2> QED BY <2>1, <2>2, <2>3 DEF rs, qs, k
<1> QED BY <1>4, <1>5, <1>6

-----------------------------------------------------------------------------
(* AcidInv, for a step that appends a record, and for one that does not.   *)

LEMMA AcidAdds ==
  ASSUME Inv, Inv', TxnInv', AcidInv, NEW r, Adds(r), Found(Records(log), r), mode' = mode,
         Exclusive(att', locks'), mode # "up" => locks' = {},
         \A k \in locks : k \in locks' \/ (Ended(r) /\ k[1] = r.txn),
         mode = "up" /\ r.type = "UPDATE" => <<r.txn, r.page, r.slot>> \in locks'
  PROVE  AcidInv'
<1> DEFINE rs == Records(log)
           qs == Records(log')
<1>1. SlotsOK(qs)
  BY SlotsGrown DEF AcidInv
<1>2. ASSUME mode = "up", NEW i \in 1..Len(qs), Open(qs, Len(qs), i)
      PROVE  <<qs[i].txn, qs[i].page, qs[i].slot>> \in locks'
  <2>1. CASE qs[i] = r /\ r.type = "UPDATE"
    BY <2>1, <1>2
  <2>2. CASE /\ Open(rs, Len(rs), i) /\ i \in 1..Len(rs)
             /\ qs[i] = rs[i]
             /\ ~(Ended(r) /\ rs[i].txn = r.txn)
    <3> DEFINE k == <<rs[i].txn, rs[i].page, rs[i].slot>>
    <3>1. k \in locks /\ k[1] = rs[i].txn
      BY <1>2, <2>2 DEF AcidInv, Covered
    <3> HIDE DEF k
    <3>2. k \in locks'
      BY <3>1, <2>2
    <3> QED BY <3>2, <2>2 DEF k
  <2> QED BY <2>1, <2>2, <1>2, OpenAdds
<1>3. mode' = "up" => Covered(qs, locks')
  BY <1>2 DEF Covered
<1> QED BY <1>1, <1>3 DEF AcidInv

LEMMA AcidQuiet ==
  ASSUME AcidInv, Records(log') = Records(log), UNCHANGED <<att, locks>>, mode' = "up" <=> mode = "up"
  PROVE  AcidInv'
BY DEF AcidInv, Exclusive

\* A record that is no UPDATE finds nothing.
LEMMA FoundNothing ==
  ASSUME NEW rs, NEW r, r.type # "UPDATE"
  PROVE  Found(rs, r)
BY DEF Found

-----------------------------------------------------------------------------
(* Every step keeps AcidInv.                                               *)

LEMMA BeginAcid ==
  ASSUME Inv, Inv', TxnInv', AcidInv, ~Concurrent, begin
  PROVE  AcidInv'
<1> DEFINE r == ControlRecord("BEGIN", next_txn_id, NoLsn)
<1>1. /\ mode = "up" /\ next_txn_id \notin DOMAIN att
      /\ Adds(r)
      /\ Sets(next_txn_id, NextLsn(log), "GROWING", NoLsn, NoOp)
      /\ UNCHANGED <<locks, mode>>
  BY BeginEffect
<1>2. r.type = "BEGIN"
  BY DEF ControlRecord
<1>3. Exclusive(att', locks')
  BY <1>1 DEF AcidInv, Exclusive, Sets
<1> HIDE DEF r
<1> QED BY <1>1, <1>2, <1>3, FoundNothing, AcidAdds

\* A transaction's own steps, which leave it in att_ with nothing pending.
LEMMA OwnStep ==
  ASSUME Inv, Inv', TxnInv', AcidInv, mode = "up", NEW t \in DOMAIN att, NEW prev, NEW state, NEW undo,
         Sets(t, prev, state, undo, NoOp), UNCHANGED <<locks, mode>>,
         NEW r, Adds(r), Found(Records(log), r),
         r.type = "UPDATE" => <<r.txn, r.page, r.slot>> \in locks
  PROVE  AcidInv'
<1>1. Exclusive(att', locks')
  BY DEF AcidInv, Exclusive, Sets
<1> QED BY <1>1, AcidAdds

LEMMA CommitAcid ==
  ASSUME Inv, Inv', TxnInv', AcidInv, ~Concurrent, NEW t \in DOMAIN att, commit(t) \/ abort(t)
  PROVE  AcidInv'
<1>1. PICK type \in {"COMMIT", "ABORT"} :
        \E state, undo :
          /\ mode = "up"
          /\ Adds(ControlRecord(type, t, att[t].prev))
          /\ Sets(t, NextLsn(log), state, undo, NoOp)
          /\ UNCHANGED <<locks, mode>>
  BY CommitEffect, AbortEffect
<1> DEFINE r == ControlRecord(type, t, att[t].prev)
<1>2. r.type # "UPDATE"
  BY DEF ControlRecord
<1>3. Adds(r)
  BY <1>1
<1> HIDE DEF r
<1> QED BY <1>1, <1>2, <1>3, FoundNothing, OwnStep

LEMMA AbortStepAcid ==
  ASSUME Inv, Inv', TxnInv, TxnInv', AcidInv, NEW t \in DOMAIN att, abort_step(t)
  PROVE  AcidInv'
<1> DEFINE u == Records(log)[Frontier(Records(log), att[t].prev + 1)]
           r == Compensation(u, att[t].prev)
<1>1. /\ mode = "up"
      /\ Adds(r)
      /\ Sets(t, NextLsn(log), "ABORTED", u.prev, NoOp)
      /\ UNCHANGED <<locks, mode>>
  BY AbortStepEffect
<1>2. r.type # "UPDATE"
  BY DEF Compensation, ClrRecord
<1> HIDE DEF u, r
<1> QED BY <1>1, <1>2, FoundNothing, OwnStep

LEMMA TxnEndAcid ==
  ASSUME Inv, Inv', TxnInv', AcidInv, NEW t \in DOMAIN att, commit_force(t) \/ abort_end(t)
  PROVE  AcidInv'
<1> DEFINE r == ControlRecord("TXN_END", t, att[t].prev)
<1>1. /\ mode = "up"
      /\ Adds(r)
      /\ Drops(t)
      /\ locks' = {k \in locks : k[1] # t}
      /\ mode' = mode
  BY CommitForceEffect, AbortEndEffect
<1>2. r.type = "TXN_END" /\ r.txn = t /\ Ended(r)
  BY DEF ControlRecord, Ended
<1>3. Exclusive(att', locks')
  <2>1. \A x \in locks' : x \in locks /\ x[1] # t
    BY <1>1
  <2>2. \A x \in locks' : x[1] \in DOMAIN att'
    BY <2>1, <1>1 DEF AcidInv, Exclusive, Drops
  <2>3. \A x, y \in locks' : x[2] = y[2] /\ x[3] = y[3] => x[1] = y[1]
    BY <2>1 DEF AcidInv, Exclusive
  <2>4. ASSUME NEW u \in DOMAIN att', att'[u].op # NoOp
        PROVE  <<u, att'[u].op.page, att'[u].op.slot>> \in locks'
    <3>1. u \in DOMAIN att /\ u # t /\ att'[u] = att[u]
      BY <1>1 DEF Drops
    <3> DEFINE k == <<u, att[u].op.page, att[u].op.slot>>
    <3>2. k \in locks /\ k[1] = u
      BY <3>1, <2>4 DEF AcidInv, Exclusive
    <3> HIDE DEF k
    <3>3. k \in locks'
      BY <3>1, <3>2, <1>1
    <3> QED BY <3>1, <3>3 DEF k
  <2> QED BY <2>2, <2>3, <2>4 DEF Exclusive
<1> HIDE DEF r
<1>4. \A k \in locks : k \in locks' \/ (Ended(r) /\ k[1] = r.txn)
  BY <1>1, <1>2
<1> QED BY <1>1, <1>2, <1>3, <1>4, FoundNothing, AcidAdds

\* A client takes a slot that nobody else holds.
LEMMA ModifyAcid ==
  ASSUME Inv, AcidInv, ~Concurrent, NEW t \in DOMAIN att, NEW p \in Pages, NEW s \in Slots,
         NEW new \in Content, Modify(t, p, s, new)
  PROVE  AcidInv'
<1> DEFINE op == [page |-> p, slot |-> s, old |-> mem[p].slots[s], new |-> new]
           k == <<t, p, s>>
<1>1. /\ mode = "up" /\ log' = log /\ mode' = mode
      /\ Sets(t, att[t].prev, "GROWING", att[t].undo, op)
  BY ModifyEffect
<1>2. locks' = locks \cup {k} /\ \A u \in DOMAIN att \ {t} : <<u, p, s>> \notin locks
  BY DEF Modify
<1>3. k[1] = t /\ k[2] = p /\ k[3] = s /\ op.page = p /\ op.slot = s
  OBVIOUS
<1>4. \A x \in locks : x[1] \in DOMAIN att /\ x = <<x[1], x[2], x[3]>>
  BY DEF AcidInv, Exclusive, Inv, StateOK
<1>5. \A x \in locks : x[2] = p /\ x[3] = s => x[1] = t
  BY <1>2, <1>4
<1>6. \A x, y \in locks : x[2] = y[2] /\ x[3] = y[3] => x[1] = y[1]
  BY DEF AcidInv, Exclusive
<1> HIDE DEF k
<1>7. \A x, y \in locks' : x[2] = y[2] /\ x[3] = y[3] => x[1] = y[1]
  BY <1>2, <1>3, <1>5, <1>6
<1>8. \A x \in locks' : x[1] \in DOMAIN att'
  BY <1>1, <1>2, <1>3, <1>4 DEF Sets
<1>9. ASSUME NEW u \in DOMAIN att', att'[u].op # NoOp
      PROVE  <<u, att'[u].op.page, att'[u].op.slot>> \in locks'
  <2>1. CASE u = t
    <3>1. att'[u].op = op
      BY <2>1, <1>1 DEF Sets
    <3>2. <<u, att'[u].op.page, att'[u].op.slot>> = k
      BY <3>1, <1>3, <2>1 DEF k
    <3> QED BY <3>2, <1>2
  <2>2. CASE u # t
    BY <2>2, <1>1, <1>2, <1>9 DEF Sets, AcidInv, Exclusive
  <2> QED BY <2>1, <2>2
<1>10. Exclusive(att', locks')
  BY <1>7, <1>8, <1>9 DEF Exclusive
<1>11. Covered(Records(log), locks')
  BY <1>1, <1>2 DEF AcidInv, Covered
<1> QED BY <1>1, <1>10, <1>11 DEF AcidInv

\* A page that lacks no change shows the last one of every slot.
LEMMA LatestReplayed ==
  ASSUME Inv, Latest(Records(log), mem), NEW p \in Pages, NEW s
  PROVE  Replayed(Records(log), p, s, mem[p].lsn)
           = After(Records(log), ChangesTo(Records(log), Len(Records(log)), p, s))
<1> DEFINE rs == Records(log)
           n == mem[p].lsn
           A == UpTo(rs, p, s, n)
           B == ChangesTo(rs, Len(rs), p, s)
<1>1. rs \in Seq(RecordSet) /\ n \in Nat
  BY Basics, PageFacts
<1>2. Latest(rs, mem)
  OBVIOUS
<1>3. \A i : i \in B <=> i \in 1..Len(rs) /\ IsChange(rs[i]) /\ rs[i].page = p /\ rs[i].slot = s
  BY DEF ChangesTo, At
<1> HIDE DEF rs
<1>4. \A i \in B : i <= n + 1
  BY <1>1, <1>2, <1>3 DEF Latest
<1> HIDE DEF n
<1>5. /\ \A i : i \in A <=>
           i \in 1..Len(rs) /\ IsChange(rs[i]) /\ rs[i].page = p /\ rs[i].slot = s /\ i <= n + 1
      /\ Replayed(rs, p, s, n) = After(rs, A)
  BY <1>1, UpToFacts
<1> HIDE DEF A, B
<1>6. A = B
  BY <1>3, <1>4, <1>5
<1> QED BY <1>5, <1>6 DEF rs, n, B

LEMMA LogUpdateAcid ==
  ASSUME Inv, Inv', TxnInv', PageInv, AcidInv, NEW t \in DOMAIN att, log_update(t)
  PROVE  AcidInv'
<1> DEFINE rs == Records(log)
           op == att[t].op
           r == UpdateRecord(t, att[t].prev, op)
<1>1. /\ mode = "up" /\ op # NoOp /\ op \in Change
      /\ Adds(r)
      /\ Sets(t, NextLsn(log), "GROWING", att[t].undo, NoOp)
      /\ UNCHANGED <<locks, mode>>
  BY LogUpdateEffect
<1>2. r.type = "UPDATE" /\ r.txn = t /\ r.page = op.page /\ r.slot = op.slot /\ r.old = op.old
  BY DEF UpdateRecord
<1>3. op.page \in Pages
  BY <1>1 DEF Change
<1>4. op.old = Replayed(rs, op.page, op.slot, mem[op.page].lsn) /\ Latest(rs, mem)
  BY <1>1 DEF PageInv, MemShows
<1>5. op.old = After(rs, ChangesTo(rs, Len(rs), op.page, op.slot))
  BY <1>3, <1>4, LatestReplayed
<1>6. <<t, op.page, op.slot>> \in locks
  BY <1>1 DEF AcidInv, Exclusive
<1>7. ASSUME NEW i \in OpenOn(rs, Len(rs), op.page, op.slot)
      PROVE  rs[i].txn = t
  <2>1. i \in 1..Len(rs) /\ Open(rs, Len(rs), i) /\ rs[i].page = op.page /\ rs[i].slot = op.slot
    BY DEF OpenOn, At
  <2> DEFINE x == <<rs[i].txn, op.page, op.slot>>
             y == <<t, op.page, op.slot>>
  <2>2. x \in locks /\ y \in locks
    BY <2>1, <1>1, <1>6 DEF AcidInv, Covered
  <2>3. x[1] = rs[i].txn /\ y[1] = t /\ x[2] = y[2] /\ x[3] = y[3]
    OBVIOUS
  <2> HIDE DEF x, y
  <2> QED BY <2>2, <2>3 DEF AcidInv, Exclusive
<1>8. Found(rs, r)
  BY <1>2, <1>5, <1>7 DEF Found
<1>9. <<r.txn, r.page, r.slot>> \in locks
  BY <1>2, <1>6
<1> HIDE DEF r
<1> QED BY <1>1, <1>8, <1>9, OwnStep

LEMMA CheckpointAcid ==
  ASSUME Inv, Inv', TxnInv', AcidInv, checkpoint \/ checkpoint_end
  PROVE  AcidInv'
<1>1. PICK r \in RecordSet : /\ Adds(r) /\ r.type # "UPDATE" /\ mode = "up"
                             /\ UNCHANGED <<att, locks, mode>>
  <2>1. CASE checkpoint
    <3> DEFINE r == ControlRecord("CHECKPOINT_BEGIN", NoTxn, NoLsn)
    <3>1. mode = "up" /\ log' = Appended(log, r) /\ UNCHANGED <<att, locks, mode>>
      BY <2>1 DEF checkpoint, CanCall, txnVars, runVars
    <3>2. r \in RecordSet
      BY EmptyTables, CheckpointsAreRecords
    <3>3. Adds(r)
      BY <3>1, <3>2, Basics, AddsRecord
    <3>4. r.type # "UPDATE"
      BY DEF ControlRecord
    <3> QED BY <3>1, <3>2, <3>3, <3>4
  <2>2. CASE checkpoint_end
    <3> DEFINE r == CheckpointEnd(ckpt.att, ckpt.dpt)
    <3>1. /\ mode = "up" /\ Adds(r) /\ r.type = "CHECKPOINT_END"
          /\ UNCHANGED <<att, locks, mode>>
      BY <2>2, CheckpointEndEffect
    <3>2. r \in RecordSet
      BY <3>1 DEF Adds
    <3> QED BY <3>1, <3>2
  <2> QED BY <2>1, <2>2
<1>2. Exclusive(att', locks')
  BY <1>1 DEF AcidInv, Exclusive
<1> QED BY <1>1, <1>2, FoundNothing, AcidAdds

LEMMA CrashAcid ==
  ASSUME Inv, AcidInv, NEW k \in 0..Len(log.pending), Crash(k)
  PROVE  AcidInv'
<1>1. /\ Agree(Records(log), Records(log'), Len(Records(log')))
      /\ Records(log') \in Seq(RecordSet)
      /\ mode' = "down" /\ DOMAIN att' = {}
  BY CrashEffect
<1>2. locks' = {}
  BY DEF Crash
<1>3. Records(log) \in Seq(RecordSet) /\ Chained(Records(log)) /\ SlotsOK(Records(log))
  BY Basics DEF AcidInv
<1>4. SlotsOK(Records(log'))
  BY <1>1, <1>3, SlotsCut
<1> QED BY <1>1, <1>2, <1>4 DEF AcidInv, Exclusive

\* Compensations and TXN_ENDs that recovery writes.
LEMMA UndoAcid ==
  ASSUME Inv, Inv', TxnInv, TxnInv', AcidInv, undo_update \/ undo_txn_end
  PROVE  AcidInv'
<1> DEFINE u == RecordAt(log, UndoLsn)
<1>1. PICK r : /\ Adds(r) /\ r.type # "UPDATE" /\ mode = "undo"
               /\ UNCHANGED <<att, locks, mode>>
  <2>1. CASE undo_update
    <3> DEFINE r == Compensation(u, rec.att[u.txn])
    <3>1. /\ mode = "undo" /\ Adds(r) /\ UNCHANGED <<att, locks, mode>>
      BY <2>1, UndoUpdateEffect
    <3>2. r.type = "CLR"
      BY DEF Compensation, ClrRecord
    <3> QED BY <3>1, <3>2
  <2>2. CASE undo_txn_end
    <3> DEFINE r == ControlRecord("TXN_END", u.txn, rec.att[u.txn])
    <3>1. /\ mode = "undo" /\ Adds(r) /\ UNCHANGED <<att, locks, mode>>
      BY <2>2, UndoTxnEndEffect
    <3>2. r.type = "TXN_END"
      BY DEF ControlRecord
    <3> QED BY <3>1, <3>2
  <2> QED BY <2>1, <2>2
<1>2. Exclusive(att', locks') /\ locks' = {}
  BY <1>1 DEF AcidInv, Exclusive
<1> QED BY <1>1, <1>2, FoundNothing, AcidAdds

\* Recovery ends when every loser has: nothing is open.
LEMMA RecoverEndAcid ==
  ASSUME Inv, TxnInv, AcidInv, recover_end
  PROVE  AcidInv'
<1> DEFINE rs == Records(log)
<1>1. /\ mode = "undo" /\ rec.to_undo = {} /\ log' = Synced(log) /\ mode' = "up"
      /\ UNCHANGED <<att, locks>>
  BY DEF recover_end, txnVars
<1>2. Records(log') = rs
  BY <1>1, QuietLog
<1>3. Exact(rs, Len(rs), rec.att) /\ DOMAIN rec.att = {}
  BY <1>1 DEF TxnInv, UndoExact
<1>4. rs \in Seq(RecordSet)
  BY Basics
<1>5. ASSUME NEW i, Open(rs, Len(rs), i)
      PROVE  FALSE
  <2>1. i \in 1..Len(rs) /\ rs[i].type = "UPDATE"
    BY <1>5 DEF Open
  <2>2. PICK l \in 1..Len(rs) : LastOf(rs, Len(rs), rs[i].txn, l) /\ ~Ended(rs[l])
    BY <1>5 DEF Open
  <2>3. rs[i].txn \in Nat /\ rs[l].txn = rs[i].txn
    BY <2>1, <2>2, <1>4, RecordFacts DEF LastOf
  <2>4. rs[l].txn # NoTxn
    BY <2>3, EngineAssumption
  <2> QED BY <2>2, <2>3, <2>4, <1>3 DEF Exact, Tracks
<1>6. Covered(rs, locks)
  BY <1>5 DEF Covered
<1> QED BY <1>1, <1>2, <1>6 DEF AcidInv, Exclusive

LEMMA QuietAcid ==
  ASSUME Inv, AcidInv,
         \/ FlushLog \/ \E p \in Pages : WritePage(p) \/ WriteBack(p)
         \/ get_att_snapshot \/ get_dirty_pages \/ checkpoint_flush \/ checkpoint_force
         \/ analyze \/ redo \/ redo_skip \/ redo_end \/ undo_skip
         \/ UNCHANGED vars
  PROVE  AcidInv'
<1>1. /\ \/ log' = log
         \/ log' = Synced(log)
         \/ log' = ForcedForPages(log)
         \/ log' = FlushedTo(log, ckpt.lsn)
         \/ \E p \in Pages : log' = FlushedTo(log, mem[p].lsn)
      /\ UNCHANGED <<att, locks>>
      /\ mode' = "up" <=> mode = "up"
  BY DEF FlushLog, WritePage, WriteBack, get_att_snapshot, get_dirty_pages, checkpoint_flush,
         checkpoint_force, analyze, redo, redo_skip, redo_end, undo_skip, vars, logVars, txnVars, runVars
<1>2. ckpt.lsn \in Int /\ \A p \in Pages : mem[p].lsn \in Int
  <2>1. ckpt.lsn \in Int
    BY Basics DEF CkptOK, Lsn, NoLsn
  <2> QED BY <2>1, PageFacts
<1>3. Records(log') = Records(log)
  BY <1>1, <1>2, QuietLog
<1> QED BY <1>1, <1>3, AcidQuiet

-----------------------------------------------------------------------------
(* The theorems.                                                           *)

LEMMA InitAcid ==
  ASSUME Init
  PROVE  AcidInv
<1>1. log = EmptyLog /\ att = <<>> /\ locks = {} /\ mode = "up"
  BY DEF Init
<1>2. Records(log) = <<>> /\ Len(Records(log)) = 0
  BY <1>1 DEF EmptyLog, Records
<1>3. \A n \in 0..0 : n = 0
  OBVIOUS
<1>4. \A rs, p, s : ChangesTo(rs, 0, p, s) = {} /\ OpenOn(rs, 0, p, s) = {} /\ CommittedOn(rs, 0, p, s) = {}
  BY DEF ChangesTo, OpenOn, CommittedOn
<1>5. \A rs, p, s : SlotOK(rs, 0, p, s)
  BY <1>4 DEF SlotOK, Top
<1>6. SlotsOK(Records(log))
  BY <1>2, <1>3, <1>5 DEF SlotsOK
<1>7. Exclusive(att, locks)
  BY <1>1, EmptyMap DEF Exclusive
<1>8. Covered(Records(log), locks)
  BY <1>2 DEF Covered
<1> QED BY <1>1, <1>6, <1>7, <1>8 DEF AcidInv

LEMMA NextAcid ==
  ASSUME Inv, Inv', TxnInv, TxnInv', PageInv, AcidInv, ~Concurrent, ~FetchFails, [Next]_vars
  PROVE  AcidInv'
<1>1. CASE begin
  BY <1>1, BeginAcid
<1>2. ASSUME NEW t \in DOMAIN att,
             \/ \E p \in Pages, v \in Value : Insert(t, p, v)
             \/ \E p \in Pages, s \in Slots, v \in Value : Update(t, p, s, v)
             \/ \E p \in Pages, s \in Slots : Delete(t, p, s)
      PROVE  AcidInv'
  <2>1. \E p \in Pages, s \in Slots, v \in Content : Modify(t, p, s, v)
    BY <1>2, ClientChange
  <2> QED BY <2>1, ModifyAcid
<1>3. ASSUME NEW t \in DOMAIN att,
             \/ log_update(t) \/ commit(t) \/ commit_force(t)
             \/ abort(t) \/ abort_step(t) \/ abort_skip(t) \/ abort_end(t)
      PROVE  AcidInv'
  BY <1>3, LogUpdateAcid, CommitAcid, TxnEndAcid, AbortStepAcid DEF abort_skip
<1>4. CASE Checkpoints
  BY <1>4, CheckpointAcid, QuietAcid DEF Checkpoints
<1>5. CASE FlushLog \/ \E p \in Pages : WritePage(p) \/ WriteBack(p)
  BY <1>5, QuietAcid
<1>6. ASSUME NEW k \in 0..Len(log.pending), Crash(k)
      PROVE  AcidInv'
  BY <1>6, CrashAcid
<1>7. CASE Recovery
  BY <1>7, QuietAcid, UndoAcid, RecoverEndAcid DEF Recovery
<1>8. CASE UNCHANGED vars
  BY <1>8, QuietAcid
<1>9. CASE Transactions
  BY <1>1, <1>2, <1>3, <1>9 DEF Transactions
<1> QED BY <1>4, <1>5, <1>6, <1>7, <1>8, <1>9 DEF Next

\* The whole inductive invariant of the engine.
THEOREM AcidInvHolds ==
  ASSUME Sheltered
  PROVE  Spec => [](Inv /\ TxnInv /\ PageInv /\ AcidInv)
<1>0. ~Concurrent /\ ~FetchFails
  BY DEF Sheltered
<1>1. Init => Inv /\ TxnInv /\ PageInv /\ AcidInv
  BY InitInv, InitTxn, InitPage, InitAcid
<1>2. Inv /\ TxnInv /\ PageInv /\ AcidInv /\ [Next]_vars => (Inv /\ TxnInv /\ PageInv /\ AcidInv)'
  BY <1>0, NextInv, NextTxn, NextPage, NextAcid
<1> QED BY <1>1, <1>2, PTL DEF Spec

\* In a running engine a record that no running transaction has modified holds
\* what the last committed transaction wrote: commit is durable and abort and
\* recover take back the rest, whatever evictions, checkpoints, crashes and
\* interrupted recoveries came in between.  A page may be written before the
\* record of its change is, as long as no crash keeps the one without the other.
THEOREM CommittedIsVisible ==
  ASSUME Sheltered
  PROVE  Spec => []CommittedVisible
<1>1. Inv /\ TxnInv /\ PageInv /\ AcidInv => CommittedVisible
  <2> SUFFICES ASSUME Inv, PageInv, AcidInv, mode = "up", NEW p \in Pages, NEW s \in Slots,
                      \A t \in DOMAIN att : <<t, p, s>> \notin locks
               PROVE  mem[p].slots[s] = CommittedValue(Records(log), p, s)
    BY DEF CommittedVisible
  <2> DEFINE rs == Records(log)
             n == Len(rs)
             U == OpenOn(rs, n, p, s)
             C == CommittedOn(rs, n, p, s)
             D == {i \in Changes(rs, p, s) : rs[i].type = "UPDATE" /\ Committed(rs, i)}
  <2>1. rs \in Seq(RecordSet) /\ n \in 0..n
    BY Basics
  <2>2. \A t \in DOMAIN att : ~Pending(att[t], p, s)
    BY DEF AcidInv, Exclusive, Pending
  <2>3. mem[p].slots[s] = After(rs, ChangesTo(rs, n, p, s))
    <3>1. mem[p].slots[s] = Replayed(rs, p, s, mem[p].lsn) /\ Latest(rs, mem)
      BY <2>2 DEF PageInv, MemShows
    <3> QED BY <3>1, LatestReplayed
  <2>4. After(rs, ChangesTo(rs, n, p, s)) = Top(rs, U, C)
    BY <2>1 DEF AcidInv, SlotsOK, SlotOK
  <2>5. U = {}
    <3> SUFFICES ASSUME NEW i \in U
                 PROVE  FALSE
      OBVIOUS
    <3>1. i \in 1..n /\ Open(rs, n, i) /\ rs[i].page = p /\ rs[i].slot = s
      BY DEF OpenOn, At
    <3> DEFINE x == <<rs[i].txn, p, s>>
    <3>2. x \in locks /\ x[1] = rs[i].txn
      BY <3>1 DEF AcidInv, Covered
    <3>3. rs[i].txn \in DOMAIN att
      <4> HIDE DEF x
      <4> QED BY <3>2 DEF AcidInv, Exclusive
    <3> QED BY <3>2, <3>3
  <2>6. \A i \in 1..n : Committed(rs, i) <=> CommittedBy(rs, n, i)
    BY DEF Committed, CommittedBy, Restarted
  <2>7. C = D
    BY <2>6 DEF CommittedOn, Changes, IsChange, At
  <2>8. CommittedValue(rs, p, s) = After(rs, D)
    BY DEF CommittedValue
  <2> HIDE DEF rs, n, U, C, D
  <2> QED BY <2>3, <2>4, <2>5, <2>7, <2>8 DEF Top, rs
<1> QED BY <1>1, AcidInvHolds, PTL
=============================================================================
