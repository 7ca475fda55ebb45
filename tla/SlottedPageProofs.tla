------------------------- MODULE SlottedPageProofs -------------------------
(***************************************************************************)
(* Theorems about SlottedPage for every page size, every set of payloads   *)
(* and every length of the log.                                            *)
(*                                                                         *)
(* What redo will make of the image, record by record, is fixed when the   *)
(* records are appended: the invariant carries the pages that redo will    *)
(* pass through, and says of each what it says of the page in the pool.    *)
(* It holds until undo runs out of room, and a second one describes the    *)
(* state that this leads to, in which behaviours end.  No page is written  *)
(* ahead of its record (~EvictAhead): SlottedPageAhead.cfg shows what redo *)
(* does otherwise.                                                         *)
(***************************************************************************)
EXTENDS SlottedPage, TLAPS, FiniteSetTheorems, WellFoundedInduction

-----------------------------------------------------------------------------
(* The invariant: one page.                                                *)

Tombs(p) == {s \in Allocated(p) : IsTombstone(p, s)}

End(p, s) == p.slots[s].offset + PREFIX_BYTES + p.slots[s].length

\* The records of the page lie apart, between the header and the free space,
\* and the free space ends where the directory starts.
Layout(p) ==
    /\ p \in PageType
    /\ p.free_space_ptr <= SlotDirStart(p)
    /\ p.free_space_ptr >= PAGE_HEADER_SIZE \/ (p.free_space_ptr = 0 /\ p.slot_count = 0)
    /\ p.tombstone_count = Cardinality(Tombs(p))
    /\ \A s \in Live(p) :
          /\ p.slots[s].offset >= PAGE_HEADER_SIZE
          /\ p.slots[s].length >= 1
          /\ End(p, s) <= p.free_space_ptr
          /\ p.mem[p.slots[s].offset] = p.slots[s].length
    /\ \A s, t \in Live(p) :
          s # t => End(p, s) <= p.slots[t].offset \/ End(p, t) <= p.slots[s].offset

Content(p, s) ==
    IF s \in Live(p)
    THEN [i \in 1 .. p.slots[s].length |-> p.mem[p.slots[s].offset + PREFIX_BYTES + i - 1]]
    ELSE <<>>

Touched(l, s, n) == \E i \in 1 .. n : IsData(l[i]) /\ l[i].slot = s

\* The page holds what the first n records of the log say.
PageOK(p, l, n) ==
    /\ Layout(p)
    /\ \A s \in SlotIds : Content(p, s) = Logged(l, s, n)
    /\ \A s \in SlotIds : s \in Allocated(p) <=> Touched(l, s, n)
    /\ p.page_lsn <= n
    /\ \A i \in p.page_lsn + 1 .. n : ~IsData(l[i])
    /\ p.slot_count = 0 => p.free_space_ptr <= PAGE_HEADER_SIZE

-----------------------------------------------------------------------------
(* The invariant: the log.  What it says of a record depends only on the   *)
(* records up to it.                                                       *)

Contents == Seq(Nat \ {0})

RecordSet ==
    [type : {"UPDATE", "CLR", "COMMIT", "TXN_END"}, slot : Nat,
     old : Contents, new : Contents, next : Nat]

\* The record that undo takes next when the log ends with the n-th.
Frontier(l, n) == IF l[n].type = "UPDATE" THEN n ELSE l[n].next

UpdateOK(l, i) ==
    /\ l[i].slot \in SlotIds
    /\ l[i].old # <<>> \/ l[i].new # <<>>
    /\ l[i].old = Logged(l, l[i].slot, i - 1)
    /\ i > 1 => l[i - 1].type # "CLR"
    /\ l[i].next = IF i > 1 /\ IsData(l[i - 1]) THEN i - 1 ELSE 0

ClrOK(l, i) ==
    /\ i > 1
    /\ Frontier(l, i - 1) \in 1 .. i - 1
    /\ l[Frontier(l, i - 1)].type = "UPDATE"
    /\ l[i] = Clr(l[Frontier(l, i - 1)].slot, l[Frontier(l, i - 1)].old,
                  l[Frontier(l, i - 1)].next)

RecordOK(l, i) ==
    /\ i <= MaxLsn
    /\ l[i].type = "UPDATE" => UpdateOK(l, i)
    /\ l[i].type = "CLR" => ClrOK(l, i)
    /\ ~IsData(l[i]) => l[i].next = 0
    /\ IsData(l[i]) => i + ChainLength(l, Frontier(l, i)) + 1 <= MaxLsn
    /\ Frontier(l, i) # 0 =>
          \A s \in SlotIds : Logged(l, s, i) = Logged(l, s, Frontier(l, i))

LogOK(l) ==
    /\ l \in Seq(RecordSet)
    /\ \A i \in 1 .. Len(l) : RecordOK(l, i)

-----------------------------------------------------------------------------
(* The invariant: redo and the state.                                      *)

\* The page after the redo of one more record.
Redone(p, l, n) == IF IsData(l[n]) THEN SetPageLsn(RedoRecord(p, l[n]), n) ELSE p

\* R[n] is the page that redo makes of the image and the first n records.
ReplayOK(R, img, l) ==
    /\ DOMAIN R = img.page_lsn .. Len(l)
    /\ img.page_lsn \in 0 .. Len(l)
    /\ R[img.page_lsn] = img
    /\ \A n \in img.page_lsn + 1 .. Len(l) : R[n] = Redone(R[n - 1], l, n)
    /\ \A n \in img.page_lsn .. Len(l) :
          /\ PageOK(R[n], l, n)
          /\ R[n].page_lsn >= img.page_lsn
          /\ \A m \in R[n].page_lsn .. n : R[m] = R[n]

\* The page in the pool: one that redo passes through, or one that holds all
\* of the log and has grown at least as much as redo would make it grow.
PoolOK(R, img, l) ==
    IF phase = "redo"
    THEN /\ cursor \in 1 .. Len(l) + 1
         /\ page = R[IF cursor > img.page_lsn THEN cursor - 1 ELSE img.page_lsn]
    ELSE /\ PageOK(page, l, Len(l))
         /\ \A n \in page.page_lsn .. Len(l) : PageOK(page, l, n)
         /\ page.free_space_ptr >= PAGE_HEADER_SIZE
         /\ R[Len(l)].free_space_ptr <= page.free_space_ptr

AtEnd(l) == l # <<>> /\ IsData(l[Len(l)])

ControlOK ==
    /\ phase \in {"run", "undo", "redo"}
    /\ phase = "run" =>
          /\ last = IF AtEnd(log) THEN Len(log) ELSE 0
          /\ cursor = 0
          /\ AtEnd(log) => log[Len(log)].type = "UPDATE"
    /\ phase = "undo" =>
          /\ AtEnd(log)
          /\ last \in 0 .. Len(log)
          /\ cursor \in {Len(log), Frontier(log, Len(log))}
    /\ phase = "redo" => last = 0

IInv ==
    /\ LogOK(log)
    /\ ControlOK
    /\ \E R : ReplayOK(R, image, log) /\ PoolOK(R, image, log)

\* Undo wrote beyond the free space: the log and the image are as they were,
\* and the last record is the compensation record of that undo.
Overran ==
    /\ ~NoOverrun
    /\ phase = "undo"
    /\ LogOK(log)
    /\ ControlOK
    /\ log[Len(log)].type = "CLR" /\ log[Len(log)].new # <<>>
    /\ page.page_lsn = Len(log)
    /\ \E n \in 0 .. Len(log) : PageOK(image, log, n)

Inv == IInv \/ Overran

-----------------------------------------------------------------------------
(* Numbers.                                                                *)

\* A set of numbers has a least one: this stands in for induction.
LEMMA LeastNat ==
  ASSUME NEW T \in SUBSET Nat, T # {}
  PROVE  \E x \in T : \A y \in T : x <= y
<1>1. IsWellFoundedOn({ss \in Nat \X Nat : ss[1] < ss[2]}, Nat)
  BY NatLessThanWellFounded DEF OpToRel
<1>2. PICK x \in T : \A y \in T : ~(<<y, x>> \in {ss \in Nat \X Nat : ss[1] < ss[2]})
  BY WFMin, <1>1
<1>3. \A y \in T : ~(y < x)
  BY <1>2
<1> QED BY <1>3

\* The sizes of the page, one by one.
LEMMA Sizes ==
  /\ PAGE_SIZE \in Nat /\ PAGE_HEADER_SIZE \in Nat /\ SLOT_BYTES \in Nat
  /\ PREFIX_BYTES \in Nat /\ MaxLsn \in Nat
  /\ 1 <= PAGE_HEADER_SIZE /\ 1 <= SLOT_BYTES /\ 1 <= PREFIX_BYTES /\ 1 <= MaxLsn
  /\ PAGE_HEADER_SIZE < PAGE_SIZE /\ PAGE_SIZE < 65536
BY SizesAssumption

\* A counter below 2^16 does not wrap.
LEMMA U16Small ==
  ASSUME NEW n \in Nat, n < 65536
  PROVE  U16(n) = n
BY DEF U16

\* The slots that fit between the header and the end of the page.
LEMMA MaxSlots ==
  /\ MAX_SLOTS_PER_PAGE \in Nat
  /\ MAX_SLOTS_PER_PAGE < 65536
  /\ \A c \in Nat : c * SLOT_BYTES <= PAGE_SIZE - PAGE_HEADER_SIZE => c <= MAX_SLOTS_PER_PAGE
<1> DEFINE n == PAGE_SIZE - PAGE_HEADER_SIZE
           q == n \div SLOT_BYTES
<1>1. n \in Nat /\ n < 65536 /\ SLOT_BYTES \in Nat /\ SLOT_BYTES >= 1
  BY Sizes
<1> HIDE DEF n
<1>2. q \in Nat /\ q * SLOT_BYTES <= n /\ n < (q + 1) * SLOT_BYTES
  BY <1>1
<1> HIDE DEF q
<1>3. q <= q * SLOT_BYTES
  BY <1>1, <1>2
<1>4. ASSUME NEW c \in Nat, c * SLOT_BYTES <= n, ~(c <= q)
      PROVE  FALSE
  <2>1. (q + 1) * SLOT_BYTES <= c * SLOT_BYTES
    BY <1>1, <1>2, <1>4
  <2> QED BY <2>1, <1>1, <1>2, <1>4
<1>5. MAX_SLOTS_PER_PAGE = q
  BY DEF MAX_SLOTS_PER_PAGE, q, n
<1> QED BY <1>1, <1>2, <1>3, <1>4, <1>5 DEF n

\* The bytes of one more slot entry.
LEMMA Products ==
  ASSUME NEW c \in Nat
  PROVE  /\ c * SLOT_BYTES \in Nat
         /\ (c + 1) * SLOT_BYTES = c * SLOT_BYTES + SLOT_BYTES
BY Sizes

-----------------------------------------------------------------------------
(* The length of an undo chain.                                            *)

\* The records up to the n-th point backwards.
Backward(l, n) == \A i \in 1 .. n : l[i].next \in 0 .. i - 1

IsLength(f, l, n) ==
  f = [m \in 0 .. n |-> IF m = 0 THEN 0 ELSE 1 + f[l[m].next]]

\* The recursion of ChainLength has a solution, since every record points backwards.
LEMMA LengthExists ==
  ASSUME NEW l, NEW n \in Nat, Backward(l, n)
  PROVE  \E f : IsLength(f, l, n)
<1> DEFINE T == {k \in 0 .. n : ~\E f : IsLength(f, l, k)}
<1>1. SUFFICES ASSUME T # {} PROVE FALSE
  OBVIOUS
<1>0. T \in SUBSET Nat
  OBVIOUS
<1>2. PICK k \in T : \A y \in T : k <= y
  <2> HIDE DEF T
  <2> QED BY <1>1, <1>0, LeastNat
<1>3. CASE k = 0
  <2>1. IsLength([m \in 0 .. 0 |-> 0], l, 0)
    BY DEF IsLength
  <2> QED BY <2>1, <1>2, <1>3
<1>4. CASE k # 0
  <2>1. k - 1 \in 0 .. n /\ k - 1 \notin T
    BY <1>2, <1>4
  <2>2. PICK f : IsLength(f, l, k - 1)
    BY <2>1
  <2> DEFINE g == [m \in 0 .. k |-> IF m = k THEN 1 + f[l[k].next] ELSE f[m]]
  <2>3. ASSUME NEW m \in 0 .. k
        PROVE  g[m] = IF m = 0 THEN 0 ELSE 1 + g[l[m].next]
    <3>1. CASE m = 0
      BY <3>1, <1>4, <2>2 DEF IsLength
    <3>2. CASE m # 0
      <4>1. l[m].next \in 0 .. k - 1 /\ l[m].next \in 0 .. k /\ l[m].next # k
        BY <3>2, <1>2 DEF Backward
      <4>2. g[l[m].next] = f[l[m].next]
        BY <4>1
      <4>3. CASE m = k
        BY <4>2, <4>3, <3>2
      <4>4. CASE m # k
        <5>1. m \in 0 .. k - 1
          BY <4>4, <1>2
        <5>2. f[m] = 1 + f[l[m].next]
          BY <5>1, <2>2, <3>2 DEF IsLength
        <5> QED BY <5>2, <4>2, <4>4, <3>2
      <4> QED BY <4>3, <4>4
    <3> QED BY <3>1, <3>2
  <2>4. IsLength(g, l, k)
    BY <2>3 DEF IsLength
  <2> QED BY <2>4, <1>2
<1> QED BY <1>3, <1>4

\* Two solutions agree where the records agree.
LEMMA LengthUnique ==
  ASSUME NEW l, NEW n \in Nat, Backward(l, n),
         NEW k, NEW m \in Nat, NEW j \in Nat, j <= n, j <= m,
         \A i \in 1 .. j : k[i].next = l[i].next,
         NEW f, IsLength(f, l, n), NEW g, IsLength(g, k, m)
  PROVE  f[j] = g[j] /\ f[j] \in Nat
<1> DEFINE T == {i \in 0 .. j : ~(f[i] = g[i] /\ f[i] \in Nat)}
<1>1. SUFFICES ASSUME T # {} PROVE FALSE
  OBVIOUS
<1>0. T \in SUBSET Nat
  OBVIOUS
<1>2. PICK i \in T : \A y \in T : i <= y
  <2> HIDE DEF T
  <2> QED BY <1>1, <1>0, LeastNat
<1>5. i \in 0 .. n /\ i \in 0 .. m /\ i \in 0 .. j
  BY <1>2
<1>3. CASE i = 0
  BY <1>2, <1>3 DEF IsLength
<1>4. CASE i # 0
  <2> DEFINE x == l[i].next
  <2>1. x \in 0 .. i - 1
    BY <1>2, <1>4 DEF Backward
  <2>2. x \in 0 .. j /\ x \notin T
    BY <2>1, <1>2
  <2>3. f[x] = g[x] /\ f[x] \in Nat
    BY <2>2
  <2>4. f[i] = 1 + f[x]
    BY <1>5, <1>4 DEF IsLength
  <2>5. g[i] = 1 + g[k[i].next]
    BY <1>5, <1>4 DEF IsLength
  <2> QED BY <2>1, <2>3, <2>4, <2>5, <1>2, <1>4
<1> QED BY <1>3, <1>4

\* ChainLength is a solution of its recursion.
LEMMA ChainLengthIs ==
  ASSUME NEW l, NEW n \in Nat, Backward(l, n)
  PROVE  \E f : IsLength(f, l, n) /\ ChainLength(l, n) = f[n]
<1> DEFINE f == CHOOSE g : IsLength(g, l, n)
<1>1. IsLength(f, l, n)
  BY LengthExists
<1>2. ChainLength(l, n) = f[n]
  BY DEF ChainLength, IsLength
<1> QED BY <1>1, <1>2

\* ChainLength unfolds along the chain.
LEMMA ChainFacts ==
  ASSUME NEW l, NEW n \in Nat, Backward(l, n)
  PROVE  /\ ChainLength(l, n) \in Nat
         /\ n = 0 => ChainLength(l, n) = 0
         /\ n # 0 => ChainLength(l, n) = 1 + ChainLength(l, l[n].next)
<1>1. PICK f : IsLength(f, l, n) /\ ChainLength(l, n) = f[n]
  BY ChainLengthIs
<1>2. ChainLength(l, n) \in Nat
  BY <1>1, LengthUnique
<1>3. n = 0 => ChainLength(l, n) = 0
  BY <1>1 DEF IsLength
<1>4. ASSUME n # 0
      PROVE  ChainLength(l, n) = 1 + ChainLength(l, l[n].next)
  <2> DEFINE x == l[n].next
  <2>1. x \in Nat /\ x <= n
    BY <1>4 DEF Backward
  <2>2. Backward(l, x)
    BY <2>1 DEF Backward
  <2>3. PICK g : IsLength(g, l, x) /\ ChainLength(l, x) = g[x]
    BY <2>1, <2>2, ChainLengthIs
  <2>4. f[x] = g[x]
    BY <1>1, <2>1, <2>3, LengthUnique
  <2>5. f[n] = 1 + f[x]
    BY <1>1, <1>4 DEF IsLength
  <2> QED BY <1>1, <2>3, <2>4, <2>5
<1> QED BY <1>2, <1>3, <1>4

-----------------------------------------------------------------------------
(* What the log says.                                                      *)

SameUpTo(k, l, n) == \A i \in 1 .. n : k[i] = l[i]

\* The length of a chain depends on the log up to its start.
LEMMA ChainAgree ==
  ASSUME NEW l, NEW n \in Nat, Backward(l, n), NEW k, SameUpTo(k, l, n)
  PROVE  ChainLength(k, n) = ChainLength(l, n)
<1>1. \A i \in 1 .. n : k[i].next = l[i].next
  BY DEF SameUpTo
<1>2. Backward(k, n)
  BY <1>1 DEF Backward
<1>3. PICK f : IsLength(f, l, n) /\ ChainLength(l, n) = f[n]
  BY ChainLengthIs
<1>4. PICK g : IsLength(g, k, n) /\ ChainLength(k, n) = g[n]
  BY <1>2, ChainLengthIs
<1> QED BY <1>1, <1>3, <1>4, LengthUnique

\* The greatest of some positions of the log.
LEMMA GreatestNat ==
  ASSUME NEW n \in Nat, NEW S \in SUBSET (1 .. n), S # {}
  PROVE  \E i \in S : \A j \in S : j <= i
<1> DEFINE T == {n - x : x \in S}
<1>1. T \in SUBSET Nat /\ T # {}
  <2>1. \A x \in S : n - x \in Nat
    OBVIOUS
  <2> QED BY <2>1
<1>2. PICK k \in T : \A y \in T : k <= y
  <2> HIDE DEF T
  <2> QED BY <1>1, LeastNat
<1>3. PICK x \in S : k = n - x
  BY <1>2
<1>4. ASSUME NEW y \in S
      PROVE  y <= x
  <2>1. n - y \in T
    OBVIOUS
  <2>2. k <= n - y
    BY <1>2, <2>1
  <2> QED BY <2>2, <1>3
<1> QED BY <1>4

Writes(l, s, n) == {i \in 1 .. n : IsData(l[i]) /\ l[i].slot = s}

\* Logged is the new content of the last record that writes the slot.
LEMMA LoggedIs ==
  ASSUME NEW l, NEW s, NEW n \in Nat
  PROVE  /\ Writes(l, s, n) = {} => Logged(l, s, n) = <<>>
         /\ \A i \in Writes(l, s, n) :
              (\A j \in Writes(l, s, n) : j <= i) => Logged(l, s, n) = l[i].new
<1> DEFINE w == Writes(l, s, n)
<1>1. Logged(l, s, n) = IF w = {} THEN <<>>
                        ELSE l[CHOOSE i \in w : \A j \in w : j <= i].new
  BY DEF Logged, Writes
<1>2. \A i \in w : i \in 1 .. n
  BY DEF Writes
<1> HIDE DEF w
<1>3. ASSUME NEW i \in w, \A j \in w : j <= i
      PROVE  (CHOOSE x \in w : \A j \in w : j <= x) = i
  <2>1. \A x \in w : (\A j \in w : j <= x) => x = i
    BY <1>2, <1>3
  <2> QED BY <1>3, <2>1
<1> QED BY <1>1, <1>3 DEF w

\* A slot that is not empty was written by some last record.
LEMMA LoggedBy ==
  ASSUME NEW l, NEW s, NEW n \in Nat, Logged(l, s, n) # <<>>
  PROVE  \E i \in 1 .. n :
           /\ IsData(l[i]) /\ l[i].slot = s /\ Logged(l, s, n) = l[i].new
           /\ \A j \in i + 1 .. n : ~(IsData(l[j]) /\ l[j].slot = s)
<1>1. Writes(l, s, n) # {} /\ Writes(l, s, n) \in SUBSET (1 .. n)
  BY LoggedIs DEF Writes
<1>2. PICK i \in Writes(l, s, n) : \A j \in Writes(l, s, n) : j <= i
  BY <1>1, GreatestNat
<1>3. Logged(l, s, n) = l[i].new
  BY <1>2, LoggedIs
<1>4. \A j \in i + 1 .. n : j \in 1 .. n /\ ~(j <= i)
  BY <1>1, <1>2
<1> QED BY <1>1, <1>2, <1>3, <1>4 DEF Writes

\* An empty log leaves every slot empty.
LEMMA LoggedNone ==
  ASSUME NEW l, NEW s
  PROVE  Logged(l, s, 0) = <<>>
<1>1. Writes(l, s, 0) = {}
  BY DEF Writes
<1> QED BY <1>1, LoggedIs

\* Records that do not write the slot leave its content alone.
LEMMA LoggedSame ==
  ASSUME NEW l, NEW s, NEW m \in Nat, NEW n \in Nat, m <= n,
         \A i \in m + 1 .. n : ~(IsData(l[i]) /\ l[i].slot = s)
  PROVE  Logged(l, s, n) = Logged(l, s, m)
<1>1. \A i \in 1 .. n : i \in 1 .. m \/ i \in m + 1 .. n
  OBVIOUS
<1>2. Writes(l, s, n) = Writes(l, s, m)
  BY <1>1 DEF Writes
<1>3. CASE Writes(l, s, m) = {}
  BY <1>2, <1>3, LoggedIs
<1>4. CASE Writes(l, s, m) # {}
  <2>1. Writes(l, s, m) \in SUBSET (1 .. m)
    BY DEF Writes
  <2>2. PICK i \in Writes(l, s, m) : \A j \in Writes(l, s, m) : j <= i
    BY <1>4, <2>1, GreatestNat
  <2> QED BY <1>2, <2>2, LoggedIs
<1> QED BY <1>3, <1>4

\* The last record decides what its slot holds.
LEMMA LoggedLast ==
  ASSUME NEW l, NEW s, NEW n \in Nat, n # 0, IsData(l[n]), l[n].slot = s
  PROVE  Logged(l, s, n) = l[n].new
<1>1. n \in Writes(l, s, n) /\ \A j \in Writes(l, s, n) : j <= n
  BY DEF Writes
<1> QED BY <1>1, LoggedIs

\* Logged depends on the first n records only.
LEMMA LoggedAgree ==
  ASSUME NEW l, NEW k, NEW s, NEW n \in Nat, SameUpTo(k, l, n)
  PROVE  Logged(k, s, n) = Logged(l, s, n) /\ (Touched(k, s, n) <=> Touched(l, s, n))
<1>1. Writes(k, s, n) = Writes(l, s, n)
  BY DEF Writes, SameUpTo
<1>2. CASE Writes(l, s, n) = {}
  BY <1>1, <1>2, LoggedIs DEF Writes, Touched
<1>3. CASE Writes(l, s, n) # {}
  <2>1. Writes(l, s, n) \in SUBSET (1 .. n)
    BY DEF Writes
  <2>2. PICK i \in Writes(l, s, n) : \A j \in Writes(l, s, n) : j <= i
    BY <1>3, <2>1, GreatestNat
  <2>3. Logged(l, s, n) = l[i].new /\ Logged(k, s, n) = k[i].new
    BY <1>1, <2>2, LoggedIs
  <2>4. k[i] = l[i]
    BY <2>1, <2>2 DEF SameUpTo
  <2> QED BY <1>1, <2>2, <2>3, <2>4 DEF Writes, Touched
<1> QED BY <1>2, <1>3

\* A slot holds a sequence of bytes.
LEMMA LoggedContents ==
  ASSUME NEW l \in Seq(RecordSet), NEW s, NEW n \in 0 .. Len(l)
  PROVE  Logged(l, s, n) \in Contents
<1>1. CASE Logged(l, s, n) = <<>>
  BY <1>1 DEF Contents
<1>2. CASE Logged(l, s, n) # <<>>
  <2>1. PICK i \in 1 .. n : Logged(l, s, n) = l[i].new
    BY <1>2, LoggedBy
  <2>2. l[i] \in RecordSet
    OBVIOUS
  <2> QED BY <2>1, <2>2 DEF RecordSet
<1> QED BY <1>1, <1>2

-----------------------------------------------------------------------------
(* The operations of Page.                                                 *)

\* The ranges of the fields of a page.
LEMMA PageFacts ==
  ASSUME NEW p \in PageType
  PROVE  /\ p.slot_count \in Nat /\ p.slot_count <= MAX_SLOTS_PER_PAGE /\ p.slot_count < 65536
         /\ p.tombstone_count \in Nat /\ p.tombstone_count < 65536
         /\ p.free_space_ptr \in Nat /\ p.free_space_ptr <= PAGE_SIZE
         /\ p.page_lsn \in Nat /\ p.page_lsn <= MaxLsn
         /\ p.slots \in [SlotIds -> [offset : 0 .. PAGE_SIZE, length : 0 .. PAGE_SIZE]]
         /\ p.mem \in [PAGE_HEADER_SIZE .. PAGE_SIZE - 1 -> Nat]
         /\ SlotDirStart(p) \in Int /\ SlotDirStart(p) <= PAGE_SIZE
         /\ Allocated(p) \in SUBSET SlotIds
         /\ Live(p) \in SUBSET SlotIds
<1>1. MAX_SLOTS_PER_PAGE \in Nat /\ MAX_SLOTS_PER_PAGE < 65536
  BY MaxSlots
<1>2. /\ p.slot_count \in 0 .. MAX_SLOTS_PER_PAGE
      /\ p.tombstone_count \in 0 .. MAX_SLOTS_PER_PAGE
      /\ p.free_space_ptr \in 0 .. PAGE_SIZE
      /\ p.page_lsn \in 0 .. MaxLsn
      /\ p.slots \in [SlotIds -> [offset : 0 .. PAGE_SIZE, length : 0 .. PAGE_SIZE]]
      /\ p.mem \in [PAGE_HEADER_SIZE .. PAGE_SIZE - 1 -> Nat]
  BY DEF PageType
<1>3. p.slot_count * SLOT_BYTES \in Nat
  <2>1. p.slot_count \in Nat
    BY <1>1, <1>2
  <2> QED BY <2>1, Products
<1>4. SlotDirStart(p) \in Int /\ SlotDirStart(p) <= PAGE_SIZE
  BY <1>3, Sizes DEF SlotDirStart
<1>5. Allocated(p) \in SUBSET SlotIds
  BY <1>1, <1>2 DEF Allocated, SlotIds
<1> QED BY <1>1, <1>2, <1>4, <1>5, Sizes, SMTT(30) DEF Live

\* Where a record of a page lies.
LEMMA SlotFacts ==
  ASSUME NEW p, Layout(p), NEW s \in Live(p)
  PROVE  /\ s \in SlotIds /\ s \in Nat /\ s < p.slot_count
         /\ p.slots[s].offset \in Nat /\ p.slots[s].length \in Nat
         /\ p.slots[s] = [offset |-> p.slots[s].offset, length |-> p.slots[s].length]
         /\ p.slots[s].offset >= PAGE_HEADER_SIZE /\ p.slots[s].length >= 1
         /\ p.slots[s].offset # PAGE_SIZE
         /\ p.slots[s].offset \in PAGE_HEADER_SIZE .. PAGE_SIZE - 1
         /\ p.slots[s].offset + PREFIX_BYTES + p.slots[s].length <= p.free_space_ptr
         /\ p.free_space_ptr \in Nat /\ p.free_space_ptr <= PAGE_SIZE
         /\ p.mem[p.slots[s].offset] = p.slots[s].length
         /\ \A i \in 1 .. p.slots[s].length :
              p.slots[s].offset + PREFIX_BYTES + i - 1 \in PAGE_HEADER_SIZE .. PAGE_SIZE - 1
<1>1. p \in PageType
  BY DEF Layout
<1>2. s \in SlotIds /\ p.slots[s] \in [offset : 0 .. PAGE_SIZE, length : 0 .. PAGE_SIZE]
  BY <1>1, PageFacts
<1>3. s \in Nat /\ s < p.slot_count
  BY <1>1, PageFacts DEF Live, Allocated
<1>4. /\ p.slots[s].offset >= PAGE_HEADER_SIZE /\ p.slots[s].length >= 1
      /\ p.slots[s].offset + PREFIX_BYTES + p.slots[s].length <= p.free_space_ptr
      /\ p.mem[p.slots[s].offset] = p.slots[s].length
  BY DEF Layout, End
<1>5. p.free_space_ptr \in Nat /\ p.free_space_ptr <= PAGE_SIZE
  BY <1>1, PageFacts
<1> QED BY <1>2, <1>3, <1>4, <1>5, Sizes

\* read_record returns what the slot holds.
LEMMA ReadIs ==
  ASSUME NEW p, Layout(p), NEW s \in SlotIds
  PROVE  /\ ReadRecord(p, s) = Content(p, s)
         /\ s \in Live(p) <=> Content(p, s) # <<>>
         /\ s \in Live(p) => Len(Content(p, s)) = p.slots[s].length
<1>0. p \in PageType
  BY DEF Layout
<1>1. CASE s \in Live(p)
  <2> DEFINE off == p.slots[s].offset
             len == p.slots[s].length
  <2>1. /\ off \in Nat /\ len \in Nat /\ off >= PAGE_HEADER_SIZE /\ len >= 1 /\ off # PAGE_SIZE
        /\ off + PREFIX_BYTES + len <= PAGE_SIZE
        /\ p.mem[off] = len /\ s < p.slot_count
    <3>1. /\ off \in Nat /\ len \in Nat /\ off >= PAGE_HEADER_SIZE /\ len >= 1
          /\ off # PAGE_SIZE /\ p.mem[off] = len /\ s < p.slot_count
          /\ off + PREFIX_BYTES + len <= p.free_space_ptr
          /\ p.free_space_ptr \in Nat /\ p.free_space_ptr <= PAGE_SIZE
      BY <1>1, SlotFacts
    <3> HIDE DEF off, len
    <3> QED BY <3>1, Sizes
  <2>2. ReadRecord(p, s) = [i \in 1 .. len |-> p.mem[off + PREFIX_BYTES + i - 1]]
    BY <2>1 DEF ReadRecord, SLOT_TOMBSTONE
  <2>3. Content(p, s) = [i \in 1 .. len |-> p.mem[off + PREFIX_BYTES + i - 1]]
    BY <1>1 DEF Content
  <2>4. Len([i \in 1 .. len |-> p.mem[off + PREFIX_BYTES + i - 1]]) = len
    BY <2>1
  <2> QED BY <1>1, <2>1, <2>2, <2>3, <2>4
<1>2. CASE s \notin Live(p)
  <2>1. s \in Nat
    BY MaxSlots DEF SlotIds
  <2>2. ~(s < p.slot_count /\ p.slots[s].offset # SLOT_TOMBSTONE)
    BY <1>0, <1>2, <2>1, PageFacts DEF Live, Allocated, IsTombstone
  <2> QED BY <1>2, <2>2 DEF ReadRecord, Content
<1> QED BY <1>1, <1>2

\* The page r is q with the record d of slot s written at off.
Written(r, q, s, off, d) ==
  /\ r \in PageType
  /\ r.slot_count = q.slot_count
  /\ r.tombstone_count = q.tombstone_count
  /\ r.page_lsn = q.page_lsn
  /\ r.free_space_ptr = off + PREFIX_BYTES + Len(d)
  /\ r.slots[s] = [offset |-> off, length |-> Len(d)]
  /\ \A t \in SlotIds \ {s} : r.slots[t] = q.slots[t]
  /\ r.mem[off] = Len(d)
  /\ \A i \in 1 .. Len(d) : r.mem[off + PREFIX_BYTES + i - 1] = d[i]
  /\ \A i \in PAGE_HEADER_SIZE .. off - 1 : r.mem[i] = q.mem[i]

\* A record with the fields of a page.
HasFields(q) ==
  q = [slot_count |-> q.slot_count, tombstone_count |-> q.tombstone_count,
       free_space_ptr |-> q.free_space_ptr, page_lsn |-> q.page_lsn,
       slots |-> q.slots, mem |-> q.mem]

\* The fields of r are those of q with the record d of slot s written at off,
\* whether it fits or not.
Overwritten(r, q, s, off, d) ==
  /\ r.slot_count = q.slot_count
  /\ r.tombstone_count = q.tombstone_count
  /\ r.page_lsn = q.page_lsn
  /\ r.free_space_ptr = off + PREFIX_BYTES + Len(d)
  /\ r.slots = [q.slots EXCEPT ![s] = [offset |-> off, length |-> Len(d)]]
  /\ r.mem = [i \in DOMAIN q.mem |->
                IF i = off THEN Len(d)
                ELSE IF i \in off + PREFIX_BYTES .. off + PREFIX_BYTES + Len(d) - 1
                     THEN d[i - off - PREFIX_BYTES + 1]
                     ELSE q.mem[i]]
  /\ HasFields(r)

\* What write_at makes of any record with the fields of a page.
LEMMA WriteAtFields ==
  ASSUME NEW q, HasFields(q), NEW s, NEW off, NEW d, NEW r, r = WriteAt(q, s, off, d)
  PROVE  Overwritten(r, q, s, off, d)
<1> DEFINE m == [i \in DOMAIN q.mem |->
                    IF i = off THEN Len(d)
                    ELSE IF i \in off + PREFIX_BYTES .. off + PREFIX_BYTES + Len(d) - 1
                         THEN d[i - off - PREFIX_BYTES + 1]
                         ELSE q.mem[i]]
           sl == [q.slots EXCEPT ![s] = [offset |-> off, length |-> Len(d)]]
           fs == off + PREFIX_BYTES + Len(d)
<1>1. r = [[[q EXCEPT !.mem = m] EXCEPT !.slots = sl] EXCEPT !.free_space_ptr = fs]
  BY DEF WriteAt
<1> HIDE DEF m, sl, fs
<1>2. r = [slot_count |-> q.slot_count, tombstone_count |-> q.tombstone_count,
           free_space_ptr |-> fs, page_lsn |-> q.page_lsn, slots |-> sl, mem |-> m]
  BY <1>1 DEF HasFields
<1> QED BY <1>2 DEF Overwritten, HasFields, m, sl, fs

\* write_at changes the bytes from off on, one entry and the free space pointer.
LEMMA WriteAtFacts ==
  ASSUME NEW q \in PageType, NEW s \in SlotIds, NEW off \in Nat, NEW d \in Contents,
         off >= PAGE_HEADER_SIZE, off + PREFIX_BYTES + Len(d) <= PAGE_SIZE, d # <<>>
  PROVE  Written(WriteAt(q, s, off, d), q, s, off, d)
<1>0. PICK r : r = WriteAt(q, s, off, d)
  OBVIOUS
<1> DEFINE m == [i \in DOMAIN q.mem |->
                    IF i = off THEN Len(d)
                    ELSE IF i \in off + PREFIX_BYTES .. off + PREFIX_BYTES + Len(d) - 1
                         THEN d[i - off - PREFIX_BYTES + 1]
                         ELSE q.mem[i]]
<1>1. /\ r.slot_count = q.slot_count
      /\ r.tombstone_count = q.tombstone_count
      /\ r.page_lsn = q.page_lsn
      /\ r.free_space_ptr = off + PREFIX_BYTES + Len(d)
      /\ r.slots = [q.slots EXCEPT ![s] = [offset |-> off, length |-> Len(d)]]
      /\ r.mem = m
      /\ r = [slot_count |-> r.slot_count, tombstone_count |-> r.tombstone_count,
              free_space_ptr |-> r.free_space_ptr, page_lsn |-> r.page_lsn,
              slots |-> r.slots, mem |-> r.mem]
  <2>1. HasFields(q)
    BY DEF HasFields, PageType
  <2>2. Overwritten(r, q, s, off, d)
    BY <2>1, <1>0, WriteAtFields
  <2> QED BY <2>2 DEF Overwritten, HasFields
<1>2. Len(d) \in Nat /\ Len(d) >= 1 /\ \A i \in 1 .. Len(d) : d[i] \in Nat
  BY DEF Contents
<1>3. /\ q.slots \in [SlotIds -> [offset : 0 .. PAGE_SIZE, length : 0 .. PAGE_SIZE]]
      /\ q.mem \in [PAGE_HEADER_SIZE .. PAGE_SIZE - 1 -> Nat]
  BY PageFacts
<1>4. r.slots \in [SlotIds -> [offset : 0 .. PAGE_SIZE, length : 0 .. PAGE_SIZE]]
  <2>1. [offset |-> off, length |-> Len(d)] \in [offset : 0 .. PAGE_SIZE, length : 0 .. PAGE_SIZE]
    BY <1>2, Sizes
  <2> QED BY <1>1, <1>3, <2>1
<1>5. r.mem \in [PAGE_HEADER_SIZE .. PAGE_SIZE - 1 -> Nat]
  <2>1. ASSUME NEW i \in PAGE_HEADER_SIZE .. PAGE_SIZE - 1
        PROVE  m[i] \in Nat
    <3>1. CASE i \in off + PREFIX_BYTES .. off + PREFIX_BYTES + Len(d) - 1
      <4>1. i - off - PREFIX_BYTES + 1 \in 1 .. Len(d)
        BY <3>1, <1>2, Sizes
      <4> QED BY <4>1, <1>2, <1>3
    <3>2. CASE i \notin off + PREFIX_BYTES .. off + PREFIX_BYTES + Len(d) - 1
      BY <3>2, <1>2, <1>3
    <3> QED BY <3>1, <3>2
  <2> QED BY <1>1, <1>3, <2>1
<1>6. r \in PageType
  <2>1. r.free_space_ptr \in 0 .. PAGE_SIZE
    BY <1>1, <1>2, Sizes
  <2> QED BY <1>1, <1>4, <1>5, <2>1 DEF PageType
<1>7. /\ r.slots[s] = [offset |-> off, length |-> Len(d)]
      /\ \A t \in SlotIds \ {s} : r.slots[t] = q.slots[t]
  BY <1>1, <1>3
<1>8. r.mem[off] = Len(d)
  <2>1. off \in PAGE_HEADER_SIZE .. PAGE_SIZE - 1
    BY <1>2, Sizes
  <2> QED BY <2>1, <1>1, <1>3
<1>9. ASSUME NEW i \in 1 .. Len(d)
      PROVE  r.mem[off + PREFIX_BYTES + i - 1] = d[i]
  <2> DEFINE j == off + PREFIX_BYTES + i - 1
  <2>1. /\ j \in PAGE_HEADER_SIZE .. PAGE_SIZE - 1 /\ j # off
        /\ j \in off + PREFIX_BYTES .. off + PREFIX_BYTES + Len(d) - 1
        /\ j - off - PREFIX_BYTES + 1 = i
    BY <1>2, Sizes
  <2>2. m[j] = d[j - off - PREFIX_BYTES + 1]
    <3> HIDE DEF j
    <3> QED BY <2>1, <1>3
  <2> QED BY <2>1, <2>2, <1>1
<1>10. ASSUME NEW i \in PAGE_HEADER_SIZE .. off - 1
       PROVE  r.mem[i] = q.mem[i]
  <2>1. /\ i \in PAGE_HEADER_SIZE .. PAGE_SIZE - 1 /\ i # off
        /\ i \notin off + PREFIX_BYTES .. off + PREFIX_BYTES + Len(d) - 1
    BY <1>2, Sizes
  <2> QED BY <2>1, <1>1, <1>3
<1> QED BY <1>0, <1>1, <1>6, <1>7, <1>8, <1>9, <1>10 DEF Written

\* There are no more tombstones than slots.
LEMMA TombsFinite ==
  ASSUME NEW p, p.slot_count \in Nat
  PROVE  /\ IsFiniteSet(Tombs(p)) /\ Cardinality(Tombs(p)) \in Nat
         /\ Cardinality(Tombs(p)) <= p.slot_count
<1>1. IsFiniteSet(0 .. p.slot_count - 1) /\ Cardinality(0 .. p.slot_count - 1) = p.slot_count
  <2> DEFINE b == p.slot_count - 1
  <2>1. b \in Int /\ 0 \in Int /\ p.slot_count = (IF 0 > b THEN 0 ELSE b - 0 + 1)
    OBVIOUS
  <2> HIDE DEF b
  <2>2. IsFiniteSet(0 .. b) /\ Cardinality(0 .. b) = IF 0 > b THEN 0 ELSE b - 0 + 1
    BY <2>1, FS_Interval
  <2> QED BY <2>1, <2>2 DEF b
<1>2. Tombs(p) \in SUBSET (0 .. p.slot_count - 1)
  BY DEF Tombs, Allocated
<1> QED BY <1>1, <1>2, FS_Subset, FS_CardinalityType

\* Where redo_insert puts a record, and where the directory starts then.
Start(p) == IF p.free_space_ptr < PAGE_HEADER_SIZE THEN PAGE_HEADER_SIZE ELSE p.free_space_ptr

DirAfter(p, s) == IF s = p.slot_count THEN SlotDirStart(p) - SLOT_BYTES ELSE SlotDirStart(p)

\* The page q is p with a new record d in slot s.
Placed(q, p, s, d) ==
  /\ q \in PageType
  /\ q.slot_count = (IF s = p.slot_count THEN p.slot_count + 1 ELSE p.slot_count)
  /\ q.tombstone_count = (IF s = p.slot_count THEN p.tombstone_count ELSE p.tombstone_count - 1)
  /\ q.page_lsn = p.page_lsn
  /\ q.free_space_ptr = Start(p) + PREFIX_BYTES + Len(d)
  /\ q.slots[s] = [offset |-> Start(p), length |-> Len(d)]
  /\ \A t \in SlotIds \ {s} : q.slots[t] = p.slots[t]
  /\ q.mem[Start(p)] = Len(d)
  /\ \A i \in 1 .. Len(d) : q.mem[Start(p) + PREFIX_BYTES + i - 1] = d[i]
  /\ \A i \in PAGE_HEADER_SIZE .. Start(p) - 1 : q.mem[i] = p.mem[i]
  /\ SlotDirStart(q) = DirAfter(p, s)
  /\ s # p.slot_count => s \in Tombs(p)

\* redo_insert into a dead slot or into the next new one.
LEMMA RedoInsertPlaces ==
  ASSUME NEW p, Layout(p), NEW s \in SlotIds, s \notin Live(p), s <= p.slot_count,
         NEW d \in Contents, d # <<>>, Start(p) + PREFIX_BYTES + Len(d) <= DirAfter(p, s)
  PROVE  Placed(RedoInsert(p, s, d), p, s, d)
<1> DEFINE q == RedoInsert(p, s, d)
           c == IF s = p.slot_count THEN p.slot_count + 1 ELSE p.slot_count
           m == IF s = p.slot_count THEN p.tombstone_count ELSE p.tombstone_count - 1
<1>0. PICK r : r = [p EXCEPT !.slot_count = c, !.tombstone_count = m]
  OBVIOUS
<1>1. p \in PageType
  BY DEF Layout
<1>2. /\ p.slot_count \in Nat /\ p.slot_count <= MAX_SLOTS_PER_PAGE
      /\ p.tombstone_count \in 0 .. MAX_SLOTS_PER_PAGE
      /\ p.free_space_ptr \in Nat /\ SlotDirStart(p) \in Int /\ SlotDirStart(p) <= PAGE_SIZE
  BY <1>1, PageFacts DEF PageType
<1>3. MAX_SLOTS_PER_PAGE \in Nat /\ MAX_SLOTS_PER_PAGE < 65536 /\ s \in Nat /\ s < MAX_SLOTS_PER_PAGE
  BY MaxSlots DEF SlotIds
<1>4. s # p.slot_count => s \in Tombs(p)
  BY <1>2, <1>3 DEF Live, Tombs, Allocated
<1>5. s # p.slot_count => p.tombstone_count >= 1
  <2>1. IsFiniteSet(Tombs(p)) /\ p.tombstone_count = Cardinality(Tombs(p))
    BY <1>2, TombsFinite DEF Layout
  <2>2. s # p.slot_count => Cardinality(Tombs(p)) # 0
    BY <2>1, <1>4, FS_EmptySet
  <2> QED BY <2>1, <2>2, <1>2, <1>3
<1>6. c \in 0 .. MAX_SLOTS_PER_PAGE /\ m \in 0 .. MAX_SLOTS_PER_PAGE
  BY <1>2, <1>3, <1>5
<1>7. r = IF s >= p.slot_count
          THEN [p EXCEPT !.slot_count = U16(s + 1)]
          ELSE IF IsTombstone(p, s)
               THEN [p EXCEPT !.tombstone_count = U16(p.tombstone_count - 1)]
               ELSE p
  <2>1. CASE s = p.slot_count
    <3>1. U16(s + 1) = c /\ m = p.tombstone_count
      BY <2>1, <1>2, <1>3, U16Small
    <3> QED BY <2>1, <3>1, <1>0, <1>1, <1>2 DEF PageType
  <2>2. CASE s # p.slot_count
    <3>1. U16(p.tombstone_count - 1) = m /\ c = p.slot_count
      BY <2>2, <1>2, <1>3, <1>5, U16Small
    <3>2. IsTombstone(p, s) /\ ~(s >= p.slot_count)
      BY <2>2, <1>2, <1>3, <1>4 DEF Tombs
    <3> QED BY <3>1, <3>2, <1>0, <1>1 DEF PageType
  <2> QED BY <2>1, <2>2
<1>8. q = WriteAt(r, s, Start(p), d)
  BY <1>7 DEF RedoInsert, Start
<1>9. /\ r \in PageType /\ r.slot_count = c /\ r.tombstone_count = m
      /\ r.page_lsn = p.page_lsn /\ r.slots = p.slots /\ r.mem = p.mem
  <2> HIDE DEF c, m
  <2> QED BY <1>0, <1>1, <1>6 DEF PageType
<1>10. /\ Start(p) \in Nat /\ Start(p) >= PAGE_HEADER_SIZE
       /\ Start(p) + PREFIX_BYTES + Len(d) <= PAGE_SIZE
  <2>1. Len(d) \in Nat /\ DirAfter(p, s) \in Int /\ DirAfter(p, s) <= PAGE_SIZE
    BY <1>2, Sizes DEF Contents, DirAfter
  <2>2. Start(p) \in Nat /\ Start(p) >= PAGE_HEADER_SIZE
    BY <1>2, Sizes DEF Start
  <2> QED BY <2>1, <2>2, Sizes
<1>11. Written(q, r, s, Start(p), d)
  BY <1>8, <1>9, <1>10, WriteAtFacts
<1>12. SlotDirStart(q) = DirAfter(p, s)
  <2> HIDE DEF q
  <2>1. q.slot_count = c
    BY <1>9, <1>11 DEF Written
  <2>2. (p.slot_count + 1) * SLOT_BYTES = p.slot_count * SLOT_BYTES + SLOT_BYTES
        /\ p.slot_count * SLOT_BYTES \in Nat
    BY <1>2, Products
  <2> QED BY <2>1, <2>2, Sizes DEF SlotDirStart, DirAfter
<1> HIDE DEF q
<1>13. Placed(q, p, s, d)
  BY <1>4, <1>9, <1>11, <1>12 DEF Written, Placed
<1> QED BY <1>13 DEF q

\* The page q differs from p in what slot s holds, which is d.
Changed(q, p, s, d) ==
  /\ Layout(q)
  /\ Content(q, s) = d
  /\ \A t \in SlotIds \ {s} : Content(q, t) = Content(p, t)
  /\ Allocated(q) = Allocated(p) \union {s}
  /\ q.page_lsn = p.page_lsn

\* A slot keeps its record when its entry and its bytes stay.
LEMMA ContentKept ==
  ASSUME NEW p, Layout(p), NEW q, NEW t \in SlotIds, t \in Live(q) <=> t \in Live(p),
         t \in Live(p) => /\ q.slots[t] = p.slots[t]
                          /\ \A i \in 1 .. p.slots[t].length :
                               q.mem[p.slots[t].offset + PREFIX_BYTES + i - 1]
                                 = p.mem[p.slots[t].offset + PREFIX_BYTES + i - 1]
  PROVE  Content(q, t) = Content(p, t)
BY DEF Content

\* A record placed in the free space disturbs no other record.
LEMMA InsertChanges ==
  ASSUME NEW p, Layout(p), NEW s \in SlotIds, s \notin Live(p), s <= p.slot_count,
         NEW d \in Contents, d # <<>>, Start(p) + PREFIX_BYTES + Len(d) <= DirAfter(p, s),
         NEW q, Placed(q, p, s, d)
  PROVE  Changed(q, p, s, d)
<1>0. p \in PageType /\ q \in PageType
  BY DEF Layout, Placed
<1>1. PICK off : off = Start(p)
  OBVIOUS
<1>2. /\ p.slot_count \in Nat /\ p.free_space_ptr \in Nat /\ SlotDirStart(p) \in Int
      /\ p.tombstone_count \in Nat /\ s \in Nat /\ Len(d) \in Nat /\ Len(d) >= 1
  BY <1>0, PageFacts, MaxSlots DEF SlotIds, Contents
<1>3. /\ off \in Nat /\ off >= PAGE_HEADER_SIZE /\ p.free_space_ptr <= off
      /\ off < PAGE_SIZE /\ off # PAGE_SIZE
  <2>1. DirAfter(p, s) \in Int /\ DirAfter(p, s) <= PAGE_SIZE
    BY <1>0, <1>2, PageFacts, Sizes DEF DirAfter
  <2>2. off \in Nat /\ off >= PAGE_HEADER_SIZE /\ p.free_space_ptr <= off
    BY <1>1, <1>2, Sizes DEF Start
  <2> QED BY <1>1, <1>2, <2>1, <2>2, Sizes
<1>4. Allocated(q) = Allocated(p) \union {s}
  BY <1>2 DEF Allocated, Placed
<1>5. /\ q.slots[s].offset = off /\ q.slots[s].length = Len(d)
      /\ \A t \in SlotIds \ {s} : q.slots[t] = p.slots[t]
  BY <1>1 DEF Placed
<1>6. Live(q) = Live(p) \union {s} /\ Tombs(q) = Tombs(p) \ {s}
  <2>1. Allocated(p) \in SUBSET SlotIds
    BY <1>0, PageFacts
  <2> QED BY <2>1, <1>3, <1>4, <1>5 DEF Live, Tombs, IsTombstone, SLOT_TOMBSTONE
<1>7. q.tombstone_count = Cardinality(Tombs(q))
  <2>1. /\ IsFiniteSet(Tombs(p)) /\ Cardinality(Tombs(p)) \in Nat
        /\ p.tombstone_count = Cardinality(Tombs(p))
    BY <1>2, TombsFinite DEF Layout
  <2>2. CASE s = p.slot_count
    <3>1. Tombs(q) = Tombs(p)
      BY <2>2, <1>2, <1>6 DEF Tombs, Allocated
    <3> QED BY <3>1, <2>1, <2>2 DEF Placed
  <2>3. CASE s # p.slot_count
    <3>1. s \in Tombs(p)
      BY <2>3 DEF Placed
    <3>2. Cardinality(Tombs(p) \ {s}) = Cardinality(Tombs(p)) - 1
      BY <2>1, <3>1, FS_RemoveElement
    <3> QED BY <3>2, <2>1, <2>3, <1>6 DEF Placed
  <2> QED BY <2>2, <2>3
<1>8. /\ q.free_space_ptr = off + PREFIX_BYTES + Len(d)
      /\ q.free_space_ptr <= SlotDirStart(q) /\ q.free_space_ptr >= PAGE_HEADER_SIZE
  BY <1>1, <1>2, <1>3, Sizes DEF Placed
<1>9. ASSUME NEW t \in Live(p)
      PROVE  /\ t \in SlotIds \ {s} /\ q.slots[t] = p.slots[t]
             /\ q.slots[t].offset >= PAGE_HEADER_SIZE /\ q.slots[t].length >= 1
             /\ End(q, t) = End(p, t) /\ End(p, t) <= off /\ End(p, t) <= q.free_space_ptr
             /\ q.mem[q.slots[t].offset] = q.slots[t].length
             /\ \A i \in 1 .. p.slots[t].length :
                  q.mem[p.slots[t].offset + PREFIX_BYTES + i - 1]
                    = p.mem[p.slots[t].offset + PREFIX_BYTES + i - 1]
  <2>1. /\ t \in SlotIds /\ p.slots[t].offset \in Nat /\ p.slots[t].length \in Nat
        /\ p.slots[t].offset >= PAGE_HEADER_SIZE /\ p.slots[t].length >= 1
        /\ p.slots[t].offset + PREFIX_BYTES + p.slots[t].length <= p.free_space_ptr
        /\ p.mem[p.slots[t].offset] = p.slots[t].length
    BY SlotFacts
  <2>2. t # s /\ q.slots[t] = p.slots[t]
    BY <2>1, <1>5
  <2>3. p.slots[t].offset \in PAGE_HEADER_SIZE .. off - 1
    <3> DEFINE o == p.slots[t].offset
               n == p.slots[t].length
    <3>1. /\ o \in Nat /\ n \in Nat /\ o >= PAGE_HEADER_SIZE /\ n >= 1
          /\ o + PREFIX_BYTES + n <= p.free_space_ptr
      BY <2>1
    <3> HIDE DEF o, n
    <3>2. o \in PAGE_HEADER_SIZE .. off - 1
      BY <3>1, <1>2, <1>3, Sizes
    <3> QED BY <3>2 DEF o
  <2>4. \A i \in PAGE_HEADER_SIZE .. off - 1 : q.mem[i] = p.mem[i]
    BY <1>1 DEF Placed
  <2>5. \A i \in 1 .. p.slots[t].length :
          p.slots[t].offset + PREFIX_BYTES + i - 1 \in PAGE_HEADER_SIZE .. off - 1
    <3> DEFINE o == p.slots[t].offset
               n == p.slots[t].length
    <3>1. /\ o \in Nat /\ n \in Nat /\ o >= PAGE_HEADER_SIZE
          /\ o + PREFIX_BYTES + n <= p.free_space_ptr
      BY <2>1
    <3> HIDE DEF o, n
    <3>2. o + PREFIX_BYTES + n <= off /\ off \in Nat /\ PREFIX_BYTES \in Nat
          /\ PAGE_HEADER_SIZE \in Nat
      BY <3>1, <1>2, <1>3, Sizes
    <3>3. \A i \in 1 .. n : o + PREFIX_BYTES + i - 1 \in PAGE_HEADER_SIZE .. off - 1
      BY <3>1, <3>2
    <3> QED BY <3>3 DEF o, n
  <2>6. End(p, t) <= off /\ off <= q.free_space_ptr /\ End(p, t) <= q.free_space_ptr
    <3>1. PICK e : e = End(p, t)
      OBVIOUS
    <3>2. e \in Nat /\ e <= p.free_space_ptr
      BY <3>1, <2>1, Sizes DEF End
    <3>3. e <= off
      BY <3>2, <1>2, <1>3
    <3>4. off <= q.free_space_ptr
      BY <1>2, <1>3, <1>8, Sizes
    <3>5. e <= q.free_space_ptr
      BY <3>2, <3>3, <3>4, <1>2, <1>3, <1>8, Sizes
    <3> QED BY <3>1, <3>3, <3>4, <3>5
  <2> QED BY <2>1, <2>2, <2>3, <2>4, <2>5, <2>6 DEF End
<1>10. /\ End(q, s) = q.free_space_ptr /\ q.mem[q.slots[s].offset] = q.slots[s].length
       /\ q.slots[s].offset >= PAGE_HEADER_SIZE /\ q.slots[s].length >= 1
  BY <1>1, <1>2, <1>3, <1>5, <1>8 DEF End, Placed
<1>11. Layout(q)
  <2>1. \A t \in Live(q) :
          /\ q.slots[t].offset >= PAGE_HEADER_SIZE
          /\ q.slots[t].length >= 1
          /\ End(q, t) <= q.free_space_ptr
          /\ q.mem[q.slots[t].offset] = q.slots[t].length
    <3>1. q.free_space_ptr <= q.free_space_ptr
      BY <1>0, PageFacts
    <3> QED BY <3>1, <1>6, <1>9, <1>10
  <2>2. ASSUME NEW t \in Live(q), NEW u \in Live(q), t # u
        PROVE  End(q, t) <= q.slots[u].offset \/ End(q, u) <= q.slots[t].offset
    <3>1. CASE t = s
      BY <3>1, <2>2, <1>5, <1>6, <1>9
    <3>2. CASE u = s
      BY <3>2, <2>2, <1>5, <1>6, <1>9
    <3>3. CASE t # s /\ u # s
      <4>1. t \in Live(p) /\ u \in Live(p)
        BY <3>3, <1>6
      <4>2. End(p, t) <= p.slots[u].offset \/ End(p, u) <= p.slots[t].offset
        BY <4>1, <2>2 DEF Layout
      <4> QED BY <4>1, <4>2, <1>9
    <3> QED BY <3>1, <3>2, <3>3
  <2> QED BY <1>0, <1>7, <1>8, <2>1, <2>2 DEF Layout
<1>12. Content(q, s) = d
  <2>1. Content(q, s) = [i \in 1 .. Len(d) |-> q.mem[off + PREFIX_BYTES + i - 1]]
    BY <1>5, <1>6 DEF Content
  <2>2. \A i \in 1 .. Len(d) : q.mem[off + PREFIX_BYTES + i - 1] = d[i]
    BY <1>1 DEF Placed
  <2>3. d = [i \in 1 .. Len(d) |-> d[i]]
    BY DEF Contents
  <2> QED BY <2>1, <2>2, <2>3
<1>13. ASSUME NEW t \in SlotIds \ {s} PROVE Content(q, t) = Content(p, t)
  BY <1>6, <1>9, ContentKept
<1> QED BY <1>4, <1>11, <1>12, <1>13 DEF Changed, Placed

\* delete_record empties one slot.
LEMMA DeleteChanges ==
  ASSUME NEW p, Layout(p), NEW s \in Live(p), NEW q, q = DeleteRecord(p, s)
  PROVE  /\ Changed(q, p, s, <<>>)
         /\ q.free_space_ptr = p.free_space_ptr /\ q.slot_count = p.slot_count
<1>0. p \in PageType
  BY DEF Layout
<1>1. /\ s \in SlotIds /\ s \in Allocated(p) /\ s \notin Tombs(p)
      /\ p.slot_count \in Nat /\ p.slot_count <= MAX_SLOTS_PER_PAGE
      /\ p.tombstone_count \in Nat /\ p.tombstone_count < 65536
      /\ p.slots \in [SlotIds -> [offset : 0 .. PAGE_SIZE, length : 0 .. PAGE_SIZE]]
      /\ Allocated(p) \in SUBSET SlotIds
  BY <1>0, PageFacts DEF Live, Tombs
<1>2. PICK e : e = [offset |-> SLOT_TOMBSTONE, length |-> 0]
  OBVIOUS
<1>3. e \in [offset : 0 .. PAGE_SIZE, length : 0 .. PAGE_SIZE] /\ e.offset = PAGE_SIZE
  BY <1>2, Sizes DEF SLOT_TOMBSTONE
<1>4. /\ IsFiniteSet(Tombs(p)) /\ p.tombstone_count = Cardinality(Tombs(p))
  BY <1>1, TombsFinite DEF Layout
<1>5. Cardinality(Tombs(p) \union {s}) = p.tombstone_count + 1
  <2>1. PICK S : S = Tombs(p)
    OBVIOUS
  <2>2. IsFiniteSet(S)
    BY <2>1, <1>4
  <2>3. Cardinality(S \cup {s}) = IF s \in S THEN Cardinality(S) ELSE Cardinality(S) + 1
    BY <2>2, FS_AddElement
  <2> QED BY <2>1, <2>3, <1>1, <1>4
<1>6. p.tombstone_count + 1 <= MAX_SLOTS_PER_PAGE
  <2> DEFINE S == Tombs(p) \union {s}
  <2>1. IsFiniteSet(0 .. p.slot_count - 1) /\ Cardinality(0 .. p.slot_count - 1) = p.slot_count
    <3> DEFINE b == p.slot_count - 1
    <3>1. b \in Int /\ 0 \in Int /\ p.slot_count = (IF 0 > b THEN 0 ELSE b - 0 + 1)
      BY <1>1
    <3> HIDE DEF b
    <3>2. IsFiniteSet(0 .. b) /\ Cardinality(0 .. b) = IF 0 > b THEN 0 ELSE b - 0 + 1
      BY <3>1, FS_Interval
    <3> QED BY <3>1, <3>2 DEF b
  <2>2. S \in SUBSET (0 .. p.slot_count - 1)
    BY <1>1 DEF Tombs, Allocated
  <2> HIDE DEF S
  <2>3. Cardinality(S) <= p.slot_count
    BY <2>1, <2>2, FS_Subset
  <2> QED BY <2>3, <1>1, <1>5, MaxSlots DEF S
<1>7. U16(p.tombstone_count + 1) = p.tombstone_count + 1
  BY <1>1, <1>6, MaxSlots, U16Small
<1>8. q = [[p EXCEPT !.slots = [p.slots EXCEPT ![s] = e]]
              EXCEPT !.tombstone_count = p.tombstone_count + 1]
  <2>1. PICK c : c = p.tombstone_count + 1
    OBVIOUS
  <2>2. q = [p EXCEPT !.slots[s] = [offset |-> SLOT_TOMBSTONE, length |-> 0],
                      !.tombstone_count = c]
    BY <1>7, <2>1 DEF DeleteRecord
  <2> QED BY <2>1, <2>2, <1>2
<1>9. /\ q \in PageType
      /\ q.slot_count = p.slot_count /\ q.tombstone_count = p.tombstone_count + 1
      /\ q.free_space_ptr = p.free_space_ptr /\ q.page_lsn = p.page_lsn /\ q.mem = p.mem
      /\ q.slots = [p.slots EXCEPT ![s] = e]
  <2>1. p.tombstone_count + 1 \in 0 .. MAX_SLOTS_PER_PAGE
    BY <1>1, <1>6, MaxSlots
  <2>2. PICK c : c = p.tombstone_count + 1
    OBVIOUS
  <2>3. [p.slots EXCEPT ![s] = e] \in [SlotIds -> [offset : 0 .. PAGE_SIZE, length : 0 .. PAGE_SIZE]]
    BY <1>1, <1>3
  <2>4. PICK f : f = [p.slots EXCEPT ![s] = e]
    OBVIOUS
  <2> QED BY <2>1, <2>2, <2>3, <2>4, <1>0, <1>8 DEF PageType
<1>10. q.slots[s] = e /\ \A t \in SlotIds \ {s} : q.slots[t] = p.slots[t]
  BY <1>1, <1>9
<1>11. Allocated(q) = Allocated(p)
  BY <1>9 DEF Allocated
<1>12. Live(q) = Live(p) \ {s} /\ Tombs(q) = Tombs(p) \union {s}
  BY <1>1, <1>3, <1>10, <1>11 DEF Live, Tombs, IsTombstone, SLOT_TOMBSTONE
<1>13. \A t \in Live(q) : t \in Live(p) /\ q.slots[t] = p.slots[t] /\ End(q, t) = End(p, t)
  BY <1>10, <1>12, <1>0, PageFacts DEF End
<1>14. SlotDirStart(q) = SlotDirStart(p)
  BY <1>9 DEF SlotDirStart
<1>15. Layout(q)
  <2>1. \A t \in Live(q) :
          /\ q.slots[t].offset >= PAGE_HEADER_SIZE
          /\ q.slots[t].length >= 1
          /\ End(q, t) <= q.free_space_ptr
          /\ q.mem[q.slots[t].offset] = q.slots[t].length
    BY <1>9, <1>13 DEF Layout
  <2>2. \A t, u \in Live(q) :
          t # u => End(q, t) <= q.slots[u].offset \/ End(q, u) <= q.slots[t].offset
    BY <1>13 DEF Layout
  <2>3. /\ q.free_space_ptr <= SlotDirStart(q)
        /\ q.free_space_ptr >= PAGE_HEADER_SIZE \/ (q.free_space_ptr = 0 /\ q.slot_count = 0)
    BY <1>9, <1>14 DEF Layout
  <2>4. q.tombstone_count = Cardinality(Tombs(q))
    BY <1>5, <1>9, <1>12
  <2> QED BY <1>9, <2>1, <2>2, <2>3, <2>4 DEF Layout
<1>16. Content(q, s) = <<>>
  BY <1>12 DEF Content
<1>17. ASSUME NEW t \in SlotIds \ {s} PROVE Content(q, t) = Content(p, t)
  BY <1>9, <1>10, <1>12, ContentKept
<1> QED BY <1>1, <1>9, <1>11, <1>15, <1>16, <1>17 DEF Changed

\* update_record of a record of the same size writes within its bytes.
LEMMA UpdateChanges ==
  ASSUME NEW p, Layout(p), NEW s \in Live(p), NEW d \in Contents,
         p.slots[s].length = Len(d), NEW q, q = UpdateRecord(p, s, d)
  PROVE  /\ Changed(q, p, s, d)
         /\ q.free_space_ptr = p.free_space_ptr /\ q.slot_count = p.slot_count
<1>0. p \in PageType
  BY DEF Layout
<1>1. /\ p.mem \in [PAGE_HEADER_SIZE .. PAGE_SIZE - 1 -> Nat]
      /\ Live(p) \in SUBSET SlotIds /\ s \in Allocated(p)
  BY <1>0, PageFacts DEF Live
<1>2. PICK first : first = p.slots[s].offset + PREFIX_BYTES
  OBVIOUS
<1>3. PICK m : m = [i \in DOMAIN p.mem |->
                      IF i \in first .. first + Len(d) - 1 THEN d[i - first + 1] ELSE p.mem[i]]
  OBVIOUS
<1>4. /\ p.slots[s].offset \in Nat /\ Len(d) \in Nat /\ Len(d) >= 1
      /\ p.slots[s].offset >= PAGE_HEADER_SIZE /\ first \in Nat /\ first > p.slots[s].offset
      /\ first >= PAGE_HEADER_SIZE /\ first + Len(d) <= PAGE_SIZE
      /\ \A i \in 1 .. Len(d) : d[i] \in Nat
  <2> DEFINE o == p.slots[s].offset
  <2>1. /\ o \in Nat /\ Len(d) \in Nat /\ Len(d) >= 1 /\ o >= PAGE_HEADER_SIZE
        /\ o + PREFIX_BYTES + Len(d) <= p.free_space_ptr
        /\ p.free_space_ptr \in Nat /\ p.free_space_ptr <= PAGE_SIZE
    BY SlotFacts
  <2>2. first = o + PREFIX_BYTES
    BY <1>2
  <2>3. \A i \in 1 .. Len(d) : d[i] \in Nat
    BY DEF Contents
  <2> HIDE DEF o
  <2>4. first \in Nat /\ first > o /\ first >= PAGE_HEADER_SIZE /\ first + Len(d) <= PAGE_SIZE
    BY <2>1, <2>2, Sizes
  <2> QED BY <2>1, <2>3, <2>4 DEF o
<1>5. m \in [PAGE_HEADER_SIZE .. PAGE_SIZE - 1 -> Nat]
  <2>1. ASSUME NEW i \in PAGE_HEADER_SIZE .. PAGE_SIZE - 1 PROVE m[i] \in Nat
    <3>1. i \in first .. first + Len(d) - 1 => i - first + 1 \in 1 .. Len(d)
      BY <1>4, Sizes
    <3> QED BY <3>1, <1>1, <1>3, <1>4
  <2> QED BY <2>1, <1>1, <1>3
<1>6. q = [p EXCEPT !.mem = m]
  BY <1>2, <1>3 DEF UpdateRecord
<1>7. /\ q \in PageType /\ q.slot_count = p.slot_count
      /\ q.tombstone_count = p.tombstone_count /\ q.free_space_ptr = p.free_space_ptr
      /\ q.page_lsn = p.page_lsn /\ q.slots = p.slots /\ q.mem = m
  BY <1>0, <1>5, <1>6 DEF PageType
<1>8. /\ Allocated(q) = Allocated(p) /\ SlotDirStart(q) = SlotDirStart(p)
      /\ \A t : End(q, t) = End(p, t)
  BY <1>7 DEF Allocated, SlotDirStart, End
<1>9. Live(q) = Live(p) /\ Tombs(q) = Tombs(p)
  BY <1>7, <1>8 DEF Live, Tombs, IsTombstone
<1>10. \A i \in PAGE_HEADER_SIZE .. PAGE_SIZE - 1 :
         i \notin first .. first + Len(d) - 1 => m[i] = p.mem[i]
  BY <1>1, <1>3
<1>11. ASSUME NEW t \in Live(p)
       PROVE  m[p.slots[t].offset] = p.mem[p.slots[t].offset]
  <2> DEFINE o == p.slots[t].offset
             n == p.slots[t].length
             b == p.slots[s].offset
  <2>1. /\ o \in Nat /\ n \in Nat /\ n >= 1 /\ o >= PAGE_HEADER_SIZE
        /\ o \in PAGE_HEADER_SIZE .. PAGE_SIZE - 1
    BY SlotFacts
  <2>2. t = s \/ b + PREFIX_BYTES + Len(d) <= o \/ o + PREFIX_BYTES + n <= b
    BY DEF Layout, End
  <2>3. t = s => o = b
    OBVIOUS
  <2>4. b \in Nat /\ Len(d) \in Nat /\ first = b + PREFIX_BYTES
    BY <1>2, <1>4
  <2> HIDE DEF o, n, b
  <2>5. o \notin first .. first + Len(d) - 1
    BY <2>1, <2>2, <2>3, <2>4, Sizes
  <2> QED BY <2>1, <2>5, <1>10 DEF o
<1>12. ASSUME NEW t \in Live(p), t # s, NEW i \in 1 .. p.slots[t].length
       PROVE  m[p.slots[t].offset + PREFIX_BYTES + i - 1]
                = p.mem[p.slots[t].offset + PREFIX_BYTES + i - 1]
  <2> DEFINE o == p.slots[t].offset
             n == p.slots[t].length
             b == p.slots[s].offset
             j == o + PREFIX_BYTES + i - 1
  <2>1. /\ o \in Nat /\ n \in Nat /\ n >= 1 /\ o >= PAGE_HEADER_SIZE
        /\ j \in PAGE_HEADER_SIZE .. PAGE_SIZE - 1
    BY SlotFacts
  <2>2. b + PREFIX_BYTES + Len(d) <= o \/ o + PREFIX_BYTES + n <= b
    BY <1>12 DEF Layout, End
  <2>3. i \in 1 .. n
    OBVIOUS
  <2>4. b \in Nat /\ Len(d) \in Nat /\ first = b + PREFIX_BYTES
    BY <1>2, <1>4
  <2> HIDE DEF o, n, b
  <2>5. j \notin first .. first + Len(d) - 1
    BY <2>1, <2>2, <2>3, <2>4, Sizes
  <2>6. m[j] = p.mem[j]
    <3> HIDE DEF j
    <3> QED BY <2>1, <2>5, <1>10
  <2> QED BY <2>6 DEF o
<1>13. Layout(q)
  <2>1. \A t \in Live(q) :
          /\ q.slots[t].offset >= PAGE_HEADER_SIZE
          /\ q.slots[t].length >= 1
          /\ End(q, t) <= q.free_space_ptr
          /\ q.mem[q.slots[t].offset] = q.slots[t].length
    BY <1>7, <1>8, <1>9, <1>11 DEF Layout
  <2>2. \A t, u \in Live(q) :
          t # u => End(q, t) <= q.slots[u].offset \/ End(q, u) <= q.slots[t].offset
    BY <1>7, <1>8, <1>9 DEF Layout
  <2> QED BY <1>7, <1>8, <1>9, <2>1, <2>2 DEF Layout
<1>14. Content(q, s) = d
  <2>1. Content(q, s) = [i \in 1 .. Len(d) |-> m[p.slots[s].offset + PREFIX_BYTES + i - 1]]
    BY <1>7, <1>9 DEF Content
  <2>2. ASSUME NEW i \in 1 .. Len(d)
        PROVE  m[p.slots[s].offset + PREFIX_BYTES + i - 1] = d[i]
    <3> DEFINE j == first + i - 1
    <3>1. /\ j \in PAGE_HEADER_SIZE .. PAGE_SIZE - 1
          /\ j \in first .. first + Len(d) - 1 /\ j - first + 1 = i
      BY <1>4, Sizes
    <3>2. m[j] = d[j - first + 1]
      <4> HIDE DEF j
      <4> QED BY <3>1, <1>1, <1>3
    <3> QED BY <3>1, <3>2, <1>2
  <2>3. d = [i \in 1 .. Len(d) |-> d[i]]
    BY DEF Contents
  <2> QED BY <2>1, <2>2, <2>3
<1>15. ASSUME NEW t \in SlotIds \ {s} PROVE Content(q, t) = Content(p, t)
  BY <1>7, <1>9, <1>12, ContentKept
<1> QED BY <1>1, <1>7, <1>8, <1>13, <1>14, <1>15 DEF Changed

-----------------------------------------------------------------------------
(* compact: the records are written again, slot by slot.                   *)

\* The start of the loop of compact, and its turn for slot s.
EmitNone(p) ==
  [p EXCEPT !.slot_count = 0, !.tombstone_count = 0, !.free_space_ptr = PAGE_HEADER_SIZE]

EmitSlot(p, e, s) ==
  LET q == [e EXCEPT !.slot_count = U16(@ + 1)]
      payload == [i \in 1 .. p.slots[s].length |->
                     p.mem[p.slots[s].offset + PREFIX_BYTES + i - 1]]
  IN  IF IsTombstone(p, s)
      THEN [q EXCEPT !.slots[s] = [offset |-> SLOT_TOMBSTONE, length |-> 0],
                     !.tombstone_count = U16(@ + 1)]
      ELSE WriteAt(q, s, q.free_space_ptr, payload)

IsEmit(f, p, n) ==
  f = [k \in 0 .. n |-> IF k = 0 THEN EmitNone(p) ELSE EmitSlot(p, f[k - 1], k - 1)]

\* The recursion of compact has a solution.
LEMMA EmitExists ==
  ASSUME NEW p, NEW n \in Nat
  PROVE  \E f : IsEmit(f, p, n)
<1> DEFINE T == {k \in 0 .. n : ~\E f : IsEmit(f, p, k)}
<1>1. SUFFICES ASSUME T # {} PROVE FALSE
  OBVIOUS
<1>2. T \in SUBSET Nat
  OBVIOUS
<1>3. PICK k \in T : \A y \in T : k <= y
  <2> HIDE DEF T
  <2> QED BY <1>1, <1>2, LeastNat
<1>4. CASE k = 0
  <2>1. IsEmit([m \in 0 .. 0 |-> EmitNone(p)], p, 0)
    BY DEF IsEmit
  <2> QED BY <2>1, <1>3, <1>4
<1>5. CASE k # 0
  <2>1. k - 1 \in 0 .. n /\ k - 1 \notin T
    BY <1>3, <1>5
  <2>2. PICK f : IsEmit(f, p, k - 1)
    BY <2>1
  <2> DEFINE g == [m \in 0 .. k |-> IF m = k THEN EmitSlot(p, f[k - 1], k - 1) ELSE f[m]]
  <2>3. ASSUME NEW m \in 0 .. k
        PROVE  g[m] = IF m = 0 THEN EmitNone(p) ELSE EmitSlot(p, g[m - 1], m - 1)
    <3>1. CASE m = 0
      BY <3>1, <1>5, <2>2 DEF IsEmit
    <3>2. CASE m # 0
      <4>1. m - 1 \in 0 .. k /\ m - 1 # k /\ m - 1 \in 0 .. k - 1
        BY <3>2, <1>3
      <4>2. g[m - 1] = f[m - 1]
        BY <4>1
      <4>3. CASE m = k
        BY <4>2, <4>3, <3>2
      <4>4. CASE m # k
        <5>1. m \in 0 .. k - 1
          BY <4>4, <1>3
        <5>2. f[m] = EmitSlot(p, f[m - 1], m - 1)
          BY <5>1, <2>2, <3>2 DEF IsEmit
        <5> QED BY <5>2, <4>2, <4>4, <3>2
      <4> QED BY <4>3, <4>4
    <3> QED BY <3>1, <3>2
  <2>4. IsEmit(g, p, k)
    BY <2>3 DEF IsEmit
  <2> QED BY <2>4, <1>3
<1> QED BY <1>4, <1>5

\* compact is a solution of its recursion.
LEMMA CompactIs ==
  ASSUME NEW p, p.slot_count \in Nat
  PROVE  \E f : IsEmit(f, p, p.slot_count) /\ Compact(p) = f[p.slot_count]
<1> DEFINE f == CHOOSE g : IsEmit(g, p, p.slot_count)
<1>1. IsEmit(f, p, p.slot_count)
  BY EmitExists
<1>2. Compact(p) = f[p.slot_count]
  BY DEF Compact, IsEmit, EmitNone, EmitSlot
<1> QED BY <1>1, <1>2

\* The bytes of the records in the first n slots.
Bytes(p, s) == p.slots[s].offset .. End(p, s) - 1

Covered(p, n) ==
  {i \in PAGE_HEADER_SIZE .. p.free_space_ptr - 1 : \E s \in Live(p) : s < n /\ i \in Bytes(p, s)}

\* The bytes of the records of the first n slots, counted: no byte counts twice.
LEMMA CoveredFacts ==
  ASSUME NEW p, Layout(p), p.free_space_ptr >= PAGE_HEADER_SIZE, NEW n \in Nat
  PROVE  /\ IsFiniteSet(Covered(p, n)) /\ Cardinality(Covered(p, n)) \in Nat
         /\ PAGE_HEADER_SIZE + Cardinality(Covered(p, n)) <= p.free_space_ptr
         /\ n = 0 => Cardinality(Covered(p, n)) = 0
         /\ n \notin Live(p) => Covered(p, n + 1) = Covered(p, n)
         /\ n \in Live(p) => Cardinality(Covered(p, n + 1))
                               = Cardinality(Covered(p, n)) + PREFIX_BYTES + p.slots[n].length
<1>0. p \in PageType
  BY DEF Layout
<1>1. p.free_space_ptr \in Nat /\ Live(p) \in SUBSET SlotIds /\ \A s \in SlotIds : s \in Nat
  BY <1>0, PageFacts, MaxSlots DEF SlotIds
<1>2. PICK b : b = p.free_space_ptr - 1
  OBVIOUS
<1>3. /\ PAGE_HEADER_SIZE \in Int /\ b \in Int
      /\ (IF PAGE_HEADER_SIZE > b THEN 0 ELSE b - PAGE_HEADER_SIZE + 1)
           = p.free_space_ptr - PAGE_HEADER_SIZE
  BY <1>1, <1>2, Sizes
<1>4. /\ IsFiniteSet(PAGE_HEADER_SIZE .. b)
      /\ Cardinality(PAGE_HEADER_SIZE .. b) = p.free_space_ptr - PAGE_HEADER_SIZE
  BY <1>3, FS_Interval
<1>5. \A m : Covered(p, m) \in SUBSET (PAGE_HEADER_SIZE .. b)
  BY <1>2 DEF Covered
<1>6. ASSUME NEW m
      PROVE  /\ IsFiniteSet(Covered(p, m)) /\ Cardinality(Covered(p, m)) \in Nat
             /\ Cardinality(Covered(p, m)) <= p.free_space_ptr - PAGE_HEADER_SIZE
  <2>1. PICK S : S = Covered(p, m)
    OBVIOUS
  <2>2. S \in SUBSET (PAGE_HEADER_SIZE .. b)
    BY <2>1, <1>5
  <2>3. IsFiniteSet(S) /\ Cardinality(S) <= Cardinality(PAGE_HEADER_SIZE .. b)
    BY <2>2, <1>4, FS_Subset
  <2> QED BY <2>1, <2>3, <1>4, FS_CardinalityType
<1>7. n = 0 => Cardinality(Covered(p, n)) = 0
  <2>1. n = 0 => Covered(p, n) = {}
    BY <1>1 DEF Covered
  <2> QED BY <2>1, FS_EmptySet
<1>8. n \notin Live(p) => Covered(p, n + 1) = Covered(p, n)
  BY <1>1 DEF Covered
<1>9. ASSUME n \in Live(p)
      PROVE  Cardinality(Covered(p, n + 1))
               = Cardinality(Covered(p, n)) + PREFIX_BYTES + p.slots[n].length
  <2> DEFINE o == p.slots[n].offset
             k == p.slots[n].length
  <2>0. PICK e : e = End(p, n) - 1
    OBVIOUS
  <2>1. /\ o \in Nat /\ k \in Nat /\ k >= 1 /\ o >= PAGE_HEADER_SIZE
        /\ o + PREFIX_BYTES + k <= p.free_space_ptr
    BY <1>9, SlotFacts
  <2>2. Bytes(p, n) = o .. e
    BY <2>0 DEF Bytes
  <2>14. End(p, n) = o + PREFIX_BYTES + k
    BY DEF End
  <2> HIDE DEF o, k
  <2>3. /\ e \in Int /\ e = o + PREFIX_BYTES + k - 1
        /\ (IF o > e THEN 0 ELSE e - o + 1) = PREFIX_BYTES + k
    BY <2>0, <2>1, <2>14, Sizes
  <2>4. IsFiniteSet(o .. e) /\ Cardinality(o .. e) = PREFIX_BYTES + k
    <3>1. o \in Int /\ e \in Int
      BY <2>1, <2>3
    <3>2. IsFiniteSet(o .. e) /\ Cardinality(o .. e) = IF o > e THEN 0 ELSE e - o + 1
      BY <3>1, FS_Interval
    <3> QED BY <2>3, <3>2
  <2>5. \A i \in o .. e : i \in PAGE_HEADER_SIZE .. p.free_space_ptr - 1
    BY <2>1, <2>3, <1>1, Sizes
  <2>6. Covered(p, n + 1) = Covered(p, n) \cup (o .. e)
    <3>1. \A s \in Live(p) : s < n + 1 <=> s < n \/ s = n
      BY <1>1
    <3>2. \A i \in PAGE_HEADER_SIZE .. p.free_space_ptr - 1 :
            (\E s \in Live(p) : s < n + 1 /\ i \in Bytes(p, s))
              <=> (\E s \in Live(p) : s < n /\ i \in Bytes(p, s)) \/ i \in o .. e
      BY <3>1, <2>2, <1>9
    <3> QED BY <3>2, <2>5 DEF Covered
  <2>7. Covered(p, n) \cap (o .. e) = {}
    <3>1. SUFFICES ASSUME NEW i \in o .. e, NEW s \in Live(p), s < n, i \in Bytes(p, s)
                   PROVE  FALSE
      BY DEF Covered
    <3>2. s # n
      BY <3>1, <1>1
    <3>3. End(p, s) <= o \/ End(p, n) <= p.slots[s].offset
      BY <3>2, <1>9 DEF Layout, o
    <3>4. /\ p.slots[s].offset \in Nat /\ p.slots[s].length \in Nat
      BY SlotFacts
    <3>5. End(p, n) = o + PREFIX_BYTES + k
      BY DEF End, o, k
    <3>6. End(p, s) \in Int
      BY <3>4, Sizes DEF End
    <3>7. i \in Int /\ o <= i /\ i <= e /\ p.slots[s].offset <= i /\ i <= End(p, s) - 1
      BY <3>1, <3>4, <3>6, <2>1, <2>3 DEF Bytes
    <3> QED BY <3>3, <3>4, <3>5, <3>6, <3>7, <2>1, <2>3, Sizes
  <2>8. PICK S : S = Covered(p, n)
    OBVIOUS
  <2>9. PICK B : B = o .. e
    OBVIOUS
  <2>10. Cardinality(S \cup B) = Cardinality(S) + Cardinality(B) - Cardinality(S \cap B)
    BY <2>4, <2>8, <2>9, <1>6, FS_Union
  <2>11. Cardinality(S \cap B) = 0
    BY <2>7, <2>8, <2>9, FS_EmptySet
  <2>12. Cardinality(S) \in Nat /\ Cardinality(B) = PREFIX_BYTES + k
    BY <2>4, <2>8, <2>9, <1>6
  <2>13. Cardinality(S \cup B) = Cardinality(S) + PREFIX_BYTES + k
    BY <2>1, <2>10, <2>11, <2>12, Sizes
  <2> QED BY <2>6, <2>8, <2>9, <2>13 DEF k
<1> QED BY <1>1, <1>6, <1>7, <1>8, <1>9, Sizes

Buried(q, e, s) ==
  q = [[e EXCEPT !.slot_count = U16(@ + 1)] EXCEPT
         !.slots[s] = [offset |-> SLOT_TOMBSTONE, length |-> 0],
         !.tombstone_count = U16(@ + 1)]

\* A tombstone copied by compact takes a slot and no bytes.
LEMMA TombstoneChanges ==
  ASSUME NEW e, Layout(e), NEW s \in SlotIds, s = e.slot_count,
         e.free_space_ptr >= PAGE_HEADER_SIZE, e.free_space_ptr <= DirAfter(e, s),
         NEW q, Buried(q, e, s)
  PROVE  /\ Changed(q, e, s, <<>>)
         /\ q.free_space_ptr = e.free_space_ptr /\ q.slot_count = s + 1
<1>0. e \in PageType
  BY DEF Layout
<1>1. /\ s \in Nat /\ s < MAX_SLOTS_PER_PAGE
      /\ e.tombstone_count \in Nat /\ e.tombstone_count < 65536
      /\ e.slots \in [SlotIds -> [offset : 0 .. PAGE_SIZE, length : 0 .. PAGE_SIZE]]
      /\ Allocated(e) \in SUBSET SlotIds /\ Live(e) \in SUBSET SlotIds
      /\ e.free_space_ptr \in Nat /\ SlotDirStart(e) \in Int
  BY <1>0, PageFacts, MaxSlots DEF SlotIds
<1>2. PICK x : x = [offset |-> SLOT_TOMBSTONE, length |-> 0]
  OBVIOUS
<1>3. x \in [offset : 0 .. PAGE_SIZE, length : 0 .. PAGE_SIZE] /\ x.offset = PAGE_SIZE
  BY <1>2, Sizes DEF SLOT_TOMBSTONE
<1>4. /\ IsFiniteSet(Tombs(e)) /\ e.tombstone_count = Cardinality(Tombs(e))
      /\ Cardinality(Tombs(e)) <= e.slot_count
  BY <1>1, TombsFinite DEF Layout
<1>5. /\ s \notin Allocated(e) /\ s \notin Tombs(e) /\ s \notin Live(e)
  BY <1>1 DEF Allocated, Tombs, Live
<1>6. Cardinality(Tombs(e) \cup {s}) = e.tombstone_count + 1
  <2>1. PICK S : S = Tombs(e)
    OBVIOUS
  <2>2. IsFiniteSet(S)
    BY <2>1, <1>4
  <2>3. Cardinality(S \cup {s}) = IF s \in S THEN Cardinality(S) ELSE Cardinality(S) + 1
    BY <2>2, FS_AddElement
  <2> QED BY <2>1, <2>3, <1>4, <1>5
<1>7. /\ U16(e.tombstone_count + 1) = e.tombstone_count + 1
      /\ U16(e.slot_count + 1) = s + 1
      /\ e.tombstone_count + 1 \in 0 .. MAX_SLOTS_PER_PAGE /\ s + 1 \in 0 .. MAX_SLOTS_PER_PAGE
  BY <1>1, <1>4, MaxSlots, U16Small
<1>8. PICK f : f = [e.slots EXCEPT ![s] = x]
  OBVIOUS
<1>9. f \in [SlotIds -> [offset : 0 .. PAGE_SIZE, length : 0 .. PAGE_SIZE]]
  BY <1>1, <1>3, <1>8
<1>10. /\ q \in PageType
       /\ q.slot_count = s + 1 /\ q.tombstone_count = e.tombstone_count + 1
       /\ q.free_space_ptr = e.free_space_ptr /\ q.page_lsn = e.page_lsn /\ q.mem = e.mem
       /\ q.slots = f
  <2>0. /\ e.free_space_ptr \in 0 .. PAGE_SIZE /\ e.page_lsn \in 0 .. MaxLsn
        /\ e.mem \in [PAGE_HEADER_SIZE .. PAGE_SIZE - 1 -> Nat]
    BY <1>0 DEF PageType
  <2>1. PICK c : c = s + 1
    OBVIOUS
  <2>2. PICK m : m = e.tombstone_count + 1
    OBVIOUS
  <2>3. e = [slot_count |-> e.slot_count, tombstone_count |-> e.tombstone_count,
             free_space_ptr |-> e.free_space_ptr, page_lsn |-> e.page_lsn,
             slots |-> e.slots, mem |-> e.mem]
    BY <1>0 DEF PageType
  <2>4. PICK a : a = [e EXCEPT !.slot_count = c]
    OBVIOUS
  <2>5. a = [slot_count |-> c, tombstone_count |-> e.tombstone_count,
             free_space_ptr |-> e.free_space_ptr, page_lsn |-> e.page_lsn,
             slots |-> e.slots, mem |-> e.mem]
    BY <2>3, <2>4
  <2>6. q = [a EXCEPT !.slots[s] = x, !.tombstone_count = U16(a.tombstone_count + 1)]
    BY <1>2, <1>7, <2>1, <2>4 DEF Buried
  <2>7. q = [slot_count |-> c, tombstone_count |-> m,
             free_space_ptr |-> e.free_space_ptr, page_lsn |-> e.page_lsn,
             slots |-> f, mem |-> e.mem]
    BY <2>2, <2>5, <2>6, <1>7, <1>8
  <2>8. /\ c \in 0 .. MAX_SLOTS_PER_PAGE /\ m \in 0 .. MAX_SLOTS_PER_PAGE
    BY <2>1, <2>2, <1>7
  <2> QED BY <2>0, <2>1, <2>2, <2>7, <2>8, <1>9 DEF PageType
<1>11. q.slots[s] = x /\ \A t \in SlotIds \ {s} : q.slots[t] = e.slots[t]
  BY <1>1, <1>8, <1>10
<1>12. Allocated(q) = Allocated(e) \union {s}
  BY <1>1, <1>10 DEF Allocated
<1>13. Live(q) = Live(e) /\ Tombs(q) = Tombs(e) \cup {s}
  BY <1>1, <1>3, <1>5, <1>11, <1>12 DEF Live, Tombs, IsTombstone, SLOT_TOMBSTONE
<1>14. \A t \in Live(q) : t \in Live(e) /\ q.slots[t] = e.slots[t] /\ End(q, t) = End(e, t)
  BY <1>1, <1>5, <1>11, <1>13 DEF End
<1>15. SlotDirStart(q) = DirAfter(e, s)
  <2>1. (s + 1) * SLOT_BYTES = s * SLOT_BYTES + SLOT_BYTES /\ s * SLOT_BYTES \in Nat
    BY <1>1, Products
  <2> QED BY <2>1, <1>10, Sizes DEF SlotDirStart, DirAfter
<1>16. Layout(q)
  <2>1. \A t \in Live(q) :
          /\ q.slots[t].offset >= PAGE_HEADER_SIZE
          /\ q.slots[t].length >= 1
          /\ End(q, t) <= q.free_space_ptr
          /\ q.mem[q.slots[t].offset] = q.slots[t].length
    BY <1>10, <1>14 DEF Layout
  <2>2. \A t, u \in Live(q) :
          t # u => End(q, t) <= q.slots[u].offset \/ End(q, u) <= q.slots[t].offset
    BY <1>14 DEF Layout
  <2>3. q.free_space_ptr <= SlotDirStart(q) /\ q.free_space_ptr >= PAGE_HEADER_SIZE
    BY <1>10, <1>15
  <2>4. q.tombstone_count = Cardinality(Tombs(q))
    BY <1>6, <1>10, <1>13
  <2> QED BY <1>10, <2>1, <2>2, <2>3, <2>4 DEF Layout
<1>17. Content(q, s) = <<>>
  BY <1>5, <1>13 DEF Content
<1>18. ASSUME NEW t \in SlotIds \ {s} PROVE Content(q, t) = Content(e, t)
  BY <1>10, <1>11, <1>13, ContentKept
<1> QED BY <1>10, <1>12, <1>16, <1>17, <1>18 DEF Changed

\* The page after n turns of the loop.
Emitted(p, e, n) ==
  /\ Layout(e)
  /\ e.slot_count = n
  /\ e.page_lsn = p.page_lsn
  /\ e.free_space_ptr = PAGE_HEADER_SIZE + Cardinality(Covered(p, n))
  /\ \A s \in 0 .. n - 1 : Content(e, s) = Content(p, s)

\* The page that compact starts from is an empty one.
LEMMA EmitEmpty ==
  ASSUME NEW p, Layout(p)
  PROVE  /\ Layout(EmitNone(p)) /\ Live(EmitNone(p)) = {} /\ EmitNone(p).slot_count = 0
         /\ EmitNone(p).free_space_ptr = PAGE_HEADER_SIZE /\ EmitNone(p).page_lsn = p.page_lsn
<1> DEFINE e == EmitNone(p)
<1>0. p \in PageType
  BY DEF Layout
<1>1. 0 \in 0 .. MAX_SLOTS_PER_PAGE /\ PAGE_HEADER_SIZE \in 0 .. PAGE_SIZE
  BY MaxSlots, Sizes
<1>2. /\ e \in PageType /\ e.slot_count = 0 /\ e.tombstone_count = 0
      /\ e.free_space_ptr = PAGE_HEADER_SIZE /\ e.page_lsn = p.page_lsn
  BY <1>0, <1>1 DEF EmitNone, PageType
<1> HIDE DEF e
<1>3. Allocated(e) = {} /\ Tombs(e) = {} /\ Live(e) = {}
  BY <1>2 DEF Allocated, Tombs, Live
<1>4. SlotDirStart(e) = PAGE_SIZE
  <2>1. 0 * SLOT_BYTES = 0
    BY Sizes
  <2> QED BY <2>1, <1>2, Sizes DEF SlotDirStart
<1>5. Layout(e)
  BY <1>2, <1>3, <1>4, Sizes, FS_EmptySet DEF Layout
<1> QED BY <1>2, <1>3, <1>5 DEF e

\* The page after no turn of the loop.
LEMMA EmitStarts ==
  ASSUME NEW p, Layout(p), p.free_space_ptr >= PAGE_HEADER_SIZE
  PROVE  Emitted(p, EmitNone(p), 0)
<1>1. Cardinality(Covered(p, 0)) = 0
  BY CoveredFacts
<1> QED BY <1>1, EmitEmpty, Sizes DEF Emitted

\* Compact copies one slot: the records so far take the bytes they took before.
LEMMA EmitContinues ==
  ASSUME NEW p, Layout(p), p.free_space_ptr >= PAGE_HEADER_SIZE,
         \A s \in SlotIds : Content(p, s) \in Contents,
         NEW n \in Allocated(p), NEW e, Emitted(p, e, n)
  PROVE  Emitted(p, EmitSlot(p, e, n), n + 1)
<1> DEFINE q == EmitSlot(p, e, n)
<1>0. p \in PageType /\ e \in PageType /\ Layout(e)
  BY DEF Layout, Emitted
<1>1. /\ n \in Nat /\ n < p.slot_count /\ p.slot_count \in Nat /\ n \in SlotIds
      /\ p.free_space_ptr \in Nat /\ SlotDirStart(p) \in Int
      /\ p.free_space_ptr <= SlotDirStart(p) /\ SlotDirStart(e) \in Int
  BY <1>0, PageFacts, SMTT(30) DEF Allocated, Layout
<1>2. /\ e.slot_count = n /\ e.page_lsn = p.page_lsn
      /\ e.free_space_ptr = PAGE_HEADER_SIZE + Cardinality(Covered(p, n))
      /\ \A s \in 0 .. n - 1 : Content(e, s) = Content(p, s)
  BY DEF Emitted
<1>3. /\ Cardinality(Covered(p, n)) \in Nat /\ Cardinality(Covered(p, n + 1)) \in Nat
      /\ PAGE_HEADER_SIZE + Cardinality(Covered(p, n)) <= p.free_space_ptr
      /\ PAGE_HEADER_SIZE + Cardinality(Covered(p, n + 1)) <= p.free_space_ptr
  BY <1>1, CoveredFacts
<1>4. DirAfter(e, n) \in Int /\ p.free_space_ptr <= DirAfter(e, n)
  <2>1. (n + 1) * SLOT_BYTES = n * SLOT_BYTES + SLOT_BYTES
    BY <1>1, Products
  <2>2. (n + 1) * SLOT_BYTES <= p.slot_count * SLOT_BYTES
    BY <1>1, Sizes
  <2>3. n * SLOT_BYTES \in Nat /\ p.slot_count * SLOT_BYTES \in Nat
    BY <1>1, Products
  <2>4. /\ SlotDirStart(p) = PAGE_SIZE - p.slot_count * SLOT_BYTES
        /\ SlotDirStart(e) = PAGE_SIZE - n * SLOT_BYTES
        /\ DirAfter(e, n) = SlotDirStart(e) - SLOT_BYTES
    BY <1>2 DEF SlotDirStart, DirAfter
  <2> QED BY <2>1, <2>2, <2>3, <2>4, <1>1, Sizes
<1>5. e.free_space_ptr >= PAGE_HEADER_SIZE /\ e.free_space_ptr \in Nat
  BY <1>2, <1>3, Sizes
<1>6. Allocated(e) = 0 .. n - 1 /\ n \notin Live(e)
  BY <1>1, <1>2 DEF Allocated, Live
<1>7. CASE IsTombstone(p, n)
  <2>1. n \notin Live(p)
    BY <1>7 DEF Live
  <2>2. Covered(p, n + 1) = Covered(p, n) /\ Content(p, n) = <<>>
    BY <1>1, <2>1, CoveredFacts DEF Content
  <2>3. Buried(q, e, n)
    BY <1>7 DEF EmitSlot, Buried
  <2>4. e.free_space_ptr <= DirAfter(e, n)
    BY <1>1, <1>2, <1>3, <1>4, <1>5
  <2> HIDE DEF q
  <2>5. /\ Changed(q, e, n, <<>>)
        /\ q.free_space_ptr = e.free_space_ptr /\ q.slot_count = n + 1
    BY <1>0, <1>1, <1>2, <1>5, <2>3, <2>4, TombstoneChanges
  <2>6. ASSUME NEW s \in 0 .. (n + 1) - 1 PROVE Content(q, s) = Content(p, s)
    <3>1. s \in SlotIds /\ (s = n \/ s \in 0 .. n - 1)
      BY <1>1, MaxSlots DEF SlotIds
    <3> QED BY <3>1, <2>2, <2>5, <1>1, <1>2 DEF Changed
  <2>7. Emitted(p, q, n + 1)
    BY <1>2, <2>2, <2>5, <2>6 DEF Emitted, Changed
  <2> QED BY <2>7 DEF q
<1>8. CASE ~IsTombstone(p, n)
  <2>0. PICK d : d = Content(p, n)
    OBVIOUS
  <2>1. n \in Live(p)
    BY <1>8 DEF Live
  <2>2. /\ d \in Contents /\ d # <<>> /\ Len(d) = p.slots[n].length
    BY <1>1, <2>0, <2>1, ReadIs
  <2>3. Cardinality(Covered(p, n + 1)) = Cardinality(Covered(p, n)) + PREFIX_BYTES + p.slots[n].length
    BY <1>1, <2>1, CoveredFacts
  <2>4. Start(e) = e.free_space_ptr
    BY <1>5, Sizes DEF Start
  <2>5. q = RedoInsert(e, n, d)
    <3>1. [e EXCEPT !.slot_count = U16(@ + 1)] = [e EXCEPT !.slot_count = U16(n + 1)]
      BY <1>2
    <3>2. PICK a : a = [e EXCEPT !.slot_count = U16(n + 1)]
      OBVIOUS
    <3>3. a.free_space_ptr = e.free_space_ptr
      BY <1>0, <3>2 DEF PageType
    <3>4. q = WriteAt(a, n, a.free_space_ptr, d)
      BY <1>8, <2>0, <2>1, <3>1, <3>2 DEF EmitSlot, Content
    <3>5. RedoInsert(e, n, d) = WriteAt(a, n, Start(e), d)
      BY <1>1, <1>2, <3>2 DEF RedoInsert, Start
    <3> QED BY <2>4, <3>3, <3>4, <3>5
  <2> HIDE DEF q
  <2>6. Start(e) + PREFIX_BYTES + Len(d) = PAGE_HEADER_SIZE + Cardinality(Covered(p, n + 1))
    <3>1. PICK c : c = Cardinality(Covered(p, n))
      OBVIOUS
    <3>2. Len(d) \in Nat
      BY <2>2 DEF Contents
    <3> QED BY <3>1, <3>2, <2>2, <2>3, <2>4, <1>2, <1>3, Sizes
  <2>7. Start(e) + PREFIX_BYTES + Len(d) <= DirAfter(e, n)
    BY <2>6, <1>1, <1>3, <1>4, Sizes
  <2>8. Placed(q, e, n, d)
    BY <1>0, <1>1, <1>2, <1>6, <2>2, <2>5, <2>7, RedoInsertPlaces
  <2>9. Changed(q, e, n, d)
    BY <1>0, <1>1, <1>2, <1>6, <2>2, <2>7, <2>8, InsertChanges
  <2>10. q.free_space_ptr = Start(e) + PREFIX_BYTES + Len(d) /\ q.slot_count = n + 1
    BY <1>2, <2>8 DEF Placed
  <2>11. ASSUME NEW s \in 0 .. (n + 1) - 1 PROVE Content(q, s) = Content(p, s)
    <3>1. s \in SlotIds /\ (s = n \/ s \in 0 .. n - 1)
      BY <1>1, MaxSlots DEF SlotIds
    <3> QED BY <3>1, <2>0, <2>9, <1>2 DEF Changed
  <2>12. Emitted(p, q, n + 1)
    BY <1>2, <2>6, <2>9, <2>10, <2>11 DEF Emitted, Changed
  <2> QED BY <2>12 DEF q
<1> QED BY <1>7, <1>8

\* compact keeps every record and takes no more space than before.
LEMMA CompactKeeps ==
  ASSUME NEW p, Layout(p), p.free_space_ptr >= PAGE_HEADER_SIZE,
         \A s \in SlotIds : Content(p, s) \in Contents, NEW q, q = Compact(p)
  PROVE  /\ Layout(q)
         /\ \A s \in SlotIds : Content(q, s) = Content(p, s)
         /\ q.slot_count = p.slot_count /\ q.page_lsn = p.page_lsn
         /\ q.free_space_ptr >= PAGE_HEADER_SIZE /\ q.free_space_ptr <= p.free_space_ptr
<1>0. p \in PageType
  BY DEF Layout
<1>1. p.slot_count \in Nat /\ Allocated(p) \in SUBSET SlotIds
  BY <1>0, PageFacts
<1>2. PICK f : IsEmit(f, p, p.slot_count) /\ Compact(p) = f[p.slot_count]
  BY <1>1, CompactIs
<1>3. ASSUME NEW n \in 0 .. p.slot_count
      PROVE  Emitted(p, f[n], n)
  <2> DEFINE T == {k \in 0 .. p.slot_count : ~Emitted(p, f[k], k)}
  <2>1. SUFFICES ASSUME T # {} PROVE FALSE
    OBVIOUS
  <2>2. T \in SUBSET Nat
    BY <1>1
  <2>3. PICK k \in T : \A y \in T : k <= y
    <3> HIDE DEF T
    <3> QED BY <2>1, <2>2, LeastNat
  <2>4. CASE k = 0
    <3>1. f[0] = EmitNone(p)
      BY <1>1, <1>2 DEF IsEmit
    <3> QED BY <3>1, <2>3, <2>4, EmitStarts
  <2>5. CASE k # 0
    <3>1. /\ k - 1 \in 0 .. p.slot_count /\ k - 1 \notin T /\ k \in 0 .. p.slot_count
          /\ k - 1 \in Allocated(p) /\ (k - 1) + 1 = k
      BY <1>1, <2>3, <2>5 DEF Allocated
    <3>2. f[k] = EmitSlot(p, f[k - 1], k - 1)
      BY <1>1, <1>2, <2>5, <3>1 DEF IsEmit
    <3>3. Emitted(p, f[k - 1], k - 1)
      BY <3>1
    <3>4. PICK m : m = k - 1
      OBVIOUS
    <3>5. Emitted(p, EmitSlot(p, f[m], m), m + 1)
      BY <3>1, <3>3, <3>4, EmitContinues
    <3> QED BY <3>1, <3>2, <3>4, <3>5, <2>3
  <2> QED BY <2>4, <2>5
<1>4. Emitted(p, q, p.slot_count)
  BY <1>1, <1>2, <1>3
<1>5. /\ Cardinality(Covered(p, p.slot_count)) \in Nat
      /\ PAGE_HEADER_SIZE + Cardinality(Covered(p, p.slot_count)) <= p.free_space_ptr
  BY <1>1, CoveredFacts
<1>6. ASSUME NEW s \in SlotIds PROVE Content(q, s) = Content(p, s)
  <2>1. s \in 0 .. p.slot_count - 1 \/ s \notin 0 .. p.slot_count - 1
    OBVIOUS
  <2>2. s \notin 0 .. p.slot_count - 1 => s \notin Live(p) /\ s \notin Live(q)
    BY <1>4 DEF Live, Allocated, Emitted
  <2> QED BY <2>1, <2>2, <1>4 DEF Emitted, Content
<1> QED BY <1>4, <1>5, <1>6, Sizes DEF Emitted

-----------------------------------------------------------------------------
(* Redo, undo and the operations of a client change one slot.              *)

\* The free space pointer after slot s got the record d.
Grown(p, s, d) ==
  IF d = <<>> \/ Len(Content(p, s)) = Len(d) THEN p.free_space_ptr
  ELSE Start(p) + PREFIX_BYTES + Len(d)

\* q is p with d in slot s, and takes the space that redo takes.
Stored(q, p, s, d) ==
  /\ Changed(q, p, s, d)
  /\ q.free_space_ptr = Grown(p, s, d)
  /\ SlotDirStart(q) = DirAfter(p, s)

\* A record is empty when its length is zero.
LEMMA EmptyLen == Len(<<>>) = 0 /\ \A d \in Contents : Len(d) = 0 <=> d = <<>>
<1>1. \A d \in Seq(Nat \ {0}) : Len(d) = 0 <=> d = <<>>
  OBVIOUS
<1> QED BY <1>1 DEF Contents

\* redo_insert stores its record and takes the space it says.
LEMMA InsertStores ==
  ASSUME NEW p, Layout(p), NEW s \in SlotIds, s \notin Live(p), s <= p.slot_count,
         NEW d \in Contents, d # <<>>, Start(p) + PREFIX_BYTES + Len(d) <= DirAfter(p, s)
  PROVE  Stored(RedoInsert(p, s, d), p, s, d)
<1>1. PICK q : q = RedoInsert(p, s, d)
  OBVIOUS
<1>2. Placed(q, p, s, d)
  BY <1>1, RedoInsertPlaces
<1>3. Changed(q, p, s, d)
  BY <1>2, InsertChanges
<1>4. Len(Content(p, s)) # Len(d)
  BY EmptyLen DEF Content
<1>5. Stored(q, p, s, d)
  BY <1>2, <1>3, <1>4 DEF Stored, Placed, Grown
<1> QED BY <1>1, <1>5

\* delete_record stores nothing and takes no space.
LEMMA DeleteStores ==
  ASSUME NEW p, Layout(p), NEW s \in Allocated(p)
  PROVE  Stored(DeleteRecord(p, s), p, s, <<>>)
<1>0. p \in PageType
  BY DEF Layout
<1>1. p.slot_count \in Nat /\ s \in Nat /\ s # p.slot_count /\ s \in SlotIds
  BY <1>0, PageFacts DEF Allocated
<1>2. PICK q : q = DeleteRecord(p, s)
  OBVIOUS
<1>3. CASE s \in Live(p)
  <2>1. /\ Changed(q, p, s, <<>>)
        /\ q.free_space_ptr = p.free_space_ptr /\ q.slot_count = p.slot_count
    BY <1>2, <1>3, DeleteChanges
  <2>2. SlotDirStart(q) = DirAfter(p, s)
    BY <2>1, <1>1 DEF SlotDirStart, DirAfter
  <2> QED BY <2>1, <2>2, <1>2 DEF Stored, Grown
<1>4. CASE s \notin Live(p)
  <2>1. q = p
    BY <1>2, <1>4 DEF DeleteRecord
  <2>2. Changed(q, p, s, <<>>)
    BY <2>1, <1>4 DEF Changed, Content
  <2>3. SlotDirStart(q) = DirAfter(p, s)
    BY <2>1, <1>1 DEF DirAfter
  <2> QED BY <2>1, <2>2, <2>3, <1>2 DEF Stored, Grown
<1> QED BY <1>3, <1>4

\* update_record stores its record and takes no space.
LEMMA UpdateStores ==
  ASSUME NEW p, Layout(p), NEW s \in SlotIds, NEW d \in Contents, CanUpdate(p, s, d)
  PROVE  Stored(UpdateRecord(p, s, d), p, s, d)
<1>0. p \in PageType
  BY DEF Layout
<1>1. s \in Live(p) /\ p.slots[s].length = Len(d)
  BY DEF CanUpdate
<1>2. p.slot_count \in Nat /\ s \in Nat /\ s # p.slot_count
  BY <1>0, <1>1, PageFacts DEF Live, Allocated
<1>3. PICK q : q = UpdateRecord(p, s, d)
  OBVIOUS
<1>4. /\ Changed(q, p, s, d)
      /\ q.free_space_ptr = p.free_space_ptr /\ q.slot_count = p.slot_count
  BY <1>1, <1>3, UpdateChanges
<1>5. SlotDirStart(q) = DirAfter(p, s)
  BY <1>2, <1>4 DEF SlotDirStart, DirAfter
<1>6. Len(Content(p, s)) = Len(d)
  BY <1>1, ReadIs
<1> QED BY <1>3, <1>4, <1>5, <1>6 DEF Stored, Grown

\* Delete and insert again, at the end of the data region.
LEMMA ReplaceChanges ==
  ASSUME NEW p, Layout(p), NEW s \in SlotIds, s <= p.slot_count,
         NEW d \in Contents, d # <<>>, Start(p) + PREFIX_BYTES + Len(d) <= DirAfter(p, s)
  PROVE  LET q == RedoInsert(DeleteRecord(p, s), s, d)
         IN  /\ Changed(q, p, s, d)
             /\ q.free_space_ptr = Start(p) + PREFIX_BYTES + Len(d)
             /\ SlotDirStart(q) = DirAfter(p, s)
<1>1. PICK o : o = DeleteRecord(p, s)
  OBVIOUS
<1>2. PICK q : q = RedoInsert(o, s, d)
  OBVIOUS
<1>3. CASE s \in Live(p)
  <2>1. Changed(o, p, s, <<>>) /\ o.free_space_ptr = p.free_space_ptr /\ o.slot_count = p.slot_count
    BY <1>1, <1>3, DeleteChanges
  <2>2. Layout(o) /\ s \notin Live(o) /\ s <= o.slot_count /\ Start(o) = Start(p)
        /\ DirAfter(o, s) = DirAfter(p, s)
    BY <2>1, ReadIs DEF Changed, Start, DirAfter, SlotDirStart
  <2>3. Stored(q, o, s, d)
    BY <1>2, <2>2, InsertStores
  <2>4. q.free_space_ptr = Start(o) + PREFIX_BYTES + Len(d)
    <3>1. Placed(q, o, s, d)
      BY <1>2, <2>2, RedoInsertPlaces
    <3> QED BY <3>1 DEF Placed
  <2>5. Changed(q, p, s, d)
    BY <2>1, <2>3 DEF Stored, Changed
  <2> QED BY <1>1, <1>2, <2>2, <2>3, <2>4, <2>5 DEF Stored
<1>4. CASE s \notin Live(p)
  <2>1. o = p
    BY <1>1, <1>4 DEF DeleteRecord
  <2>2. Placed(q, p, s, d)
    BY <1>2, <1>4, <2>1, RedoInsertPlaces
  <2>3. Changed(q, p, s, d)
    BY <1>4, <2>2, InsertChanges
  <2> QED BY <1>1, <1>2, <2>2, <2>3 DEF Placed
<1> QED BY <1>3, <1>4

\* What makes the redo of a record on a page sound.
Fits(p, rec) ==
  /\ rec.slot \in SlotIds
  /\ rec.slot <= p.slot_count
  /\ rec.new = <<>> => rec.slot \in Allocated(p)
  /\ rec.type = "UPDATE" /\ rec.old = <<>> => rec.slot \notin Live(p)
  /\ Grown(p, rec.slot, rec.new) <= DirAfter(p, rec.slot)

\* Whatever redo does of a record that fits, it stores the new content.
LEMMA RedoStores ==
  ASSUME NEW p, Layout(p), NEW rec \in RecordSet, IsData(rec), Fits(p, rec)
  PROVE  Stored(RedoRecord(p, rec), p, rec.slot, rec.new)
<1>1. PICK s : s = rec.slot
  OBVIOUS
<1>2. PICK d : d = rec.new
  OBVIOUS
<1>3. /\ s \in SlotIds /\ s <= p.slot_count /\ d \in Contents
      /\ Grown(p, s, d) <= DirAfter(p, s)
  BY <1>1, <1>2 DEF Fits, RecordSet
<1>4. CASE d = <<>>
  <2>1. s \in Allocated(p) /\ RedoRecord(p, rec) = DeleteRecord(p, s)
    BY <1>1, <1>2, <1>4 DEF Fits, RedoRecord
  <2> QED BY <2>1, <1>1, <1>2, <1>4, DeleteStores
<1>5. CASE d # <<>> /\ s \notin Live(p)
  <2>1. Len(Content(p, s)) # Len(d)
    BY <1>3, <1>5, EmptyLen DEF Content
  <2>2. Start(p) + PREFIX_BYTES + Len(d) <= DirAfter(p, s)
    BY <1>3, <1>5, <2>1 DEF Grown
  <2>3. DeleteRecord(p, s) = p /\ ~CanUpdate(p, s, d)
    BY <1>5 DEF DeleteRecord, CanUpdate
  <2>4. RedoRecord(p, rec) = RedoInsert(p, s, d)
    BY <1>1, <1>2, <1>5, <2>3 DEF RedoRecord, Restore
  <2> QED BY <1>1, <1>2, <1>3, <1>5, <2>2, <2>4, InsertStores
<1>6. CASE d # <<>> /\ s \in Live(p)
  <2>1. RedoRecord(p, rec) = Restore(p, s, d)
    BY <1>1, <1>2, <1>6 DEF RedoRecord, Fits
  <2>2. CASE CanUpdate(p, s, d)
    BY <1>1, <1>2, <1>3, <2>1, <2>2, UpdateStores DEF Restore
  <2>3. CASE ~CanUpdate(p, s, d)
    <3>1. Len(Content(p, s)) # Len(d)
      BY <1>3, <1>6, <2>3, ReadIs DEF CanUpdate
    <3>2. /\ Start(p) + PREFIX_BYTES + Len(d) <= DirAfter(p, s)
          /\ Grown(p, s, d) = Start(p) + PREFIX_BYTES + Len(d)
      BY <1>3, <1>6, <3>1 DEF Grown
    <3>3. RedoRecord(p, rec) = RedoInsert(DeleteRecord(p, s), s, d)
      BY <2>1, <2>3 DEF Restore
    <3>4. PICK q : q = RedoInsert(DeleteRecord(p, s), s, d)
      OBVIOUS
    <3>5. /\ Changed(q, p, s, d)
          /\ q.free_space_ptr = Start(p) + PREFIX_BYTES + Len(d)
          /\ SlotDirStart(q) = DirAfter(p, s)
      BY <1>3, <1>6, <3>2, <3>4, ReplaceChanges
    <3> QED BY <3>2, <3>3, <3>4, <3>5, <1>1, <1>2 DEF Stored
  <2> QED BY <2>2, <2>3
<1> QED BY <1>4, <1>5, <1>6

\* insert_record takes a free slot, as redo_insert will.
LEMMA InsertIsRedo ==
  ASSUME NEW p, Layout(p), p.free_space_ptr >= PAGE_HEADER_SIZE,
         NEW d \in Contents, d # <<>>, CanInsert(p, Len(d))
  PROVE  /\ NextSlot(p) \in SlotIds /\ NextSlot(p) <= p.slot_count /\ NextSlot(p) \notin Live(p)
         /\ InsertRecord(p, d) = RedoInsert(p, NextSlot(p), d)
         /\ Start(p) + PREFIX_BYTES + Len(d) <= DirAfter(p, NextSlot(p))
<1>0. p \in PageType
  BY DEF Layout
<1>1. /\ p.slot_count \in Nat /\ p.slot_count < 65536 /\ Allocated(p) \in SUBSET SlotIds
      /\ p.tombstone_count \in Nat /\ p.free_space_ptr \in Nat /\ SlotDirStart(p) \in Int
      /\ p.free_space_ptr <= SlotDirStart(p) /\ Len(d) \in Nat /\ Len(d) >= 1
  BY <1>0, PageFacts DEF Layout, Contents
<1>2. Start(p) = p.free_space_ptr
  BY <1>1, Sizes DEF Start
<1>3. /\ p.tombstone_count > 0 => p.free_space_ptr + PREFIX_BYTES + Len(d) <= SlotDirStart(p)
      /\ p.tombstone_count = 0 =>
           p.free_space_ptr + PREFIX_BYTES + Len(d) <= SlotDirStart(p) - SLOT_BYTES
  BY <1>1, Sizes DEF CanInsert, FreeSpace
<1>4. CASE p.tombstone_count > 0
  <2>1. PICK s \in Tombs(p) : \A t \in Tombs(p) : s <= t
    <3>1. Tombs(p) # {}
      <4>1. p.tombstone_count = Cardinality(Tombs(p))
        BY DEF Layout
      <4>2. PICK T : T = Tombs(p)
        OBVIOUS
      <4>3. T = {} => Cardinality(T) = 0
        BY FS_EmptySet
      <4> QED BY <1>4, <4>1, <4>2, <4>3
    <3>2. Tombs(p) \in SUBSET Nat
      BY <1>1 DEF Tombs, Allocated
    <3> QED BY <3>1, <3>2, LeastNat
  <2>2. s \in Allocated(p) /\ IsTombstone(p, s) /\ \A t \in 0 .. s - 1 : ~IsTombstone(p, t)
    BY <2>1, <1>1 DEF Tombs, Allocated
  <2>3. PICK f \in Allocated(p) : f = FindFreeSlot(p) /\ IsTombstone(p, f)
    BY <2>2 DEF FindFreeSlot
  <2>4. NextSlot(p) = f /\ f \in SlotIds /\ f < p.slot_count /\ f \in Nat /\ f \notin Live(p)
    BY <1>1, <1>4, <2>3 DEF NextSlot, Live, Allocated
  <2>5. DirAfter(p, f) = SlotDirStart(p)
    BY <2>4, <1>1 DEF DirAfter
  <2>6. InsertRecord(p, d) = RedoInsert(p, f, d)
    BY <1>1, <1>2, <1>4, <2>3, <2>4 DEF InsertRecord, RedoInsert, Start
  <2> QED BY <1>1, <1>2, <1>3, <1>4, <2>4, <2>5, <2>6
<1>5. CASE p.tombstone_count = 0
  <2>1. NextSlot(p) = p.slot_count /\ p.slot_count \notin Live(p)
    BY <1>1, <1>5 DEF NextSlot, Live, Allocated
  <2>2. DirAfter(p, p.slot_count) = SlotDirStart(p) - SLOT_BYTES
    BY DEF DirAfter
  <2>3. p.slot_count \in SlotIds
    <3>0. PICK c \in Nat : c = p.slot_count
      BY <1>1
    <3>1. (c + 1) * SLOT_BYTES = c * SLOT_BYTES + SLOT_BYTES /\ c * SLOT_BYTES \in Nat
      BY Products
    <3>2. (c + 1) * SLOT_BYTES <= PAGE_SIZE - PAGE_HEADER_SIZE
      <4>1. PICK m \in Nat : m = c * SLOT_BYTES
        BY <3>1
      <4>2. SlotDirStart(p) = PAGE_SIZE - m
        BY <3>0, <4>1 DEF SlotDirStart
      <4>3. PAGE_HEADER_SIZE <= SlotDirStart(p) - SLOT_BYTES
        BY <1>1, <1>3, <1>5, Sizes
      <4>4. m + SLOT_BYTES <= PAGE_SIZE - PAGE_HEADER_SIZE
        BY <4>2, <4>3, Sizes
      <4> QED BY <4>1, <4>4, <3>1
    <3>3. p.slot_count + 1 <= MAX_SLOTS_PER_PAGE
      BY <3>0, <3>2, MaxSlots
    <3> QED BY <3>3, <1>1, MaxSlots DEF SlotIds
  <2>4. InsertRecord(p, d) = RedoInsert(p, p.slot_count, d)
    BY <1>1, <1>2, <1>5, <2>1 DEF InsertRecord, RedoInsert, Start
  <2> QED BY <1>1, <1>2, <1>3, <1>5, <2>1, <2>2, <2>3, <2>4
<1> QED BY <1>1, <1>4, <1>5

-----------------------------------------------------------------------------
(* The page against the log.                                               *)

\* set_page_lsn leaves everything else alone.
LEMMA Stamp ==
  ASSUME NEW q, Layout(q), NEW n \in Nat, n <= MaxLsn, NEW r, r = SetPageLsn(q, n)
  PROVE  /\ Layout(r) /\ r.page_lsn = n /\ r.slot_count = q.slot_count
         /\ r.free_space_ptr = q.free_space_ptr /\ SlotDirStart(r) = SlotDirStart(q)
         /\ Allocated(r) = Allocated(q)
         /\ \A s \in SlotIds : Content(r, s) = Content(q, s)
<1>0. q \in PageType
  BY DEF Layout
<1>1. /\ r \in PageType /\ r.page_lsn = n /\ r.slot_count = q.slot_count
      /\ r.tombstone_count = q.tombstone_count /\ r.free_space_ptr = q.free_space_ptr
      /\ r.slots = q.slots /\ r.mem = q.mem
  <2>1. PICK T : T = 0 .. MaxLsn
    OBVIOUS
  <2>2. n \in T
    BY <2>1, Sizes
  <2> QED BY <1>0, <2>1, <2>2 DEF SetPageLsn, PageType
<1>2. SlotDirStart(r) = SlotDirStart(q) /\ Allocated(r) = Allocated(q)
  BY <1>1 DEF SlotDirStart, Allocated
<1>3. Live(r) = Live(q) /\ Tombs(r) = Tombs(q)
  BY <1>1, <1>2 DEF Live, Tombs, IsTombstone
<1>4. \A s \in SlotIds : Content(r, s) = Content(q, s)
  BY <1>1, <1>3 DEF Content
<1>5. Layout(r)
  BY <1>1, <1>2, <1>3 DEF Layout, End
<1> QED BY <1>1, <1>2, <1>4, <1>5

\* A slot is allocated when it is below slot_count.
LEMMA AllocatedIs ==
  ASSUME NEW p \in PageType, NEW s \in SlotIds
  PROVE  /\ s \in Nat /\ p.slot_count \in Nat
         /\ s \in Allocated(p) <=> s < p.slot_count
<1>1. s \in Nat /\ p.slot_count \in Nat
  BY PageFacts, MaxSlots DEF SlotIds
<1> QED BY <1>1 DEF Allocated

\* A change of one slot, logged and stamped.
LEMMA PageStep ==
  ASSUME NEW l \in Seq(RecordSet), NEW n \in Nat, n + 1 <= Len(l), n + 1 <= MaxLsn,
         IsData(l[n + 1]), l[n + 1].slot \in SlotIds,
         NEW p, PageOK(p, l, n), NEW q, Changed(q, p, l[n + 1].slot, l[n + 1].new),
         NEW r, r = SetPageLsn(q, n + 1)
  PROVE  PageOK(r, l, n + 1)
<1> DEFINE s == l[n + 1].slot
<1>1. /\ Layout(r) /\ r.page_lsn = n + 1 /\ r.slot_count = q.slot_count
      /\ r.free_space_ptr = q.free_space_ptr /\ SlotDirStart(r) = SlotDirStart(q)
      /\ Allocated(r) = Allocated(q)
      /\ \A t \in SlotIds : Content(r, t) = Content(q, t)
  BY Stamp DEF Changed
<1>2. ASSUME NEW t \in SlotIds
      PROVE  Content(r, t) = Logged(l, t, n + 1)
  <2>1. CASE t = s
    <3>1. Logged(l, s, n + 1) = l[n + 1].new
      BY LoggedLast
    <3> QED BY <3>1, <2>1, <1>1 DEF Changed
  <2>2. CASE t # s
    <3>1. \A i \in n + 1 .. n + 1 : ~(IsData(l[i]) /\ l[i].slot = t)
      BY <2>2
    <3>2. Logged(l, t, n + 1) = Logged(l, t, n)
      BY <3>1, LoggedSame
    <3>3. Content(q, t) = Content(p, t)
      BY <2>2 DEF Changed
    <3> QED BY <3>2, <3>3, <1>1 DEF PageOK
  <2> QED BY <2>1, <2>2
<1>3. ASSUME NEW t \in SlotIds
      PROVE  t \in Allocated(r) <=> Touched(l, t, n + 1)
  <2>1. Touched(l, t, n + 1) <=> Touched(l, t, n) \/ t = s
    BY DEF Touched
  <2> QED BY <2>1, <1>1 DEF PageOK, Changed
<1>4. r.slot_count = 0 => r.free_space_ptr <= PAGE_HEADER_SIZE
  <2>1. s \in Allocated(r) /\ r \in PageType
    BY <1>1 DEF Changed, Layout
  <2>2. r.slot_count # 0
    BY <2>1, AllocatedIs
  <2> QED BY <2>2
<1>5. \A i \in r.page_lsn + 1 .. n + 1 : ~IsData(l[i])
  BY <1>1
<1>6. r.page_lsn <= n + 1
  BY <1>1
<1> QED BY <1>1, <1>2, <1>3, <1>4, <1>5, <1>6 DEF PageOK

\* A record that names no slot leaves the page as it is.
LEMMA PageKeep ==
  ASSUME NEW l \in Seq(RecordSet), NEW n \in Nat, n + 1 <= Len(l),
         ~IsData(l[n + 1]), NEW p, PageOK(p, l, n)
  PROVE  PageOK(p, l, n + 1)
<1>0. p \in PageType
  BY DEF PageOK, Layout
<1>2. \A t \in SlotIds : Logged(l, t, n + 1) = Logged(l, t, n)
  <2>1. \A i \in n + 1 .. n + 1 : ~IsData(l[i])
    OBVIOUS
  <2> QED BY <2>1, LoggedSame
<1>3. \A t \in SlotIds : Touched(l, t, n + 1) <=> Touched(l, t, n)
  BY DEF Touched
<1>4. /\ p.page_lsn \in Nat /\ p.page_lsn <= n
      /\ \A i \in p.page_lsn + 1 .. n : ~IsData(l[i])
  BY <1>0, PageFacts DEF PageOK
<1>5. p.page_lsn <= n + 1 /\ \A i \in p.page_lsn + 1 .. n + 1 : ~IsData(l[i])
  BY <1>4
<1> QED BY <1>2, <1>3, <1>5 DEF PageOK

\* What is said of a page depends on the first n records only.
LEMMA PageAgree ==
  ASSUME NEW l \in Seq(RecordSet), NEW n \in 0 .. Len(l),
         NEW k, SameUpTo(k, l, n), NEW p, PageOK(p, l, n)
  PROVE  PageOK(p, k, n)
<1>0. p \in PageType /\ p.page_lsn \in Nat
  BY PageFacts DEF PageOK, Layout
<1>2. n \in Nat
  OBVIOUS
<1>3. \A t \in SlotIds : Logged(k, t, n) = Logged(l, t, n) /\ (Touched(k, t, n) <=> Touched(l, t, n))
  BY <1>2, LoggedAgree
<1>4. \A i \in p.page_lsn + 1 .. n : ~IsData(k[i])
  BY <1>0 DEF SameUpTo, PageOK
<1> QED BY <1>3, <1>4 DEF PageOK

-----------------------------------------------------------------------------
(* The log.                                                                *)

\* An UPDATE points at the record before it or nowhere.
LEMMA UpdateFacts ==
  ASSUME NEW l, NEW i \in Nat, i # 0, UpdateOK(l, i)
  PROVE  /\ l[i].next \in 0 .. i - 1
         /\ l[i].next # 0 => l[i].next = i - 1 /\ l[i - 1].type = "UPDATE"
<1>1. l[i].next = IF i > 1 /\ IsData(l[i - 1]) THEN i - 1 ELSE 0
  BY DEF UpdateOK
<1>2. CASE i > 1 /\ IsData(l[i - 1])
  <2>1. l[i].next = i - 1
    BY <1>1, <1>2
  <2>2. l[i - 1].type = "UPDATE"
    BY <1>2 DEF UpdateOK, IsData
  <2> QED BY <2>1, <2>2
<1>3. CASE ~(i > 1 /\ IsData(l[i - 1]))
  BY <1>1, <1>3
<1> QED BY <1>2, <1>3

\* What the shape of the log says of one record.
LEMMA RecordFacts ==
  ASSUME NEW l, LogOK(l), NEW i \in 1 .. Len(l)
  PROVE  /\ l[i] \in RecordSet /\ i \in Nat /\ i # 0
         /\ l[i].next \in 0 .. i - 1
         /\ IsData(l[i]) => l[i].slot \in SlotIds
         /\ Frontier(l, i) \in 0 .. i
         /\ Frontier(l, i) # 0 => l[Frontier(l, i)].type = "UPDATE"
         /\ ~IsData(l[i]) => Frontier(l, i) = 0
<1>1. l[i] \in RecordSet /\ i \in Nat /\ i # 0 /\ RecordOK(l, i)
  BY DEF LogOK
<1>2. l[i].type \in {"UPDATE", "CLR", "COMMIT", "TXN_END"}
  BY <1>1 DEF RecordSet
<1>3. CASE l[i].type = "UPDATE"
  <2>1. UpdateOK(l, i)
    BY <1>1, <1>3 DEF RecordOK
  <2>2. l[i].next \in 0 .. i - 1
    BY <2>1, <1>1, UpdateFacts
  <2>3. Frontier(l, i) = i /\ IsData(l[i])
    BY <1>3 DEF Frontier, IsData
  <2> QED BY <1>1, <1>3, <2>1, <2>2, <2>3 DEF UpdateOK
<1>4. CASE l[i].type = "CLR"
  <2>1. ClrOK(l, i) /\ Frontier(l, i) = l[i].next
    BY <1>1, <1>4 DEF RecordOK, Frontier
  <2>2. PICK f : f = Frontier(l, i - 1)
    OBVIOUS
  <2>3. f \in 1 .. i - 1 /\ l[f].type = "UPDATE" /\ l[i].slot = l[f].slot /\ l[i].next = l[f].next
    BY <2>1, <2>2 DEF ClrOK, Clr
  <2>4. f \in 1 .. Len(l) /\ f \in Nat /\ f # 0
    BY <2>3
  <2>5. UpdateOK(l, f)
    BY <2>3, <2>4 DEF LogOK, RecordOK
  <2>6. /\ l[f].next \in 0 .. f - 1
        /\ l[f].next # 0 => l[f].next = f - 1 /\ l[f - 1].type = "UPDATE"
    BY <2>4, <2>5, UpdateFacts
  <2>7. l[i].next \in 0 .. i - 1 /\ l[i].next \in 0 .. i
    BY <2>3, <2>6
  <2>8. IsData(l[i])
    BY <1>4 DEF IsData
  <2>9. l[i].next # 0 => l[l[i].next].type = "UPDATE"
    BY <2>3, <2>6
  <2>10. l[i].slot \in SlotIds
    BY <2>3, <2>5 DEF UpdateOK
  <2> QED BY <1>1, <2>1, <2>7, <2>8, <2>9, <2>10
<1>5. CASE l[i].type \notin {"UPDATE", "CLR"}
  <2>1. l[i].next = 0 /\ ~IsData(l[i]) /\ Frontier(l, i) = 0
    BY <1>1, <1>5 DEF RecordOK, Frontier, IsData
  <2> QED BY <2>1, <1>1
<1> QED BY <1>2, <1>3, <1>4, <1>5

\* Every record of the log points backwards.
LEMMA LogBackward ==
  ASSUME NEW l, LogOK(l), NEW n \in 0 .. Len(l)
  PROVE  Backward(l, n) /\ l \in Seq(RecordSet) /\ Len(l) \in Nat
<1>1. \A i \in 1 .. n : i \in 1 .. Len(l)
  BY DEF LogOK
<1>2. \A i \in 1 .. n : l[i].next \in 0 .. i - 1
  BY <1>1, RecordFacts
<1> QED BY <1>2 DEF Backward, LogOK

\* What is said of a record depends on the log up to it only.
LEMMA RecordAgree ==
  ASSUME NEW l, LogOK(l), NEW i \in 1 .. Len(l), NEW k, SameUpTo(k, l, i)
  PROVE  RecordOK(k, i)
<1>1. RecordOK(l, i) /\ i \in Nat /\ i # 0 /\ i - 1 \in Nat
  BY RecordFacts DEF LogOK
<1>2. k[i] = l[i] /\ (i > 1 => k[i - 1] = l[i - 1]) /\ SameUpTo(k, l, i - 1)
  BY <1>1 DEF SameUpTo
<1>3. Frontier(k, i) = Frontier(l, i) /\ (i > 1 => Frontier(k, i - 1) = Frontier(l, i - 1))
  BY <1>2 DEF Frontier
<1>4. PICK f : f = Frontier(l, i)
  OBVIOUS
<1>5. f \in 0 .. i /\ f \in 0 .. Len(l) /\ f \in Nat
  BY <1>4, RecordFacts
<1>6. SameUpTo(k, l, f)
  BY <1>5 DEF SameUpTo
<1>7. ChainLength(k, f) = ChainLength(l, f)
  BY <1>5, <1>6, LogBackward, ChainAgree
<1>8. \A s \in SlotIds : /\ Logged(k, s, i) = Logged(l, s, i)
                         /\ Logged(k, s, f) = Logged(l, s, f)
  BY <1>1, <1>5, <1>6, LoggedAgree
<1>9. \A s : Logged(k, s, i - 1) = Logged(l, s, i - 1)
  BY <1>1, <1>2, LoggedAgree
<1>10. l[i].type = "UPDATE" => UpdateOK(k, i)
  BY <1>1, <1>2, <1>9 DEF RecordOK, UpdateOK
<1>11. ASSUME l[i].type = "CLR" PROVE ClrOK(k, i)
  <2>1. ClrOK(l, i)
    BY <1>1, <1>11 DEF RecordOK
  <2>2. PICK g : g = Frontier(l, i - 1)
    OBVIOUS
  <2>3. i > 1 /\ g \in 1 .. i - 1 /\ Frontier(k, i - 1) = g
    BY <2>1, <2>2, <1>3 DEF ClrOK
  <2>4. k[g] = l[g]
    BY <2>3, <1>2 DEF SameUpTo
  <2> QED BY <2>1, <2>2, <2>3, <2>4, <1>2 DEF ClrOK
<1> QED BY <1>1, <1>2, <1>3, <1>4, <1>7, <1>8, <1>10, <1>11 DEF RecordOK

\* A log cut short is well formed.
LEMMA LogCut ==
  ASSUME NEW l, LogOK(l), NEW n \in 0 .. Len(l), NEW k, k = SubSeq(l, 1, n)
  PROVE  LogOK(k) /\ Len(k) = n /\ SameUpTo(k, l, n)
<1>1. l \in Seq(RecordSet) /\ Len(l) \in Nat /\ n \in Nat /\ n <= Len(l)
  BY LogBackward
<1>2. k \in Seq(RecordSet) /\ Len(k) = n /\ SameUpTo(k, l, n)
  BY <1>1 DEF SameUpTo
<1>3. ASSUME NEW i \in 1 .. n PROVE RecordOK(k, i)
  <2>1. i \in 1 .. Len(l) /\ SameUpTo(k, l, i)
    BY <1>1, <1>2 DEF SameUpTo
  <2> QED BY <2>1, RecordAgree
<1> QED BY <1>2, <1>3 DEF LogOK

\* k is l with one record more.
Longer(k, l, rec) ==
  /\ k \in Seq(RecordSet) /\ Len(k) = Len(l) + 1
  /\ k[Len(l) + 1] = rec
  /\ \A n \in 0 .. Len(l) : SameUpTo(k, l, n)

\* Append, by what it leaves of the log.
LEMMA AppendLonger ==
  ASSUME NEW l \in Seq(RecordSet), NEW rec \in RecordSet, NEW k, k = Append(l, rec)
  PROVE  Longer(k, l, rec)
BY DEF Longer, SameUpTo

\* A log is well formed if its last record is and the log before it was.
LEMMA LogAppend ==
  ASSUME NEW l, LogOK(l), NEW k, NEW rec, Longer(k, l, rec), RecordOK(k, Len(l) + 1)
  PROVE  LogOK(k)
<1>1. l \in Seq(RecordSet) /\ Len(l) \in Nat
  BY LogBackward
<1>2. ASSUME NEW i \in 1 .. Len(l) PROVE RecordOK(k, i)
  <2>1. SameUpTo(k, l, i)
    BY <1>1 DEF Longer
  <2> QED BY <2>1, RecordAgree
<1>3. \A i \in 1 .. Len(k) : i \in 1 .. Len(l) \/ i = Len(l) + 1
  BY <1>1 DEF Longer
<1> QED BY <1>2, <1>3 DEF LogOK, Longer

\* The chain that starts at the frontier.
LEMMA FrontierFacts ==
  ASSUME NEW l, LogOK(l), NEW n \in 1 .. Len(l), IsData(l[n]), NEW f, f = Frontier(l, n)
  PROVE  /\ f \in 0 .. n /\ f \in Nat
         /\ n + ChainLength(l, f) + 1 <= MaxLsn
         /\ ChainLength(l, f) \in Nat
         /\ f # 0 => /\ f \in 1 .. Len(l) /\ l[f].type = "UPDATE"
                     /\ l[f] \in RecordSet /\ UpdateOK(l, f)
                     /\ l[f].next \in 0 .. f - 1 /\ l[f].next \in Nat
                     /\ ChainLength(l, f) = 1 + ChainLength(l, l[f].next)
                     /\ ChainLength(l, l[f].next) \in Nat
                     /\ \A s \in SlotIds : Logged(l, s, n) = Logged(l, s, f)
<1>1. /\ n \in Nat /\ n # 0 /\ f \in 0 .. n
      /\ f # 0 => l[f].type = "UPDATE"
  BY RecordFacts
<1>2. RecordOK(l, n) /\ l \in Seq(RecordSet) /\ Len(l) \in Nat
  BY LogBackward DEF LogOK
<1>3. /\ n + ChainLength(l, f) + 1 <= MaxLsn
      /\ f # 0 => \A s \in SlotIds : Logged(l, s, n) = Logged(l, s, f)
  BY <1>2 DEF RecordOK
<1>4. f \in 0 .. Len(l) /\ f \in Nat
  BY <1>1, <1>2
<1>5. /\ ChainLength(l, f) \in Nat
      /\ f # 0 => ChainLength(l, f) = 1 + ChainLength(l, l[f].next)
  BY <1>2, <1>4, LogBackward, ChainFacts
<1>7. ASSUME f # 0
      PROVE  /\ f \in 1 .. Len(l) /\ l[f] \in RecordSet /\ UpdateOK(l, f)
             /\ l[f].next \in 0 .. f - 1 /\ l[f].next \in Nat
             /\ ChainLength(l, l[f].next) \in Nat
  <2>1. f \in 1 .. Len(l)
    BY <1>4, <1>7
  <2>2. l[f] \in RecordSet /\ l[f].next \in 0 .. f - 1
    BY <2>1, RecordFacts
  <2>3. UpdateOK(l, f)
    BY <2>1, <1>1, <1>7 DEF LogOK, RecordOK
  <2>4. l[f].next \in 0 .. Len(l) /\ l[f].next \in Nat
    BY <2>1, <2>2, <1>2
  <2>5. ChainLength(l, l[f].next) \in Nat
    BY <2>4, <1>2, LogBackward, ChainFacts
  <2> QED BY <2>1, <2>2, <2>3, <2>4, <2>5
<1> QED BY <1>1, <1>3, <1>4, <1>5, <1>7

\* The chain behind the new record is the one the log has already.
LEMMA LongerFacts ==
  ASSUME NEW l, LogOK(l), NEW k, NEW rec, Longer(k, l, rec), rec.next \in 0 .. Len(l)
  PROVE  /\ ChainLength(k, Len(l) + 1) = 1 + ChainLength(l, rec.next)
         /\ ChainLength(k, rec.next) = ChainLength(l, rec.next)
         /\ Backward(k, Len(l) + 1)
<1>1. l \in Seq(RecordSet) /\ Len(l) \in Nat /\ Backward(l, Len(l)) /\ Backward(l, rec.next)
  BY LogBackward
<1>2. /\ k \in Seq(RecordSet) /\ Len(k) = Len(l) + 1 /\ k[Len(l) + 1] = rec
      /\ SameUpTo(k, l, Len(l)) /\ SameUpTo(k, l, rec.next)
  BY <1>1 DEF Longer
<1>3. Backward(k, Len(l) + 1)
  <2>1. ASSUME NEW i \in 1 .. Len(l) + 1 PROVE k[i].next \in 0 .. i - 1
    <3>1. CASE i = Len(l) + 1
      BY <3>1, <1>1, <1>2
    <3>2. CASE i # Len(l) + 1
      <4>1. i \in 1 .. Len(l)
        BY <3>2, <1>1
      <4>2. k[i] = l[i] /\ l[i].next \in 0 .. i - 1
        BY <4>1, <1>1, <1>2 DEF SameUpTo, Backward
      <4> QED BY <4>2
    <3> QED BY <3>1, <3>2
  <2> QED BY <2>1 DEF Backward
<1>4. ChainLength(k, rec.next) = ChainLength(l, rec.next)
  BY <1>1, <1>2, ChainAgree
<1>5. Len(l) + 1 \in 0 .. Len(k) /\ Len(l) + 1 # 0
  BY <1>1, <1>2
<1>6. ChainLength(k, Len(l) + 1) = 1 + ChainLength(k, rec.next)
  BY <1>1, <1>2, <1>3, <1>5, ChainFacts
<1> QED BY <1>3, <1>4, <1>6

\* What the slots hold after one more record.
LEMMA LongerLogged ==
  ASSUME NEW l, LogOK(l), NEW k, NEW rec, Longer(k, l, rec), NEW s
  PROVE  /\ \A n \in 0 .. Len(l) : Logged(k, s, n) = Logged(l, s, n)
         /\ IsData(rec) /\ rec.slot = s => Logged(k, s, Len(l) + 1) = rec.new
         /\ ~(IsData(rec) /\ rec.slot = s) =>
               Logged(k, s, Len(l) + 1) = Logged(l, s, Len(l))
<1>1. l \in Seq(RecordSet) /\ Len(l) \in Nat
  BY LogBackward
<1>2. \A n \in 0 .. Len(l) : Logged(k, s, n) = Logged(l, s, n)
  <2>1. \A n \in 0 .. Len(l) : n \in Nat /\ SameUpTo(k, l, n)
    BY <1>1 DEF Longer
  <2> QED BY <2>1, LoggedAgree
<1>3. k[Len(l) + 1] = rec
  BY DEF Longer
<1>4. IsData(rec) /\ rec.slot = s => Logged(k, s, Len(l) + 1) = rec.new
  BY <1>1, <1>3, LoggedLast
<1>5. ASSUME ~(IsData(rec) /\ rec.slot = s)
      PROVE  Logged(k, s, Len(l) + 1) = Logged(l, s, Len(l))
  <2>1. \A i \in Len(l) + 1 .. Len(l) + 1 : ~(IsData(k[i]) /\ k[i].slot = s)
    BY <1>1, <1>3, <1>5
  <2>2. Logged(k, s, Len(l) + 1) = Logged(k, s, Len(l))
    BY <1>1, <2>1, LoggedSame
  <2> QED BY <1>1, <1>2, <2>2
<1> QED BY <1>2, <1>4, <1>5

\* A change of the open transaction, or the first one of a transaction.
LEMMA AppendUpdate ==
  ASSUME NEW l, LogOK(l), NEW s \in SlotIds, NEW old, NEW new, old # <<>> \/ new # <<>>,
         old = Logged(l, s, Len(l)),
         AtEnd(l) => l[Len(l)].type = "UPDATE",
         NEW prev, prev = IF AtEnd(l) THEN Len(l) ELSE 0,
         Len(l) + 2 + ChainLength(l, prev) + 1 <= MaxLsn,
         NEW rec, rec = Update(s, old, new, prev), NEW k, Longer(k, l, rec)
  PROVE  LogOK(k)
<1>1. l \in Seq(RecordSet) /\ Len(l) \in Nat /\ prev \in 0 .. Len(l) /\ MaxLsn \in Nat
  BY LogBackward, Sizes
<1>2. ChainLength(l, prev) \in Nat
  BY <1>1, LogBackward, ChainFacts
<1>3. PICK i : i = Len(l) + 1
  OBVIOUS
<1>4. /\ i \in Nat /\ i - 1 = Len(l) /\ k[i] = rec /\ (i > 1 => k[i - 1] = l[i - 1])
  BY <1>1, <1>3 DEF Longer, SameUpTo
<1>5. /\ rec.type = "UPDATE" /\ rec.slot = s /\ rec.old = old /\ rec.new = new /\ rec.next = prev
      /\ IsData(rec)
  BY DEF Update, IsData
<1>6. Logged(k, s, i - 1) = old
  <2>1. Len(l) \in 0 .. Len(l)
    BY <1>1
  <2> QED BY <2>1, <1>4, LongerLogged
<1>7. AtEnd(l) <=> i > 1 /\ IsData(l[i - 1])
  BY <1>1, <1>3, <1>4 DEF AtEnd
<1>8. UpdateOK(k, i)
  <2>1. ASSUME i > 1 PROVE k[i - 1].type # "CLR"
    <3>1. k[i - 1] = l[Len(l)]
      BY <2>1, <1>4
    <3>2. l[Len(l)].type = "CLR" => AtEnd(l)
      BY <2>1, <1>4, <1>7 DEF IsData
    <3> QED BY <3>1, <3>2
  <2>2. k[i].next = IF i > 1 /\ IsData(k[i - 1]) THEN i - 1 ELSE 0
    BY <1>4, <1>5, <1>7
  <2> QED BY <2>1, <2>2, <1>4, <1>5, <1>6 DEF UpdateOK
<1>9. Frontier(k, i) = i
  BY <1>4, <1>5 DEF Frontier
<1>10. ChainLength(k, i) = 1 + ChainLength(l, prev)
  BY <1>1, <1>3, <1>5, LongerFacts
<1>11. i <= MaxLsn /\ i + ChainLength(k, i) + 1 <= MaxLsn
  BY <1>1, <1>2, <1>3, <1>10
<1>12. RecordOK(k, i)
  BY <1>4, <1>5, <1>8, <1>9, <1>11 DEF RecordOK
<1> QED BY <1>3, <1>12, LogAppend

\* The compensation record of the record that undo takes next.
LEMMA AppendClr ==
  ASSUME NEW l, LogOK(l), AtEnd(l), NEW f, f = Frontier(l, Len(l)), f # 0,
         NEW rec, rec = Clr(l[f].slot, l[f].old, l[f].next), NEW k, Longer(k, l, rec)
  PROVE  LogOK(k)
<1>1. l \in Seq(RecordSet) /\ Len(l) \in Nat /\ MaxLsn \in Nat
  BY LogBackward, Sizes
<1>2. Len(l) \in 1 .. Len(l) /\ IsData(l[Len(l)])
  BY <1>1 DEF AtEnd
<1>3. PICK g : g = l[f].next
  OBVIOUS
<1>4. /\ f \in 1 .. Len(l) /\ l[f].type = "UPDATE" /\ UpdateOK(l, f)
      /\ g \in 0 .. f - 1
      /\ ChainLength(l, f) = 1 + ChainLength(l, g)
      /\ ChainLength(l, g) \in Nat
      /\ Len(l) + ChainLength(l, f) + 1 <= MaxLsn
      /\ \A s \in SlotIds : Logged(l, s, Len(l)) = Logged(l, s, f)
  BY <1>2, <1>3, FrontierFacts
<1>5. PICK i : i = Len(l) + 1
  OBVIOUS
<1>6. /\ i \in Nat /\ i - 1 = Len(l) /\ i > 1 /\ k[i] = rec
      /\ \A j \in 1 .. Len(l) : k[j] = l[j]
  BY <1>1, <1>2, <1>5 DEF Longer, SameUpTo
<1>7. /\ rec.type = "CLR" /\ rec.slot = l[f].slot /\ rec.new = l[f].old /\ rec.next = g
      /\ IsData(rec)
  BY <1>3 DEF Clr, IsData
<1>8. ClrOK(k, i)
  <2>1. Frontier(k, i - 1) = f
    BY <1>2, <1>6 DEF Frontier
  <2>2. k[f] = l[f]
    BY <1>4, <1>6
  <2> QED BY <2>1, <2>2, <1>4, <1>6 DEF ClrOK
<1>9. Frontier(k, i) = g
  BY <1>6, <1>7 DEF Frontier
<1>10. ChainLength(k, g) = ChainLength(l, g)
  <2>1. rec.next \in 0 .. Len(l)
    BY <1>1, <1>4, <1>7
  <2> QED BY <2>1, <1>7, LongerFacts
<1>11. i <= MaxLsn /\ i + ChainLength(k, g) + 1 <= MaxLsn
  BY <1>1, <1>4, <1>5, <1>10
<1>12. ASSUME g # 0, NEW s \in SlotIds
       PROVE  Logged(k, s, i) = Logged(k, s, g)
  <2>1. g = f - 1 /\ f \in Nat /\ f # 0
    BY <1>4, <1>12, <1>3, UpdateFacts
  <2>2. Logged(k, s, g) = Logged(l, s, g)
    <3>1. g \in 0 .. Len(l)
      BY <1>1, <1>4
    <3> QED BY <3>1, LongerLogged
  <2>3. CASE s = l[f].slot
    <3>1. Logged(k, s, i) = l[f].old
      BY <2>3, <1>5, <1>7, LongerLogged
    <3>2. l[f].old = Logged(l, s, f - 1)
      BY <2>3, <1>4 DEF UpdateOK
    <3> QED BY <3>1, <3>2, <2>1, <2>2
  <2>4. CASE s # l[f].slot
    <3>1. Logged(k, s, i) = Logged(l, s, Len(l))
      BY <2>4, <1>5, <1>7, LongerLogged
    <3>2. Logged(l, s, Len(l)) = Logged(l, s, f)
      BY <1>4
    <3>3. \A j \in g + 1 .. f : ~(IsData(l[j]) /\ l[j].slot = s)
      BY <2>1, <2>4, <1>4
    <3>4. Logged(l, s, f) = Logged(l, s, g)
      BY <3>3, <2>1, <1>4, LoggedSame
    <3> QED BY <3>1, <3>2, <3>4, <2>2
  <2> QED BY <2>3, <2>4
<1>13. RecordOK(k, i)
  BY <1>6, <1>7, <1>8, <1>9, <1>11, <1>12 DEF RecordOK
<1> QED BY <1>5, <1>13, LogAppend

\* COMMIT and TXN_END.
LEMMA AppendMark ==
  ASSUME NEW l, LogOK(l), AtEnd(l), NEW type \in {"COMMIT", "TXN_END"},
         NEW k, Longer(k, l, Mark(type))
  PROVE  LogOK(k) /\ ~IsData(k[Len(l) + 1]) /\ k[Len(l) + 1].next = 0
<1>1. l \in Seq(RecordSet) /\ Len(l) \in Nat /\ MaxLsn \in Nat
  BY LogBackward, Sizes
<1>2. Len(l) \in 1 .. Len(l) /\ IsData(l[Len(l)])
  BY <1>1 DEF AtEnd
<1>3. PICK f : f = Frontier(l, Len(l))
  OBVIOUS
<1>4. Len(l) + ChainLength(l, f) + 1 <= MaxLsn /\ ChainLength(l, f) \in Nat
  BY <1>2, <1>3, FrontierFacts
<1>5. Len(l) + 1 <= MaxLsn
  BY <1>1, <1>4
<1>6. k[Len(l) + 1] = Mark(type)
  BY DEF Longer
<1>7. /\ k[Len(l) + 1].next = 0 /\ ~IsData(k[Len(l) + 1]) /\ k[Len(l) + 1].type \notin {"UPDATE", "CLR"}
      /\ Frontier(k, Len(l) + 1) = 0
  BY <1>6 DEF Mark, IsData, Frontier
<1>8. RecordOK(k, Len(l) + 1)
  BY <1>5, <1>7 DEF RecordOK
<1> QED BY <1>7, <1>8, LogAppend

-----------------------------------------------------------------------------
(* Replay.                                                                 *)

\* Two pages with the same slots allocated have the same slot_count.
LEMMA SameCount ==
  ASSUME NEW p \in PageType, NEW q \in PageType,
         \A s \in SlotIds : s \in Allocated(p) <=> s \in Allocated(q)
  PROVE  p.slot_count = q.slot_count
<1>1. \A x, y \in PageType :
        x.slot_count < y.slot_count => \E s \in SlotIds : s \in Allocated(y) /\ s \notin Allocated(x)
  <2> SUFFICES ASSUME NEW x \in PageType, NEW y \in PageType, x.slot_count < y.slot_count
               PROVE  \E s \in SlotIds : s \in Allocated(y) /\ s \notin Allocated(x)
    OBVIOUS
  <2>1. /\ x.slot_count \in Nat /\ y.slot_count \in Nat /\ y.slot_count <= MAX_SLOTS_PER_PAGE
        /\ MAX_SLOTS_PER_PAGE \in Nat
    BY PageFacts, MaxSlots
  <2>2. x.slot_count \in SlotIds
    BY <2>1 DEF SlotIds
  <2>3. x.slot_count \in Allocated(y) /\ x.slot_count \notin Allocated(x)
    BY <2>1 DEF Allocated
  <2> QED BY <2>2, <2>3
<1>2. p.slot_count \in Nat /\ q.slot_count \in Nat
  BY PageFacts
<1> QED BY <1>1, <1>2

\* Two pages that hold the same records differ in the free space pointer.
LEMMA SameShape ==
  ASSUME NEW l, NEW n, NEW a, NEW p, PageOK(a, l, n), PageOK(p, l, n)
  PROVE  /\ a.slot_count = p.slot_count /\ SlotDirStart(a) = SlotDirStart(p)
         /\ Allocated(a) = Allocated(p)
         /\ \A s \in SlotIds : Content(a, s) = Content(p, s) /\ (s \in Live(a) <=> s \in Live(p))
<1>1. a \in PageType /\ p \in PageType /\ Layout(a) /\ Layout(p)
  BY DEF PageOK, Layout
<1>2. \A s \in SlotIds : s \in Allocated(a) <=> s \in Allocated(p)
  BY DEF PageOK
<1>3. a.slot_count = p.slot_count
  BY <1>1, <1>2, SameCount
<1>4. \A s \in SlotIds : Content(a, s) = Content(p, s)
  BY DEF PageOK
<1>5. \A s \in SlotIds : s \in Live(a) <=> s \in Live(p)
  BY <1>1, <1>4, ReadIs
<1> QED BY <1>3, <1>4, <1>5 DEF SlotDirStart, Allocated

\* A page with more space free has no less after the same change.
LEMMA GrownLess ==
  ASSUME NEW a, NEW p, Layout(a), Layout(p), NEW s \in SlotIds, NEW d \in Contents,
         Content(a, s) = Content(p, s), a.free_space_ptr <= p.free_space_ptr
  PROVE  /\ Grown(a, s, d) <= Grown(p, s, d)
         /\ Grown(a, s, d) \in Nat /\ Grown(p, s, d) \in Nat
<1>1. /\ a.free_space_ptr \in Nat /\ p.free_space_ptr \in Nat /\ Len(d) \in Nat
      /\ PREFIX_BYTES \in Nat /\ PAGE_HEADER_SIZE \in Nat
  BY PageFacts, Sizes DEF Layout, Contents
<1>2. Start(a) <= Start(p) /\ Start(a) \in Nat /\ Start(p) \in Nat
  BY <1>1 DEF Start
<1> QED BY <1>1, <1>2 DEF Grown

\* The redo of one record more than the log had.
LEMMA ReplayAppend ==
  ASSUME NEW l, LogOK(l), NEW k, NEW rec, Longer(k, l, rec), NEW R, NEW img,
         ReplayOK(R, img, l), NEW r, r = Redone(R[Len(l)], k, Len(l) + 1),
         PageOK(r, k, Len(l) + 1), IsData(rec) => r.page_lsn = Len(l) + 1
  PROVE  \E Q : ReplayOK(Q, img, k) /\ Q[Len(k)] = r
<1>1. l \in Seq(RecordSet) /\ Len(l) \in Nat /\ Len(k) = Len(l) + 1 /\ k[Len(l) + 1] = rec
  BY LogBackward DEF Longer
<1>2. PICK b \in Nat : b = img.page_lsn /\ b <= Len(l)
  BY <1>1 DEF ReplayOK
<1>3. PICK n \in Nat : n = Len(l)
  BY <1>1
<1>4. PICK Q : Q = [m \in b .. n + 1 |-> IF m = n + 1 THEN r ELSE R[m]]
  OBVIOUS
<1>5. DOMAIN Q = b .. n + 1 /\ Q[n + 1] = r /\ \A m \in b .. n : Q[m] = R[m]
  BY <1>2, <1>3, <1>4
<1>6. /\ R[b] = img
      /\ \A m \in b + 1 .. n : R[m] = Redone(R[m - 1], l, m)
      /\ \A m \in b .. n : /\ PageOK(R[m], l, m)
                           /\ R[m].page_lsn >= b
                           /\ \A j \in R[m].page_lsn .. m : R[j] = R[m]
  BY <1>2, <1>3 DEF ReplayOK
<1>7. Q[b] = img
  BY <1>2, <1>3, <1>5, <1>6
<1>8. ASSUME NEW m \in b + 1 .. n + 1
      PROVE  Q[m] = Redone(Q[m - 1], k, m)
  <2>1. CASE m = n + 1
    <3>1. Q[m - 1] = R[n]
      BY <2>1, <1>2, <1>3, <1>5
    <3> QED BY <2>1, <3>1, <1>3, <1>5
  <2>2. CASE m # n + 1
    <3>1. m \in b + 1 .. n /\ m \in b .. n /\ m - 1 \in b .. n /\ m \in 1 .. n
      BY <2>2, <1>2, <1>3
    <3>2. k[m] = l[m]
      BY <3>1, <1>3 DEF Longer, SameUpTo
    <3>3. Redone(R[m - 1], k, m) = Redone(R[m - 1], l, m)
      BY <3>2 DEF Redone
    <3> QED BY <3>1, <3>3, <1>5, <1>6
  <2> QED BY <2>1, <2>2
<1>9. ASSUME NEW m \in b .. n + 1
      PROVE  /\ PageOK(Q[m], k, m)
             /\ Q[m].page_lsn >= b
             /\ \A j \in Q[m].page_lsn .. m : Q[j] = Q[m]
  <2>1. CASE m # n + 1
    <3>1. m \in b .. n /\ m \in 0 .. Len(l)
      BY <2>1, <1>2, <1>3
    <3>2. PageOK(R[m], l, m) /\ Q[m] = R[m] /\ R[m].page_lsn >= b
      BY <3>1, <1>5, <1>6
    <3>3. PageOK(Q[m], k, m)
      <4>1. SameUpTo(k, l, m)
        BY <3>1 DEF Longer
      <4> QED BY <3>1, <3>2, <4>1, <1>1, PageAgree
    <3>4. R[m].page_lsn \in Nat
      BY <3>2, PageFacts DEF PageOK, Layout
    <3>5. ASSUME NEW j \in R[m].page_lsn .. m PROVE Q[j] = R[m]
      <4>1. j \in b .. n
        BY <3>1, <3>2, <3>4, <1>2, <1>3
      <4> QED BY <4>1, <3>1, <1>5, <1>6
    <3> QED BY <3>2, <3>3, <3>5
  <2>2. CASE m = n + 1 /\ IsData(rec)
    <3>1. Q[m] = r /\ r.page_lsn = n + 1 /\ PageOK(Q[m], k, m)
      BY <2>2, <1>3, <1>5
    <3>2. \A j \in r.page_lsn .. m : j = m
      BY <3>1, <2>2
    <3> QED BY <3>1, <3>2, <1>2, <1>3
  <2>3. CASE m = n + 1 /\ ~IsData(rec)
    <3>1. Q[m] = r /\ r = R[n] /\ PageOK(Q[m], k, m)
      BY <2>3, <1>1, <1>3, <1>5 DEF Redone
    <3>2. n \in b .. n
      BY <1>2, <1>3
    <3>3. /\ R[n].page_lsn >= b /\ R[n].page_lsn \in Nat
          /\ \A j \in R[n].page_lsn .. n : R[j] = R[n]
      BY <3>2, <1>6, PageFacts DEF PageOK, Layout
    <3>4. ASSUME NEW j \in R[n].page_lsn .. m PROVE Q[j] = R[n]
      <4>1. CASE j = n + 1
        BY <4>1, <3>1, <1>5
      <4>2. CASE j # n + 1
        <5>1. j \in R[n].page_lsn .. n /\ j \in b .. n
          BY <4>2, <2>3, <3>3, <1>2, <1>3
        <5> QED BY <5>1, <3>3, <1>5
      <4> QED BY <4>1, <4>2
    <3> QED BY <3>1, <3>3, <3>4
  <2> QED BY <2>1, <2>2, <2>3
<1>10. ReplayOK(Q, img, k)
  <2>1. Len(k) = n + 1 /\ b \in 0 .. n + 1
    BY <1>1, <1>2, <1>3
  <2> QED BY <2>1, <1>2, <1>5, <1>7, <1>8, <1>9 DEF ReplayOK
<1> QED BY <1>1, <1>3, <1>5, <1>10

\* COMMIT and TXN_END change no page.
LEMMA ReplayMark ==
  ASSUME NEW l, LogOK(l), AtEnd(l), NEW type \in {"COMMIT", "TXN_END"},
         NEW k, Longer(k, l, Mark(type)), LogOK(k), NEW R, NEW img, ReplayOK(R, img, l)
  PROVE  /\ \E Q : ReplayOK(Q, img, k) /\ Q[Len(k)] = R[Len(l)]
         /\ \A p, n : n \in 0 .. Len(l) /\ PageOK(p, l, n) => PageOK(p, k, n)
         /\ \A p : PageOK(p, l, Len(l)) => PageOK(p, k, Len(k))
<1>1. /\ l \in Seq(RecordSet) /\ Len(l) \in Nat /\ Len(k) = Len(l) + 1
      /\ k \in Seq(RecordSet) /\ k[Len(l) + 1] = Mark(type)
  BY LogBackward DEF Longer
<1>2. ~IsData(k[Len(l) + 1]) /\ k[Len(l) + 1].next = 0
  BY <1>1 DEF Mark, IsData
<1>3. ASSUME NEW p, NEW n \in 0 .. Len(l), PageOK(p, l, n)
      PROVE  PageOK(p, k, n)
  <2>1. SameUpTo(k, l, n)
    BY DEF Longer
  <2> QED BY <2>1, <1>1, <1>3, PageAgree
<1>4. ASSUME NEW p, PageOK(p, l, Len(l))
      PROVE  PageOK(p, k, Len(k))
  <2>1. PageOK(p, k, Len(l))
    BY <1>1, <1>3, <1>4
  <2>3. PageOK(p, k, Len(l) + 1)
    BY <2>1, <1>1, <1>2, PageKeep
  <2> QED BY <2>3, <1>1
<1>5. PageOK(R[Len(l)], l, Len(l))
  BY <1>1 DEF ReplayOK
<1>6. R[Len(l)] = Redone(R[Len(l)], k, Len(l) + 1)
  BY <1>2 DEF Redone
<1>7. \E Q : ReplayOK(Q, img, k) /\ Q[Len(k)] = R[Len(l)]
  <2>1. PICK r : r = R[Len(l)]
    OBVIOUS
  <2>2. PageOK(r, k, Len(l) + 1) /\ r = Redone(R[Len(l)], k, Len(l) + 1)
    BY <2>1, <1>1, <1>4, <1>5, <1>6
  <2>3. PICK rec : rec = Mark(type)
    OBVIOUS
  <2>4. Longer(k, l, rec) /\ ~IsData(rec)
    BY <2>3, <1>1, <1>2
  <2>5. \E Q : ReplayOK(Q, img, k) /\ Q[Len(k)] = r
    BY <2>2, <2>4, ReplayAppend
  <2> QED BY <2>1, <2>5
<1> QED BY <1>3, <1>4, <1>7

\* A change of the page in the pool, and what redo will make of its record.
LEMMA ReplayStep ==
  ASSUME NEW l, LogOK(l), NEW k, NEW rec, Longer(k, l, rec), LogOK(k), IsData(rec),
         NEW R, NEW img, ReplayOK(R, img, l),
         NEW p, PageOK(p, l, Len(l)), R[Len(l)].free_space_ptr <= p.free_space_ptr,
         rec.slot <= p.slot_count, rec.new = <<>> => rec.slot \in Allocated(p),
         NEW q, Changed(q, p, rec.slot, rec.new),
         Grown(p, rec.slot, rec.new) <= q.free_space_ptr,
         SlotDirStart(q) = DirAfter(p, rec.slot)
  PROVE  /\ PageOK(SetPageLsn(q, Len(l) + 1), k, Len(l) + 1)
         /\ \E Q : ReplayOK(Q, img, k) /\ Q[Len(k)].free_space_ptr <= q.free_space_ptr
<1>1. /\ l \in Seq(RecordSet) /\ Len(l) \in Nat /\ Len(k) = Len(l) + 1
      /\ k \in Seq(RecordSet) /\ k[Len(l) + 1] = rec
      /\ SameUpTo(k, l, Len(l))
  BY LogBackward DEF Longer
<1>2. PICK n \in Nat : n = Len(l)
  BY <1>1
<1>3. PICK a : a = R[n]
  OBVIOUS
<1>4. PICK s : s = rec.slot
  OBVIOUS
<1>5. PICK d : d = rec.new
  OBVIOUS
<1>6. /\ rec \in RecordSet /\ s \in SlotIds /\ d \in Contents /\ n + 1 <= MaxLsn
  <2>1. n + 1 \in 1 .. Len(k)
    BY <1>1, <1>2
  <2>2. rec \in RecordSet /\ s \in SlotIds
    BY <2>1, <1>1, <1>2, <1>4, RecordFacts
  <2>3. RecordOK(k, n + 1)
    BY <2>1 DEF LogOK
  <2> QED BY <2>2, <2>3, <1>5 DEF RecordOK, RecordSet
<1>7. PageOK(a, l, n)
  BY <1>1, <1>2, <1>3 DEF ReplayOK
<1>8. PageOK(a, k, n) /\ PageOK(p, k, n)
  <2>1. n \in 0 .. Len(l)
    BY <1>2
  <2> QED BY <2>1, <1>1, <1>2, <1>7, PageAgree
<1>9. PICK b : b = SetPageLsn(q, n + 1)
  OBVIOUS
<1>10. PageOK(b, k, n + 1)
  BY <1>1, <1>2, <1>4, <1>6, <1>8, <1>9, PageStep
<1>11. /\ a.slot_count = p.slot_count /\ SlotDirStart(a) = SlotDirStart(p)
       /\ Allocated(a) = Allocated(p)
       /\ Content(a, s) = Content(p, s) /\ (s \in Live(a) <=> s \in Live(p))
  BY <1>6, <1>8, SameShape
<1>12. /\ Layout(a) /\ Layout(p) /\ Layout(q)
  BY <1>8 DEF PageOK, Changed
<1>13. /\ Grown(a, s, d) <= Grown(p, s, d) /\ Grown(a, s, d) \in Nat /\ Grown(p, s, d) \in Nat
  BY <1>2, <1>3, <1>6, <1>11, <1>12, GrownLess
<1>14. DirAfter(a, s) = DirAfter(p, s) /\ DirAfter(p, s) \in Int /\ q.free_space_ptr \in Nat
  <2>1. SlotDirStart(q) \in Int /\ q.free_space_ptr \in Nat
    BY <1>12, PageFacts DEF Layout
  <2> QED BY <2>1, <1>4, <1>11 DEF DirAfter
<1>16. Fits(a, rec)
  <2>1. Grown(a, s, d) <= DirAfter(a, s)
    <3>1. Grown(p, s, d) <= q.free_space_ptr /\ q.free_space_ptr <= DirAfter(p, s)
      BY <1>4, <1>5, <1>12 DEF Layout
    <3> QED BY <3>1, <1>13, <1>14
  <2>2. ASSUME rec.type = "UPDATE", rec.old = <<>> PROVE s \notin Live(a)
    <3>1. n + 1 \in 1 .. Len(k)
      BY <1>1, <1>2
    <3>2. UpdateOK(k, n + 1)
      BY <2>2, <3>1, <1>1, <1>2 DEF LogOK, RecordOK
    <3>3. Logged(k, s, n) = <<>>
      BY <3>2, <2>2, <1>1, <1>2, <1>4 DEF UpdateOK
    <3>4. Content(a, s) = <<>>
      BY <3>3, <1>6, <1>8 DEF PageOK
    <3> QED BY <3>4, <1>6, <1>12, ReadIs
  <2> QED BY <2>1, <2>2, <1>4, <1>5, <1>6, <1>11 DEF Fits
<1>17. PICK z : z = RedoRecord(a, rec)
  OBVIOUS
<1>18. Stored(z, a, s, d)
  BY <1>4, <1>5, <1>6, <1>12, <1>16, <1>17, RedoStores
<1>19. Changed(z, a, s, d) /\ z.free_space_ptr = Grown(a, s, d) /\ SlotDirStart(z) = DirAfter(a, s)
  BY <1>18 DEF Stored
<1>20. PICK r : r = SetPageLsn(z, n + 1)
  OBVIOUS
<1>21. PageOK(r, k, n + 1)
  BY <1>1, <1>2, <1>4, <1>5, <1>6, <1>8, <1>19, <1>20, PageStep
<1>22. r.page_lsn = n + 1 /\ r.free_space_ptr = z.free_space_ptr
  <2>1. Layout(z) /\ n + 1 \in Nat
    BY <1>19 DEF Changed
  <2> QED BY <2>1, <1>6, <1>20, Stamp
<1>23. r = Redone(R[Len(l)], k, Len(l) + 1)
  BY <1>1, <1>2, <1>3, <1>17, <1>20 DEF Redone
<1>24. PICK Q : ReplayOK(Q, img, k) /\ Q[Len(k)] = r
  BY <1>2, <1>21, <1>22, <1>23, ReplayAppend
<1>25. r.free_space_ptr <= q.free_space_ptr
  BY <1>4, <1>5, <1>13, <1>14, <1>19, <1>22
<1> QED BY <1>2, <1>9, <1>10, <1>24, <1>25

\* Redo has nothing to do on a page that holds all of the log.
LEMMA ReplayWritten ==
  ASSUME NEW l, LogOK(l), NEW p, PageOK(p, l, Len(l)),
         \A n \in p.page_lsn .. Len(l) : PageOK(p, l, n)
  PROVE  \E Q : ReplayOK(Q, p, l) /\ Q[Len(l)] = p
<1>1. /\ Len(l) \in Nat /\ p.page_lsn \in Nat /\ p.page_lsn <= Len(l)
      /\ \A i \in p.page_lsn + 1 .. Len(l) : ~IsData(l[i])
  BY LogBackward, PageFacts DEF PageOK, Layout
<1>2. PICK b \in Nat : b = p.page_lsn
  BY <1>1
<1>3. PICK n \in Nat : n = Len(l)
  BY <1>1
<1>4. PICK Q : Q = [m \in b .. n |-> p]
  OBVIOUS
<1>5. DOMAIN Q = b .. n /\ b \in 0 .. n /\ \A m \in b .. n : Q[m] = p
  BY <1>1, <1>2, <1>3, <1>4
<1>6. Q[b] = p /\ Q[n] = p
  BY <1>1, <1>2, <1>3, <1>5
<1>7. ASSUME NEW m \in b + 1 .. n PROVE Q[m] = Redone(Q[m - 1], l, m)
  <2>1. m \in b .. n /\ m - 1 \in b .. n
    BY <1>2, <1>3
  <2>2. ~IsData(l[m])
    BY <1>1, <1>2, <1>3
  <2> QED BY <2>1, <2>2, <1>5 DEF Redone
<1>8. ASSUME NEW m \in b .. n
      PROVE  /\ PageOK(Q[m], l, m)
             /\ Q[m].page_lsn >= b
             /\ \A j \in Q[m].page_lsn .. m : Q[j] = Q[m]
  <2>1. \A j \in b .. m : j \in b .. n
    BY <1>2, <1>3
  <2> QED BY <2>1, <1>2, <1>3, <1>5
<1>9. ReplayOK(Q, p, l)
  BY <1>2, <1>3, <1>5, <1>6, <1>7, <1>8 DEF ReplayOK
<1> QED BY <1>3, <1>6, <1>9

\* A page that redo passes through is written out.
LEMMA ReplayFrom ==
  ASSUME NEW l, LogOK(l), NEW R, NEW img, ReplayOK(R, img, l),
         NEW j \in img.page_lsn .. Len(l), NEW p, p = R[j]
  PROVE  /\ p.page_lsn \in 0 .. j
         /\ \E Q : ReplayOK(Q, p, l) /\ \A n \in p.page_lsn .. Len(l) : Q[n] = R[n]
<1>1. Len(l) \in Nat
  BY LogBackward
<1>2. PICK b \in Nat : b = img.page_lsn /\ b <= Len(l)
  BY <1>1 DEF ReplayOK
<1>3. PICK n \in Nat : n = Len(l)
  BY <1>1
<1>4. /\ \A m \in b + 1 .. n : R[m] = Redone(R[m - 1], l, m)
      /\ \A m \in b .. n : /\ PageOK(R[m], l, m)
                           /\ R[m].page_lsn >= b
                           /\ \A i \in R[m].page_lsn .. m : R[i] = R[m]
  BY <1>2, <1>3 DEF ReplayOK
<1>5. PICK c \in Nat : c = p.page_lsn /\ b <= c /\ c <= j /\ j \in b .. n
  <2>1. j \in b .. n
    BY <1>2, <1>3
  <2>2. PageOK(p, l, j) /\ p.page_lsn >= b
    BY <2>1, <1>4
  <2>3. p.page_lsn \in Nat /\ p.page_lsn <= j
    BY <2>2, PageFacts DEF PageOK, Layout
  <2> QED BY <2>1, <2>2, <2>3
<1>6. PICK Q : Q = [m \in c .. n |-> R[m]]
  OBVIOUS
<1>7. /\ DOMAIN Q = c .. n /\ c \in 0 .. n
      /\ \A m \in c .. n : Q[m] = R[m] /\ m \in b .. n
  BY <1>2, <1>3, <1>5, <1>6
<1>8. Q[c] = p
  <2>1. c \in R[j].page_lsn .. j /\ c \in c .. n
    BY <1>2, <1>3, <1>5
  <2>2. R[c] = R[j]
    BY <2>1, <1>4, <1>5
  <2> QED BY <2>1, <2>2, <1>7
<1>9. ASSUME NEW m \in c + 1 .. n PROVE Q[m] = Redone(Q[m - 1], l, m)
  <2>1. m \in c .. n /\ m - 1 \in c .. n /\ m \in b + 1 .. n
    BY <1>2, <1>3, <1>5
  <2> QED BY <2>1, <1>4, <1>7
<1>10. ASSUME NEW m \in c .. n
       PROVE  /\ PageOK(Q[m], l, m)
              /\ Q[m].page_lsn >= c
              /\ \A i \in Q[m].page_lsn .. m : Q[i] = Q[m]
  <2>1. m \in b .. n /\ Q[m] = R[m] /\ PageOK(R[m], l, m) /\ R[m].page_lsn \in Nat
    BY <1>4, <1>7, PageFacts DEF PageOK, Layout
  <2>2. R[m].page_lsn >= c
    <3>1. SUFFICES ASSUME R[m].page_lsn < c PROVE FALSE
      BY <2>1
    <3>2. c \in R[m].page_lsn .. m
      BY <3>1, <2>1, <1>2, <1>3, <1>5
    <3>3. R[c] = R[m]
      BY <3>2, <2>1, <1>4
    <3>4. R[c] = p
      <4>1. c \in R[j].page_lsn .. j
        BY <1>2, <1>3, <1>5
      <4> QED BY <4>1, <1>4, <1>5
    <3> QED BY <3>1, <3>3, <3>4, <1>5
  <2>3. ASSUME NEW i \in R[m].page_lsn .. m PROVE Q[i] = R[m]
    <3>1. i \in c .. n
      BY <2>1, <2>2, <1>2, <1>3
    <3> QED BY <3>1, <2>1, <1>4, <1>7
  <2> QED BY <2>1, <2>2, <2>3
<1>11. ReplayOK(Q, p, l)
  BY <1>3, <1>5, <1>7, <1>8, <1>9, <1>10 DEF ReplayOK
<1>12. p.page_lsn \in 0 .. j
  BY <1>2, <1>3, <1>5
<1> QED BY <1>3, <1>5, <1>7, <1>11, <1>12

\* A crash cuts records off that the image does not hold.
LEMMA ReplayCut ==
  ASSUME NEW l, LogOK(l), NEW R, NEW img, ReplayOK(R, img, l),
         NEW n \in img.page_lsn .. Len(l), NEW k, k = SubSeq(l, 1, n)
  PROVE  \E Q : ReplayOK(Q, img, k)
<1>1. Len(l) \in Nat /\ l \in Seq(RecordSet)
  BY LogBackward
<1>2. PICK b \in Nat : b = img.page_lsn /\ b <= Len(l)
  BY <1>1 DEF ReplayOK
<1>3. n \in Nat /\ n <= Len(l) /\ b <= n /\ n \in 0 .. Len(l)
  BY <1>1, <1>2
<1>4. Len(k) = n /\ SameUpTo(k, l, n)
  BY <1>3, LogCut
<1>5. PICK Q : Q = [m \in b .. n |-> R[m]]
  OBVIOUS
<1>6. /\ DOMAIN Q = b .. n /\ b \in 0 .. n
      /\ \A m \in b .. n : Q[m] = R[m] /\ m \in b .. Len(l)
  BY <1>1, <1>2, <1>3, <1>5
<1>7. /\ R[b] = img
      /\ \A m \in b + 1 .. Len(l) : R[m] = Redone(R[m - 1], l, m)
      /\ \A m \in b .. Len(l) : /\ PageOK(R[m], l, m)
                                /\ R[m].page_lsn >= b
                                /\ \A i \in R[m].page_lsn .. m : R[i] = R[m]
  BY <1>2 DEF ReplayOK
<1>8. Q[b] = img
  BY <1>2, <1>3, <1>6, <1>7
<1>9. ASSUME NEW m \in b + 1 .. n PROVE Q[m] = Redone(Q[m - 1], k, m)
  <2>1. m \in b .. n /\ m - 1 \in b .. n /\ m \in b + 1 .. Len(l) /\ m \in 1 .. n
    BY <1>1, <1>2, <1>3
  <2>2. k[m] = l[m]
    BY <2>1, <1>4 DEF SameUpTo
  <2> QED BY <2>1, <2>2, <1>6, <1>7 DEF Redone
<1>10. ASSUME NEW m \in b .. n
       PROVE  /\ PageOK(Q[m], k, m)
              /\ Q[m].page_lsn >= b
              /\ \A i \in Q[m].page_lsn .. m : Q[i] = Q[m]
  <2>1. /\ m \in b .. Len(l) /\ Q[m] = R[m] /\ PageOK(R[m], l, m) /\ R[m].page_lsn \in Nat
        /\ R[m].page_lsn >= b
    <3>1. m \in b .. Len(l) /\ Q[m] = R[m] /\ PageOK(R[m], l, m) /\ R[m].page_lsn >= b
      BY ONLY <1>6, <1>7, m \in b .. n
    <3>2. R[m] \in PageType
      BY ONLY <3>1 DEF PageOK, Layout
    <3> QED BY <3>1, <3>2, PageFacts
  <2>2. m \in 0 .. Len(l) /\ SameUpTo(k, l, m)
    <3>1. m \in 0 .. Len(l) /\ m \in 0 .. n
      BY <2>1, <1>1, <1>2, <1>3
    <3> QED BY <3>1, <1>3, <1>4 DEF SameUpTo
  <2>3. PageOK(R[m], k, m)
    BY <2>1, <2>2, <1>1, PageAgree
  <2>4. ASSUME NEW i \in R[m].page_lsn .. m PROVE Q[i] = R[m]
    <3>1. i \in b .. n
      BY <2>1, <1>2, <1>3
    <3> QED BY <3>1, <2>1, <1>6, <1>7
  <2> QED BY <2>1, <2>3, <2>4
<1>11. ReplayOK(Q, img, k)
  BY <1>2, <1>4, <1>6, <1>8, <1>9, <1>10 DEF ReplayOK
<1> QED BY <1>11

\* A page nothing was written to, as init_page leaves it and as the file has it.
LEMMA EmptyPage ==
  ASSUME NEW p \in {ZeroPage, InitPage}, NEW l, LogOK(l), NEW n \in 0 .. Len(l),
         \A i \in 1 .. n : ~IsData(l[i])
  PROVE  PageOK(p, l, n) /\ p.page_lsn = 0
<1>1. /\ p.slot_count = 0 /\ p.tombstone_count = 0 /\ p.page_lsn = 0
      /\ p.free_space_ptr \in {0, PAGE_HEADER_SIZE} /\ p \in PageType
  <2>1. ZeroPage \in PageType
    BY MaxSlots, Sizes DEF ZeroPage, PageType
  <2>2. InitPage \in PageType
    <3>1. PICK T : T = 0 .. PAGE_SIZE
      OBVIOUS
    <3>2. PAGE_HEADER_SIZE \in T
      BY <3>1, Sizes
    <3> QED BY <2>1, <3>1, <3>2 DEF InitPage, PageType
  <2>3. /\ ZeroPage.slot_count = 0 /\ ZeroPage.tombstone_count = 0 /\ ZeroPage.page_lsn = 0
        /\ ZeroPage.free_space_ptr = 0
    BY DEF ZeroPage
  <2>4. /\ InitPage.slot_count = 0 /\ InitPage.tombstone_count = 0 /\ InitPage.page_lsn = 0
        /\ InitPage.free_space_ptr = PAGE_HEADER_SIZE
    BY DEF ZeroPage, InitPage
  <2> QED BY <2>1, <2>2, <2>3, <2>4
<1>2. SlotDirStart(p) = PAGE_SIZE
  BY <1>1, Sizes DEF SlotDirStart
<1>3. Allocated(p) = {} /\ Live(p) = {} /\ Tombs(p) = {}
  BY <1>1 DEF Allocated, Live, Tombs
<1>4. Layout(p)
  <2>1. Cardinality({}) = 0
    BY FS_EmptySet
  <2>2. p.free_space_ptr <= SlotDirStart(p)
    BY <1>1, <1>2, Sizes
  <2>3. p.free_space_ptr >= PAGE_HEADER_SIZE \/ (p.free_space_ptr = 0 /\ p.slot_count = 0)
    BY <1>1, Sizes
  <2> QED BY <1>1, <1>3, <2>1, <2>2, <2>3 DEF Layout
<1>5. n \in Nat /\ l \in Seq(RecordSet) /\ Len(l) \in Nat
  BY LogBackward
<1>7. \A s \in SlotIds : ~Touched(l, s, n)
  BY DEF Touched
<1>8. \A s \in SlotIds : Logged(l, s, n) = <<>>
  <2>1. \A s \in SlotIds : Writes(l, s, n) = {}
    BY DEF Writes
  <2> QED BY <2>1, <1>5, LoggedIs
<1>9. \A s \in SlotIds : Content(p, s) = <<>>
  BY <1>3 DEF Content
<1>10. \A i \in p.page_lsn + 1 .. n : ~IsData(l[i])
  BY <1>1
<1>11. p.free_space_ptr <= PAGE_HEADER_SIZE /\ p.page_lsn <= n
  BY <1>1, <1>5, Sizes
<1> QED BY <1>1, <1>3, <1>4, <1>7, <1>8, <1>9, <1>10, <1>11 DEF PageOK

-----------------------------------------------------------------------------
(* The invariant holds initially and is kept by every step.                *)

\* The page in the pool while no redo is under way.
Calm(R, img, l, p) ==
  /\ ReplayOK(R, img, l)
  /\ PageOK(p, l, Len(l))
  /\ \A n \in p.page_lsn .. Len(l) : PageOK(p, l, n)
  /\ p.free_space_ptr >= PAGE_HEADER_SIZE
  /\ R[Len(l)].free_space_ptr <= p.free_space_ptr

\* The invariant, while no redo is under way.
LEMMA CalmFacts ==
  ASSUME IInv, phase # "redo"
  PROVE  /\ \E R : Calm(R, image, log, page)
         /\ LogOK(log) /\ log \in Seq(RecordSet) /\ Len(log) \in Nat
         /\ PageOK(page, log, Len(log)) /\ Layout(page) /\ page \in PageType
         /\ page.free_space_ptr >= PAGE_HEADER_SIZE
         /\ \A s \in SlotIds : Content(page, s) = Logged(log, s, Len(log))
                               /\ Content(page, s) \in Contents
<1>1. PICK R : ReplayOK(R, image, log) /\ PoolOK(R, image, log)
  BY DEF IInv
<1>2. Calm(R, image, log, page)
  BY <1>1 DEF PoolOK, Calm
<1>3. LogOK(log) /\ log \in Seq(RecordSet) /\ Len(log) \in Nat
  BY LogBackward DEF IInv
<1>4. PageOK(page, log, Len(log)) /\ page.free_space_ptr >= PAGE_HEADER_SIZE
  BY <1>2 DEF Calm
<1>5. Layout(page) /\ page \in PageType
  BY <1>4 DEF PageOK, Layout
<1>6. \A s \in SlotIds : Content(page, s) = Logged(log, s, Len(log))
  BY <1>4 DEF PageOK
<1>7. \A s \in SlotIds : Logged(log, s, Len(log)) \in Contents
  <2>1. Len(log) \in 0 .. Len(log)
    BY <1>3
  <2> QED BY <2>1, <1>3, LoggedContents
<1> QED BY <1>2, <1>3, <1>4, <1>5, <1>6, <1>7

\* The invariant of the next state, when no redo is under way there.
LEMMA CalmNext ==
  ASSUME LogOK(log'), ControlOK', (phase # "redo")', NEW Q, Calm(Q, image', log', page')
  PROVE  IInv'
BY DEF IInv, PoolOK, Calm

\* One page that is stamped with the last record of the log.
LEMMA CalmStamped ==
  ASSUME NEW Q, NEW img, NEW l, LogOK(l), ReplayOK(Q, img, l), NEW p, PageOK(p, l, Len(l)),
         p.page_lsn = Len(l), p.free_space_ptr >= PAGE_HEADER_SIZE,
         Q[Len(l)].free_space_ptr <= p.free_space_ptr
  PROVE  Calm(Q, img, l, p)
<1>1. Len(l) \in Nat
  BY LogBackward
<1>2. \A n \in p.page_lsn .. Len(l) : n = Len(l)
  BY <1>1
<1> QED BY <1>2 DEF Calm

\* A page that init_page made, an empty file and an empty log.
THEOREM IInvInit == Init => IInv
<1> SUFFICES ASSUME Init PROVE IInv
  OBVIOUS
<1>1. LogOK(<<>>) /\ Len(<<>>) = 0 /\ <<>> \in Seq(RecordSet)
  BY DEF LogOK
<1>2. PICK l : l = <<>>
  OBVIOUS
<1>3. LogOK(l) /\ Len(l) = 0
  BY <1>1, <1>2
<1>4. PICK z : z = ZeroPage
  OBVIOUS
<1>5. PICK p : p = InitPage
  OBVIOUS
<1>6. PageOK(z, l, 0) /\ z.page_lsn = 0 /\ PageOK(p, l, 0) /\ p.page_lsn = 0
  <2>1. 0 \in 0 .. Len(l) /\ \A i \in 1 .. 0 : ~IsData(l[i])
    BY <1>3
  <2> QED BY <2>1, <1>3, <1>4, <1>5, EmptyPage
<1>7. PICK Q : ReplayOK(Q, z, l) /\ Q[Len(l)] = z
  <2>1. \A n \in z.page_lsn .. Len(l) : n = 0
    BY <1>3, <1>6
  <2> QED BY <2>1, <1>3, <1>6, ReplayWritten
<1>8. z.free_space_ptr = 0 /\ p.free_space_ptr = PAGE_HEADER_SIZE
  BY <1>4, <1>5 DEF ZeroPage, InitPage
<1>9. Calm(Q, z, l, p)
  BY <1>3, <1>6, <1>7, <1>8, Sizes, CalmStamped
<1>10. ControlOK
  BY DEF Init, ControlOK, AtEnd
<1> QED BY <1>2, <1>3, <1>4, <1>5, <1>9, <1>10 DEF Init, IInv, PoolOK, Calm

\* A client's change, logged and stamped.
LEMMA ChangeOK ==
  ASSUME ~EvictAhead, IInv, NEW s \in SlotIds, NEW old \in Contents, NEW new \in Contents,
         old # <<>> \/ new # <<>>, old = Content(page, s),
         s <= page.slot_count, new = <<>> => s \in Allocated(page),
         NEW q, Changed(q, page, s, new), Grown(page, s, new) <= q.free_space_ptr,
         q.free_space_ptr >= PAGE_HEADER_SIZE,
         SlotDirStart(q) = DirAfter(page, s),
         Change(q, Update(s, old, new, last))
  PROVE  IInv'
<1>1. phase = "run" /\ phase' = "run" /\ image' = image /\ cursor' = cursor
  BY DEF Change
<1>2. PICK R : Calm(R, image, log, page)
  BY <1>1, CalmFacts
<1>3. /\ LogOK(log) /\ log \in Seq(RecordSet) /\ Len(log) \in Nat
      /\ PageOK(page, log, Len(log)) /\ Layout(page)
      /\ Content(page, s) = Logged(log, s, Len(log))
  BY <1>1, CalmFacts
<1>4. /\ last = IF AtEnd(log) THEN Len(log) ELSE 0
      /\ cursor = 0
      /\ AtEnd(log) => log[Len(log)].type = "UPDATE"
  BY <1>1 DEF IInv, ControlOK
<1>5. PICK rec : rec = Update(s, old, new, last)
  OBVIOUS
<1>6. /\ rec.type = "UPDATE" /\ rec.slot = s /\ rec.old = old /\ rec.new = new /\ rec.next = last
      /\ IsData(rec) /\ rec \in RecordSet
  <2>1. s \in Nat /\ last \in Nat
    BY <1>3, <1>4, MaxSlots DEF SlotIds
  <2> QED BY <1>5, <2>1 DEF Update, IsData, RecordSet
<1>7. PICK k : k = log'
  OBVIOUS
<1>8. Longer(k, log, rec)
  BY <1>3, <1>5, <1>6, <1>7, AppendLonger DEF Change
<1>9. LogOK(k)
  <2>1. Len(log) + 2 + ChainLength(log, last) + 1 <= MaxLsn
    BY DEF Change, LogRoom
  <2> QED BY <2>1, <1>3, <1>4, <1>5, <1>8, AppendUpdate
<1>10. PICK n \in Nat : n = Len(log) + 1
  BY <1>3
<1>11. Len(k) = n /\ k[n] = rec /\ n <= MaxLsn
  <2>1. Len(k) = n /\ k[n] = rec
    BY <1>8, <1>10 DEF Longer
  <2>2. n \in 1 .. Len(k)
    BY <2>1, <1>3, <1>10
  <2> QED BY <2>1, <2>2, <1>9 DEF LogOK, RecordOK
<1>12. PICK r : r = SetPageLsn(q, n)
  OBVIOUS
<1>13. page' = r /\ last' = n
  BY <1>7, <1>11, <1>12 DEF Change
<1>14. r.page_lsn = n /\ r.free_space_ptr = q.free_space_ptr
  <2>1. Layout(q)
    BY DEF Changed
  <2> QED BY <2>1, <1>11, <1>12, Stamp
<1>16. ReplayOK(R, image, log) /\ R[Len(log)].free_space_ptr <= page.free_space_ptr
  BY <1>2 DEF Calm
<1>17. /\ PageOK(r, k, n)
       /\ \E Q : ReplayOK(Q, image, k) /\ Q[Len(k)].free_space_ptr <= q.free_space_ptr
  BY <1>3, <1>6, <1>8, <1>9, <1>10, <1>12, <1>16, ReplayStep
<1>18. PICK Q : ReplayOK(Q, image, k) /\ Q[Len(k)].free_space_ptr <= q.free_space_ptr
  BY <1>17
<1>19. Calm(Q, image, k, r)
  BY <1>9, <1>11, <1>14, <1>17, <1>18, CalmStamped
<1>20. ControlOK'
  <2>1. AtEnd(k) /\ k[Len(k)].type = "UPDATE"
    <3>1. k # <<>>
      BY <1>11, <1>10, <1>3
    <3> QED BY <3>1, <1>11, <1>6 DEF AtEnd
  <2>2. AtEnd(log') /\ log'[Len(log')].type = "UPDATE" /\ last' = Len(log')
    BY <2>1, <1>7, <1>11, <1>13
  <2> QED BY <2>2, <1>1, <1>4 DEF ControlOK
<1> QED BY <1>1, <1>7, <1>9, <1>13, <1>19, <1>20, CalmNext

\* What a client stores is not empty.
LEMMA PayloadFacts ==
  ASSUME NEW d \in Payloads
  PROVE  d \in Contents /\ d # <<>> /\ Len(d) \in Nat
BY SizesAssumption DEF Contents

\* Insert keeps the invariant.
LEMMA InsertOK ==
  ASSUME ~EvictAhead, IInv, NEW d \in Payloads, Insert(d)
  PROVE  IInv'
<1>1. phase # "redo" /\ CanInsert(page, Len(d))
  BY DEF Insert, Change
<1>2. Layout(page) /\ page.free_space_ptr >= PAGE_HEADER_SIZE /\ page.free_space_ptr \in Nat
  BY <1>1, CalmFacts, PageFacts
<1>3. d \in Contents /\ d # <<>> /\ Len(d) \in Nat /\ <<>> \in Contents
  BY PayloadFacts DEF Contents
<1>4. PICK s : s = NextSlot(page)
  OBVIOUS
<1>5. PICK q : q = InsertRecord(page, d)
  OBVIOUS
<1>6. /\ s \in SlotIds /\ s <= page.slot_count /\ s \notin Live(page)
      /\ q = RedoInsert(page, s, d)
      /\ Start(page) + PREFIX_BYTES + Len(d) <= DirAfter(page, s)
  BY <1>1, <1>2, <1>3, <1>4, <1>5, InsertIsRedo
<1>7. Stored(q, page, s, d)
  BY <1>2, <1>3, <1>6, InsertStores
<1>8. Content(page, s) = <<>>
  BY <1>6 DEF Content
<1>9. q.free_space_ptr = Start(page) + PREFIX_BYTES + Len(d)
  <2>1. Placed(q, page, s, d)
    BY <1>2, <1>3, <1>6, RedoInsertPlaces
  <2> QED BY <2>1 DEF Placed
<1>10. q.free_space_ptr >= PAGE_HEADER_SIZE
  BY <1>2, <1>3, <1>9, Sizes DEF Start
<1>11. /\ Changed(q, page, s, d) /\ Grown(page, s, d) <= q.free_space_ptr
       /\ SlotDirStart(q) = DirAfter(page, s)
  <2>1. q.free_space_ptr = Grown(page, s, d)
    BY <1>7 DEF Stored
  <2>2. q.free_space_ptr \in Int
    BY <1>2, <1>3, <1>9, Sizes DEF Start
  <2> QED BY <1>7, <2>1, <2>2 DEF Stored
<1>12. Change(q, Update(s, <<>>, d, last))
  BY <1>4, <1>5 DEF Insert
<1> QED BY <1>3, <1>6, <1>8, <1>10, <1>11, <1>12, ChangeOK

\* A record that can be read is in a live slot.
LEMMA ReadLive ==
  ASSUME IInv, phase # "redo", NEW s \in SlotIds, ReadRecord(page, s) # <<>>
  PROVE  /\ s \in Live(page) /\ s \in Allocated(page) /\ s <= page.slot_count
         /\ ReadRecord(page, s) = Content(page, s) /\ Content(page, s) \in Contents
         /\ DirAfter(page, s) = SlotDirStart(page)
         /\ s \in Nat /\ page.slot_count \in Nat /\ s < page.slot_count
<1>1. Layout(page) /\ page \in PageType /\ Content(page, s) \in Contents
  BY CalmFacts
<1>2. ReadRecord(page, s) = Content(page, s) /\ s \in Live(page)
  BY <1>1, ReadIs
<1>3. s \in Allocated(page)
  BY <1>2 DEF Live
<1>4. s \in Nat /\ page.slot_count \in Nat /\ s < page.slot_count
  BY <1>1, <1>3, AllocatedIs
<1> QED BY <1>1, <1>2, <1>3, <1>4 DEF DirAfter

\* What ChangeOK asks of the changed page.
LEMMA StoredFits ==
  ASSUME NEW p, Layout(p), p.free_space_ptr >= PAGE_HEADER_SIZE, NEW s \in SlotIds,
         NEW d \in Contents, NEW q, Stored(q, p, s, d)
  PROVE  /\ Changed(q, p, s, d) /\ Grown(p, s, d) <= q.free_space_ptr
         /\ q.free_space_ptr >= PAGE_HEADER_SIZE
         /\ SlotDirStart(q) = DirAfter(p, s)
<1>1. /\ p.free_space_ptr \in Nat /\ Len(d) \in Nat /\ PREFIX_BYTES \in Nat
      /\ PAGE_HEADER_SIZE \in Nat
  BY PageFacts, Sizes DEF Layout, Contents
<1>2. Grown(p, s, d) \in Nat /\ Grown(p, s, d) >= PAGE_HEADER_SIZE
  BY <1>1 DEF Grown, Start
<1> QED BY <1>2 DEF Stored

\* Delete keeps the invariant.
LEMMA DeleteOK ==
  ASSUME ~EvictAhead, IInv, NEW s \in SlotIds, Delete(s)
  PROVE  IInv'
<1>1. phase # "redo" /\ ReadRecord(page, s) # <<>>
  BY DEF Delete, Change
<1>2. Layout(page) /\ page.free_space_ptr >= PAGE_HEADER_SIZE /\ <<>> \in Contents
  BY <1>1, CalmFacts DEF Contents
<1>3. /\ s \in Allocated(page) /\ s <= page.slot_count
      /\ ReadRecord(page, s) = Content(page, s) /\ Content(page, s) \in Contents
  BY <1>1, ReadLive
<1>4. PICK q : q = DeleteRecord(page, s)
  OBVIOUS
<1>5. Stored(q, page, s, <<>>)
  BY <1>2, <1>3, <1>4, DeleteStores
<1>6. /\ Changed(q, page, s, <<>>) /\ Grown(page, s, <<>>) <= q.free_space_ptr
      /\ q.free_space_ptr >= PAGE_HEADER_SIZE
      /\ SlotDirStart(q) = DirAfter(page, s)
  BY <1>2, <1>5, StoredFits
<1>7. Change(q, Update(s, Content(page, s), <<>>, last))
  BY <1>3, <1>4 DEF Delete
<1> QED BY <1>1, <1>2, <1>3, <1>6, <1>7, ChangeOK

\* An update in place keeps the invariant.
LEMMA OverwriteOK ==
  ASSUME ~EvictAhead, IInv, NEW s \in SlotIds, NEW d \in Payloads, Overwrite(s, d)
  PROVE  IInv'
<1>1. phase # "redo" /\ ReadRecord(page, s) # <<>> /\ CanUpdate(page, s, d)
  BY DEF Overwrite, Change
<1>2. Layout(page) /\ page.free_space_ptr >= PAGE_HEADER_SIZE
  BY <1>1, CalmFacts
<1>3. /\ s \in Allocated(page) /\ s <= page.slot_count
      /\ ReadRecord(page, s) = Content(page, s) /\ Content(page, s) \in Contents
  BY <1>1, ReadLive
<1>4. PICK q : q = UpdateRecord(page, s, d)
  OBVIOUS
<1>5. d \in Contents /\ d # <<>>
  BY PayloadFacts
<1>6. Stored(q, page, s, d)
  BY <1>1, <1>2, <1>4, <1>5, UpdateStores
<1>7. /\ Changed(q, page, s, d) /\ Grown(page, s, d) <= q.free_space_ptr
      /\ q.free_space_ptr >= PAGE_HEADER_SIZE
      /\ SlotDirStart(q) = DirAfter(page, s)
  BY <1>2, <1>5, <1>6, StoredFits
<1>8. Change(q, Update(s, Content(page, s), d, last))
  BY <1>3, <1>4 DEF Overwrite
<1> QED BY <1>3, <1>5, <1>7, <1>8, ChangeOK

\* An update by delete and insert keeps it: redo takes no more space than it did.
LEMMA ReplaceOK ==
  ASSUME ~EvictAhead, IInv, NEW s \in SlotIds, NEW d \in Payloads, Replace(s, d)
  PROVE  IInv'
<1>1. PICK o : o = DeleteRecord(page, s)
  OBVIOUS
<1>2. PICK q : q = InsertRecord(o, d)
  OBVIOUS
<1>3. /\ phase # "redo" /\ ReadRecord(page, s) # <<>>
      /\ CanInsert(o, Len(d)) /\ NextSlot(o) = s
      /\ Change(q, Update(s, ReadRecord(page, s), d, last))
  BY <1>1, <1>2 DEF Replace, Change
<1>4. /\ Layout(page) /\ page \in PageType /\ page.free_space_ptr >= PAGE_HEADER_SIZE
      /\ page.free_space_ptr \in Nat
  BY <1>3, CalmFacts, PageFacts
<1>5. /\ s \in Live(page) /\ s \in Allocated(page) /\ s <= page.slot_count
      /\ ReadRecord(page, s) = Content(page, s) /\ Content(page, s) \in Contents
      /\ DirAfter(page, s) = SlotDirStart(page)
  BY <1>3, ReadLive
<1>6. d \in Contents /\ d # <<>> /\ Len(d) \in Nat
  BY PayloadFacts
<1>7. Changed(o, page, s, <<>>) /\ o.free_space_ptr = page.free_space_ptr /\ o.slot_count = page.slot_count
  BY <1>1, <1>4, <1>5, DeleteChanges
<1>8. Layout(o) /\ Start(o) = Start(page) /\ DirAfter(o, s) = DirAfter(page, s)
  BY <1>7 DEF Changed, Start, DirAfter, SlotDirStart
<1>9. q = RedoInsert(o, s, d) /\ Start(page) + PREFIX_BYTES + Len(d) <= DirAfter(page, s)
  <2>1. o.free_space_ptr >= PAGE_HEADER_SIZE
    BY <1>4, <1>7
  <2> QED BY <2>1, <1>2, <1>3, <1>6, <1>8, InsertIsRedo
<1>10. /\ Changed(q, page, s, d)
       /\ q.free_space_ptr = Start(page) + PREFIX_BYTES + Len(d)
       /\ SlotDirStart(q) = DirAfter(page, s)
  BY <1>1, <1>4, <1>5, <1>6, <1>9, ReplaceChanges
<1>11. /\ Grown(page, s, d) <= q.free_space_ptr
       /\ q.free_space_ptr >= PAGE_HEADER_SIZE
  <2>1. Start(page) = page.free_space_ptr
    BY <1>4, Sizes DEF Start
  <2> QED BY <2>1, <1>4, <1>6, <1>10, Sizes DEF Grown
<1> QED BY <1>3, <1>5, <1>6, <1>10, <1>11, ChangeOK

\* The end of a transaction is logged; no page changes.
LEMMA MarkKeeps ==
  ASSUME IInv, phase # "redo", AtEnd(log), NEW type \in {"COMMIT", "TXN_END"},
         page' = page, image' = image, log' = Append(log, Mark(type))
  PROVE  LogOK(log') /\ ~AtEnd(log') /\ \E Q : Calm(Q, image', log', page')
<1>2. PICK R : Calm(R, image, log, page)
  BY CalmFacts
<1>3. LogOK(log) /\ log \in Seq(RecordSet) /\ Len(log) \in Nat /\ page \in PageType
  BY CalmFacts
<1>5. PICK k : k = log'
  OBVIOUS
<1>6. Longer(k, log, Mark(type))
  <2>1. Mark(type) \in RecordSet
    BY DEF Mark, RecordSet, Contents
  <2> QED BY <2>1, <1>3, <1>5, AppendLonger
<1>7. LogOK(k) /\ ~IsData(k[Len(log) + 1])
  BY <1>3, <1>6, AppendMark
<1>8. Len(k) = Len(log) + 1
  BY <1>6 DEF Longer
<1>9. ReplayOK(R, image, log)
  BY <1>2 DEF Calm
<1>10. /\ \E Q : ReplayOK(Q, image, k) /\ Q[Len(k)] = R[Len(log)]
       /\ \A p, n : n \in 0 .. Len(log) /\ PageOK(p, log, n) => PageOK(p, k, n)
       /\ \A p : PageOK(p, log, Len(log)) => PageOK(p, k, Len(k))
  BY <1>3, <1>6, <1>7, <1>9, ReplayMark
<1>11. PICK Q : ReplayOK(Q, image, k) /\ Q[Len(k)] = R[Len(log)]
  BY <1>10
<1>12. Calm(Q, image, k, page)
  <2>1. PageOK(page, k, Len(k))
    BY <1>2, <1>10 DEF Calm
  <2>2. ASSUME NEW n \in page.page_lsn .. Len(k) PROVE PageOK(page, k, n)
    <3>1. CASE n = Len(k)
      BY <2>1, <3>1
    <3>2. CASE n # Len(k)
      <4>1. n \in page.page_lsn .. Len(log) /\ n \in 0 .. Len(log)
        BY <3>2, <1>3, <1>8, PageFacts
      <4> QED BY <4>1, <1>2, <1>10 DEF Calm
    <3> QED BY <3>1, <3>2
  <2> QED BY <2>1, <2>2, <1>2, <1>11 DEF Calm
<1>13. ~AtEnd(k)
  BY <1>7, <1>8 DEF AtEnd
<1> QED BY <1>5, <1>7, <1>12, <1>13

\* Commit keeps the invariant.
LEMMA CommitOK ==
  ASSUME IInv, Commit
  PROVE  IInv'
<1>1. /\ phase = "run" /\ phase' = "run" /\ last # 0 /\ last' = 0 /\ cursor' = cursor
      /\ page' = page /\ image' = image /\ log' = Append(log, Mark("COMMIT"))
  BY DEF Commit
<1>2. AtEnd(log) /\ cursor = 0
  BY <1>1 DEF IInv, ControlOK
<1>3. LogOK(log') /\ ~AtEnd(log') /\ \E Q : Calm(Q, image', log', page')
  BY <1>1, <1>2, MarkKeeps
<1>4. ControlOK'
  BY <1>1, <1>2, <1>3 DEF ControlOK
<1> QED BY <1>1, <1>3, <1>4, CalmNext

\* The start of an abort keeps the invariant.
LEMMA AbortOK ==
  ASSUME IInv, Abort
  PROVE  IInv'
<1>1. /\ phase = "run" /\ phase' = "undo" /\ last # 0 /\ last' = last /\ cursor' = last
      /\ page' = page /\ image' = image /\ log' = log
  BY DEF Abort
<1>2. PICK R : Calm(R, image, log, page)
  BY <1>1, CalmFacts
<1>3. LogOK(log) /\ Len(log) \in Nat
  BY <1>1, CalmFacts
<1>4. AtEnd(log) /\ last = Len(log)
  BY <1>1 DEF IInv, ControlOK
<1>5. ControlOK'
  BY <1>1, <1>3, <1>4 DEF ControlOK, AtEnd, Frontier
<1> QED BY <1>1, <1>2, <1>3, <1>5, CalmNext

\* Undo of a record writes what its compensation record says.
LEMMA UndoIsRedo ==
  ASSUME NEW p, NEW rec, rec.type = "UPDATE", rec.new = <<>> => rec.slot \notin Live(p),
         NEW clr, clr = Clr(rec.slot, rec.old, rec.next)
  PROVE  UndoRecord(p, rec) = RedoRecord(p, clr)
<1>1. clr.type = "CLR" /\ clr.slot = rec.slot /\ clr.new = rec.old
  BY DEF Clr
<1>2. rec.old # <<>> => RedoRecord(p, clr) = Restore(p, rec.slot, rec.old)
  BY <1>1 DEF RedoRecord
<1>3. rec.old = <<>> => RedoRecord(p, clr) = DeleteRecord(p, rec.slot)
  BY <1>1 DEF RedoRecord
<1>4. rec.new = <<>> => Restore(p, rec.slot, rec.old) = RedoInsert(p, rec.slot, rec.old)
  BY DEF Restore, CanUpdate, DeleteRecord
<1> QED BY <1>2, <1>3, <1>4 DEF UndoRecord

\* The undo of a delete or of a size change writes its record also where there
\* is no room for it.
LEMMA UndoOverruns ==
  ASSUME NEW p, Layout(p), NEW clr \in RecordSet, clr.type = "CLR",
         clr.slot \in Allocated(p), ~(Grown(p, clr.slot, clr.new) <= SlotDirStart(p)),
         NEW n, NEW r, r = SetPageLsn(RedoRecord(p, clr), n)
  PROVE  /\ clr.new # <<>> /\ r.page_lsn = n
         /\ ~(r.free_space_ptr <= SlotDirStart(r))
<1>1. PICK s : s = clr.slot
  OBVIOUS
<1>2. PICK d : d = clr.new
  OBVIOUS
<1>3. p \in PageType /\ d \in Contents /\ s \in Allocated(p) /\ p.free_space_ptr <= SlotDirStart(p)
  BY <1>1, <1>2 DEF Layout, RecordSet
<1>4. /\ s \in SlotIds /\ s \in Nat /\ p.slot_count \in Nat /\ s < p.slot_count
  BY <1>3, PageFacts, AllocatedIs
<1>5. d # <<>> /\ Len(Content(p, s)) # Len(d)
      /\ ~(Start(p) + PREFIX_BYTES + Len(d) <= SlotDirStart(p))
  BY <1>1, <1>2, <1>3 DEF Grown
<1>6. ~CanUpdate(p, s, d)
  BY <1>4, <1>5, ReadIs DEF CanUpdate
<1>7. PICK o : o = DeleteRecord(p, s)
  OBVIOUS
<1>8. RedoRecord(p, clr) = RedoInsert(o, s, d)
  BY <1>1, <1>2, <1>5, <1>6, <1>7 DEF RedoRecord, Restore
<1>9. o \in PageType /\ o.free_space_ptr = p.free_space_ptr /\ o.slot_count = p.slot_count
  <2>1. CASE s \in Live(p)
    BY <2>1, <1>7, DeleteChanges DEF Changed, Layout
  <2>2. CASE s \notin Live(p)
    BY <2>2, <1>3, <1>7 DEF DeleteRecord
  <2> QED BY <2>1, <2>2
<1>10. PICK q : /\ HasFields(q) /\ q.slot_count = p.slot_count
                /\ RedoInsert(o, s, d) = WriteAt(q, s, Start(p), d)
  <2>1. PICK c : c = U16(o.tombstone_count - 1)
    OBVIOUS
  <2>2. PICK q : q = IF IsTombstone(o, s) THEN [o EXCEPT !.tombstone_count = c] ELSE o
    OBVIOUS
  <2>3. HasFields(o)
    BY <1>9 DEF HasFields, PageType
  <2>4. HasFields(q) /\ q.slot_count = p.slot_count
    BY <2>2, <2>3, <1>9 DEF HasFields
  <2>5. RedoInsert(o, s, d) = WriteAt(q, s, Start(p), d)
    BY <2>1, <2>2, <1>4, <1>9 DEF RedoInsert, Start
  <2> QED BY <2>4, <2>5
<1>11. PICK z : z = WriteAt(q, s, Start(p), d)
  OBVIOUS
<1>12. /\ z.slot_count = p.slot_count /\ HasFields(z)
       /\ z.free_space_ptr = Start(p) + PREFIX_BYTES + Len(d)
  <2>1. Overwritten(z, q, s, Start(p), d)
    BY <1>10, <1>11, WriteAtFields
  <2> QED BY <2>1, <1>10 DEF Overwritten
<1>13. r = [z EXCEPT !.page_lsn = n]
  BY <1>8, <1>10, <1>11 DEF SetPageLsn
<1>14. r.page_lsn = n /\ r.slot_count = z.slot_count /\ r.free_space_ptr = z.free_space_ptr
  BY <1>12, <1>13 DEF HasFields
<1>15. SlotDirStart(r) = SlotDirStart(p)
  BY <1>12, <1>14 DEF SlotDirStart
<1> QED BY <1>2, <1>5, <1>12, <1>14, <1>15

\* One turn of the undo loop keeps it, or leads beyond the free space.
LEMMA UndoOK ==
  ASSUME IInv, Undo
  PROVE  Inv'
<1>1. phase = "undo" /\ phase' = "undo" /\ cursor # 0 /\ image' = image /\ last' = last
  BY DEF Undo
<1>2. PICK R : Calm(R, image, log, page)
  BY <1>1, CalmFacts
<1>3. /\ LogOK(log) /\ log \in Seq(RecordSet) /\ Len(log) \in Nat
      /\ PageOK(page, log, Len(log)) /\ Layout(page) /\ page \in PageType
      /\ page.free_space_ptr >= PAGE_HEADER_SIZE
  BY <1>1, CalmFacts
<1>4. AtEnd(log) /\ last \in 0 .. Len(log) /\ cursor \in {Len(log), Frontier(log, Len(log))}
  BY <1>1 DEF IInv, ControlOK
<1>5. Len(log) \in 1 .. Len(log) /\ IsData(log[Len(log)])
  BY <1>3, <1>4 DEF AtEnd
<1>6. CASE log[cursor].type = "CLR"
  <2>1. page' = page /\ log' = log /\ cursor' = log[cursor].next
    BY <1>6 DEF Undo
  <2>2. cursor = Len(log)
    <3>1. Frontier(log, Len(log)) # 0 => log[Frontier(log, Len(log))].type = "UPDATE"
      BY <1>3, <1>5, RecordFacts
    <3> QED BY <3>1, <1>1, <1>4, <1>6
  <2>3. cursor' = Frontier(log, Len(log))
    BY <2>1, <2>2, <1>6 DEF Frontier
  <2>4. ControlOK'
    BY <1>1, <1>4, <2>1, <2>3 DEF ControlOK, AtEnd, Frontier
  <2> QED BY <1>1, <1>2, <1>3, <2>1, <2>4, CalmNext DEF Inv
<1>7. CASE log[cursor].type # "CLR"
  <2>1. PICK f : f = cursor
    OBVIOUS
  <2>2. f = Frontier(log, Len(log)) /\ f # 0
    <3>1. CASE cursor = Len(log)
      BY <3>1, <2>1, <1>1, <1>5, <1>7 DEF IsData, Frontier
    <3>2. CASE cursor = Frontier(log, Len(log))
      BY <3>2, <2>1, <1>1
    <3> QED BY <3>1, <3>2, <1>4
  <2>3. /\ f \in 1 .. Len(log) /\ log[f].type = "UPDATE" /\ log[f] \in RecordSet
        /\ UpdateOK(log, f) /\ log[f].next \in 0 .. f - 1
        /\ \A t \in SlotIds : Logged(log, t, Len(log)) = Logged(log, t, f)
    BY <2>2, <1>3, <1>5, FrontierFacts, SMTT(30)
  <2>4. PICK s : s = log[f].slot
    OBVIOUS
  <2>5. PICK d : d = log[f].old
    OBVIOUS
  <2>6. PICK clr : clr = Clr(s, d, log[f].next)
    OBVIOUS
  <2>7. /\ s \in SlotIds /\ s \in Nat /\ d \in Contents /\ log[f].next \in Nat
        /\ log[f].next \in 0 .. Len(log) /\ log[f].new \in Contents
    BY <2>3, <2>4, <2>5, <1>3, MaxSlots DEF UpdateOK, SlotIds, RecordSet
  <2>8. /\ clr.type = "CLR" /\ clr.slot = s /\ clr.new = d /\ clr.next = log[f].next
        /\ IsData(clr) /\ clr \in RecordSet
    BY <2>6, <2>7 DEF Clr, IsData, RecordSet, Contents
  <2>9. PICK k : k = log'
    OBVIOUS
  <2>10. PICK q : q = UndoRecord(page, log[f])
    OBVIOUS
  <2>11. /\ k = Append(log, clr) /\ page' = SetPageLsn(q, Len(k)) /\ cursor' = log[f].next
    BY <2>1, <2>4, <2>5, <2>6, <2>9, <2>10, <1>7 DEF Undo
  <2>12. Longer(k, log, clr)
    BY <2>8, <2>11, <1>3, AppendLonger
  <2>13. LogOK(k)
    BY <2>2, <2>4, <2>5, <2>6, <2>12, <1>3, <1>4, AppendClr
  <2>14. Content(page, s) = log[f].new
    <3>1. Content(page, s) = Logged(log, s, Len(log))
      BY <2>7, <1>3 DEF PageOK
    <3>2. Logged(log, s, f) = log[f].new
      <4>1. f \in Nat /\ f # 0 /\ IsData(log[f])
        BY <2>3 DEF IsData
      <4> QED BY <4>1, <2>4, LoggedLast
    <3> QED BY <3>1, <3>2, <2>3, <2>7
  <2>15. s \in Allocated(page)
    <3>1. Touched(log, s, Len(log))
      BY <2>3, <2>4 DEF Touched, IsData
    <3> QED BY <3>1, <2>7, <1>3 DEF PageOK
  <2>16. /\ page.slot_count \in Nat /\ s < page.slot_count /\ s <= page.slot_count
         /\ DirAfter(page, s) = SlotDirStart(page)
    <3>1. page.slot_count \in Nat /\ s < page.slot_count
      BY <2>7, <2>15, <1>3, AllocatedIs
    <3> QED BY <3>1, <2>7 DEF DirAfter
  <2>17. q = RedoRecord(page, clr)
    <3>1. log[f].new = <<>> => s \notin Live(page)
      BY <2>7, <2>14, <1>3, ReadIs
    <3>2. PICK rec : rec = log[f]
      OBVIOUS
    <3>3. rec.type = "UPDATE" /\ (rec.new = <<>> => rec.slot \notin Live(page))
          /\ clr = Clr(rec.slot, rec.old, rec.next)
      BY <3>1, <3>2, <2>3, <2>4, <2>5, <2>6
    <3>4. UndoRecord(page, rec) = RedoRecord(page, clr)
      BY <3>3, UndoIsRedo
    <3> QED BY <3>2, <3>4, <2>10
  <2>18. PICK n \in Nat : n = Len(log) + 1
    BY <1>3
  <2>19. Len(k) = n /\ k[n] = clr /\ n <= MaxLsn
    <3>1. Len(k) = n /\ k[n] = clr
      BY <2>12, <2>18 DEF Longer
    <3>2. n \in 1 .. Len(k)
      BY <3>1, <2>18, <1>3
    <3> QED BY <3>1, <3>2, <2>13 DEF LogOK, RecordOK
  <2>20. ControlOK'
    <3>1. AtEnd(k) /\ Frontier(k, Len(k)) = log[f].next /\ last \in 0 .. Len(k)
      <4>1. k # <<>>
        BY <2>11, <1>3
      <4> QED BY <4>1, <2>8, <2>18, <2>19, <1>3, <1>4 DEF AtEnd, Frontier
    <3>2. /\ AtEnd(log') /\ cursor' \in {Len(log'), Frontier(log', Len(log'))}
          /\ last' \in 0 .. Len(log')
      BY <3>1, <2>9, <2>11, <1>1
    <3> QED BY <3>2, <1>1 DEF ControlOK, AtEnd, Frontier
  <2>21. ReplayOK(R, image, log) /\ R[Len(log)].free_space_ptr <= page.free_space_ptr
    BY <1>2 DEF Calm
  <2>22. CASE Grown(page, s, d) <= SlotDirStart(page)
    <3>1. Fits(page, clr)
      BY <2>7, <2>8, <2>15, <2>16, <2>22 DEF Fits
    <3>2. Stored(q, page, s, d)
      BY <2>8, <2>17, <3>1, <1>3, RedoStores
    <3>3. /\ Changed(q, page, s, d) /\ Grown(page, s, d) <= q.free_space_ptr
          /\ q.free_space_ptr >= PAGE_HEADER_SIZE
          /\ SlotDirStart(q) = DirAfter(page, s)
      BY <2>7, <3>2, <1>3, StoredFits
    <3>4. PICK r : r = SetPageLsn(q, n)
      OBVIOUS
    <3>5. page' = r /\ r.page_lsn = n /\ r.free_space_ptr = q.free_space_ptr
      <4>1. Layout(q)
        BY <3>3 DEF Changed
      <4>2. r.page_lsn = n /\ r.free_space_ptr = q.free_space_ptr
        BY <4>1, <2>19, <3>4, Stamp
      <4> QED BY <4>2, <2>11, <2>19, <3>4
    <3>6. /\ PageOK(r, k, n)
          /\ \E Q : ReplayOK(Q, image, k) /\ Q[Len(k)].free_space_ptr <= q.free_space_ptr
      BY <1>3, <2>8, <2>12, <2>13, <2>15, <2>16, <2>18, <2>21, <3>3, <3>4, ReplayStep
    <3>7. PICK Q : ReplayOK(Q, image, k) /\ Q[Len(k)].free_space_ptr <= q.free_space_ptr
      BY <3>6
    <3>8. Calm(Q, image, k, r)
      BY <2>13, <2>19, <3>3, <3>5, <3>6, <3>7, CalmStamped
    <3> QED BY <1>1, <2>9, <2>13, <2>20, <3>5, <3>8, CalmNext DEF Inv
  <2>23. CASE ~(Grown(page, s, d) <= SlotDirStart(page))
    <3>1. page' = SetPageLsn(RedoRecord(page, clr), n)
      BY <2>11, <2>17, <2>19
    <3>2. d # <<>> /\ page'.page_lsn = n /\ ~(page'.free_space_ptr <= SlotDirStart(page'))
      <4>1. PICK r : r = page'
        OBVIOUS
      <4>2. d # <<>> /\ r.page_lsn = n /\ ~(r.free_space_ptr <= SlotDirStart(r))
        BY <4>1, <3>1, <2>8, <2>15, <2>23, <1>3, UndoOverruns
      <4> QED BY <4>1, <4>2
    <3>3. ~NoOverrun'
      BY <3>2 DEF NoOverrun, SlotDirStart
    <3>4. PICK m : m = image.page_lsn
      OBVIOUS
    <3>5. m \in 0 .. Len(log) /\ m \in 0 .. Len(k) /\ PageOK(image, log, m)
      BY <3>4, <2>18, <2>19, <2>21, <1>3 DEF ReplayOK
    <3>6. PageOK(image, k, m)
      <4>1. SameUpTo(k, log, m)
        BY <3>5, <2>12 DEF Longer
      <4> QED BY <4>1, <3>5, <1>3, PageAgree
    <3>7. /\ LogOK(log') /\ log'[Len(log')].type = "CLR" /\ log'[Len(log')].new # <<>>
          /\ page'.page_lsn = Len(log')
          /\ \E i \in 0 .. Len(log') : PageOK(image', log', i)
      BY <3>2, <3>5, <3>6, <2>8, <2>9, <2>13, <2>19, <1>1
    <3> QED BY <3>3, <3>7, <2>20, <1>1 DEF Inv, Overran
  <2> QED BY <2>22, <2>23
<1> QED BY <1>6, <1>7

\* The end of undo keeps the invariant.
LEMMA UndoDoneOK ==
  ASSUME IInv, UndoDone
  PROVE  IInv'
<1>1. /\ phase = "undo" /\ phase' = "run" /\ cursor = 0 /\ last' = 0 /\ cursor' = cursor
      /\ page' = page /\ image' = image /\ log' = Append(log, Mark("TXN_END"))
  BY DEF UndoDone
<1>2. AtEnd(log)
  BY <1>1 DEF IInv, ControlOK
<1>3. LogOK(log') /\ ~AtEnd(log') /\ \E Q : Calm(Q, image', log', page')
  BY <1>1, <1>2, MarkKeeps
<1>4. ControlOK'
  BY <1>1, <1>3 DEF ControlOK
<1> QED BY <1>1, <1>3, <1>4, CalmNext

\* Writing the page out keeps it, in the middle of redo too.
LEMMA FlushOK ==
  ASSUME IInv, Flush
  PROVE  IInv'
<1>1. /\ image # page /\ image' = page /\ page' = page /\ log' = log /\ last' = last
      /\ phase' = phase /\ cursor' = cursor
  BY DEF Flush
<1>2. LogOK(log) /\ Len(log) \in Nat /\ LogOK(log')
  BY <1>1, LogBackward DEF IInv
<1>3. ControlOK'
  BY <1>1 DEF IInv, ControlOK, AtEnd, Frontier
<1>4. CASE phase # "redo"
  <2>1. PICK R : Calm(R, image, log, page)
    BY <1>4, CalmFacts
  <2>2. PICK Q : ReplayOK(Q, page, log) /\ Q[Len(log)] = page
    BY <2>1, <1>2, ReplayWritten DEF Calm
  <2>3. page.free_space_ptr <= page.free_space_ptr
    BY <1>4, CalmFacts, PageFacts
  <2>4. Calm(Q, page, log, page)
    BY <2>1, <2>2, <2>3 DEF Calm
  <2> QED BY <2>4, <1>1, <1>2, <1>3, <1>4, CalmNext
<1>5. CASE phase = "redo"
  <2>1. PICK R : ReplayOK(R, image, log) /\ PoolOK(R, image, log)
    BY DEF IInv
  <2>2. /\ cursor \in 1 .. Len(log) + 1
        /\ page = R[IF cursor > image.page_lsn THEN cursor - 1 ELSE image.page_lsn]
    BY <2>1, <1>5 DEF PoolOK
  <2>3. image.page_lsn \in 0 .. Len(log) /\ R[image.page_lsn] = image
    BY <2>1 DEF ReplayOK
  <2>4. cursor > image.page_lsn /\ page = R[cursor - 1]
    BY <2>2, <2>3, <1>1
  <2>5. PICK j : j = cursor - 1
    OBVIOUS
  <2>6. j \in image.page_lsn .. Len(log) /\ page = R[j]
    BY <2>2, <2>3, <2>4, <2>5, <1>2
  <2>7. /\ page.page_lsn \in 0 .. j
        /\ \E Q : ReplayOK(Q, page, log) /\ \A n \in page.page_lsn .. Len(log) : Q[n] = R[n]
    BY <2>1, <2>6, <1>2, ReplayFrom
  <2>8. PICK Q : ReplayOK(Q, page, log) /\ \A n \in page.page_lsn .. Len(log) : Q[n] = R[n]
    BY <2>7
  <2>9. j \in page.page_lsn .. Len(log) /\ cursor > page.page_lsn
    BY <2>2, <2>3, <2>5, <2>6, <2>7, <1>2
  <2>10. page = Q[IF cursor > page.page_lsn THEN cursor - 1 ELSE page.page_lsn]
    BY <2>5, <2>6, <2>8, <2>9
  <2>11. PoolOK(Q, image, log)'
    BY <2>2, <2>10, <1>1, <1>5 DEF PoolOK
  <2>12. ReplayOK(Q, image', log')
    BY <2>8, <1>1
  <2> QED BY <2>11, <2>12, <1>2, <1>3 DEF IInv
<1> QED BY <1>4, <1>5

\* A crash keeps it: the image and what is left of the log can be redone.
LEMMA CrashOK ==
  ASSUME IInv, Crash
  PROVE  IInv'
<1>1. /\ page' = image /\ phase' = "redo" /\ cursor' = 1 /\ last' = 0 /\ image' = image
  BY DEF Crash
<1>2. PICK n \in image.page_lsn .. Len(log) : log' = SubSeq(log, 1, n)
  BY DEF Crash
<1>3. PICK R : ReplayOK(R, image, log)
  BY DEF IInv
<1>4. LogOK(log) /\ Len(log) \in Nat
  BY LogBackward DEF IInv
<1>5. n \in 0 .. Len(log) /\ image.page_lsn \in Nat
  BY <1>2, <1>3, <1>4 DEF ReplayOK
<1>6. PICK k : k = log'
  OBVIOUS
<1>7. LogOK(k) /\ Len(k) = n
  BY <1>2, <1>4, <1>5, <1>6, LogCut
<1>8. PICK Q : ReplayOK(Q, image, k)
  BY <1>2, <1>3, <1>4, <1>6, ReplayCut
<1>9. image = Q[IF 1 > image.page_lsn THEN 1 - 1 ELSE image.page_lsn]
  <2>1. Q[image.page_lsn] = image
    BY <1>8 DEF ReplayOK
  <2>2. 1 > image.page_lsn => image.page_lsn = 1 - 1
    BY <1>5
  <2> QED BY <2>1, <2>2
<1>10. PoolOK(Q, image, log)'
  <2>1. 1 \in 1 .. Len(k) + 1
    BY <1>5, <1>7
  <2> QED BY <2>1, <1>1, <1>6, <1>9 DEF PoolOK
<1>11. ReplayOK(Q, image', log')
  BY <1>1, <1>6, <1>8
<1>12. ControlOK'
  BY <1>1 DEF ControlOK
<1> QED BY <1>6, <1>7, <1>10, <1>11, <1>12 DEF IInv

\* The redo of one record leads to the next page of the replay.
LEMMA RedoOK ==
  ASSUME IInv, Redo
  PROVE  IInv'
<1>1. /\ phase = "redo" /\ phase' = "redo" /\ cursor <= Len(log) /\ cursor' = cursor + 1
      /\ image' = image /\ log' = log /\ last' = last
      /\ page' = IF IsData(log[cursor]) /\ page.page_lsn < cursor
                 THEN SetPageLsn(RedoRecord(page, log[cursor]), cursor) ELSE page
  BY DEF Redo
<1>2. PICK R : ReplayOK(R, image, log) /\ PoolOK(R, image, log)
  BY DEF IInv
<1>3. /\ cursor \in 1 .. Len(log) + 1
      /\ page = R[IF cursor > image.page_lsn THEN cursor - 1 ELSE image.page_lsn]
  BY <1>1, <1>2 DEF PoolOK
<1>4. LogOK(log) /\ Len(log) \in Nat /\ last = 0
  BY <1>1, LogBackward DEF IInv, ControlOK
<1>5. /\ image.page_lsn \in 0 .. Len(log) /\ R[image.page_lsn] = image
      /\ \A n \in image.page_lsn + 1 .. Len(log) : R[n] = Redone(R[n - 1], log, n)
      /\ \A n \in image.page_lsn .. Len(log) : PageOK(R[n], log, n)
  BY <1>2 DEF ReplayOK
<1>6. page' = R[IF cursor + 1 > image.page_lsn THEN cursor ELSE image.page_lsn]
  <2>1. CASE cursor > image.page_lsn
    <3>1. page = R[cursor - 1] /\ cursor - 1 \in image.page_lsn .. Len(log)
      BY <2>1, <1>3, <1>4, <1>5
    <3>2. page.page_lsn <= cursor - 1 /\ page.page_lsn \in Nat
      BY <3>1, <1>5, PageFacts DEF PageOK, Layout
    <3>3. page' = Redone(R[cursor - 1], log, cursor)
      BY <3>1, <3>2, <1>1, <1>3 DEF Redone
    <3>4. cursor \in image.page_lsn + 1 .. Len(log)
      BY <2>1, <1>1, <1>3, <1>4, <1>5
    <3> QED BY <3>3, <3>4, <2>1, <1>3, <1>5
  <2>2. CASE ~(cursor > image.page_lsn)
    <3>1. page = image
      BY <2>2, <1>3, <1>5
    <3>2. page' = page
      BY <3>1, <2>2, <1>1, <1>3, <1>5
    <3>3. cursor + 1 > image.page_lsn => cursor = image.page_lsn
      BY <2>2, <1>3, <1>5
    <3> QED BY <3>1, <3>2, <3>3, <1>5
  <2> QED BY <2>1, <2>2
<1>7. PoolOK(R, image, log)'
  <2>1. cursor \in Int /\ cursor + 1 \in 1 .. Len(log) + 1 /\ cursor' = cursor + 1
    BY <1>1, <1>3, <1>4
  <2>2. /\ phase' = "redo" /\ cursor' \in 1 .. Len(log') + 1
        /\ page' = R[IF cursor' > image'.page_lsn THEN cursor' - 1 ELSE image'.page_lsn]
    <3>1. PICK c : c = cursor + 1
      OBVIOUS
    <3>2. c - 1 = cursor /\ c \in 1 .. Len(log) + 1 /\ cursor' = c
      BY <2>1, <3>1
    <3>3. page' = R[IF c > image.page_lsn THEN c - 1 ELSE image.page_lsn]
      BY <3>1, <3>2, <1>6
    <3> QED BY <3>2, <3>3, <1>1
  <2> QED BY <2>2 DEF PoolOK
<1>8. LogOK(log') /\ ReplayOK(R, image', log')
  BY <1>1, <1>2, <1>4
<1>9. ControlOK'
  BY <1>1, <1>4 DEF ControlOK
<1> QED BY <1>7, <1>8, <1>9 DEF IInv

\* After redo the page holds all of the log.
LEMMA RedoDoneOK ==
  ASSUME IInv, RedoDone
  PROVE  IInv'
<1>1. /\ phase = "redo" /\ cursor > Len(log) /\ image' = image /\ log' = log
      /\ last' = (IF AtEnd(log) THEN Len(log) ELSE 0)
      /\ cursor' = (IF AtEnd(log) THEN Len(log) ELSE 0)
      /\ phase' = (IF AtEnd(log) THEN "undo" ELSE "run")
      /\ page' = IF \E i \in 1 .. Len(log) : IsData(log[i]) THEN page ELSE InitPage
  BY DEF RedoDone, AtEnd
<1>2. PICK R : ReplayOK(R, image, log) /\ PoolOK(R, image, log)
  BY DEF IInv
<1>3. LogOK(log) /\ Len(log) \in Nat /\ LogOK(log')
  BY <1>1, LogBackward DEF IInv
<1>4. image.page_lsn \in 0 .. Len(log)
  BY <1>2 DEF ReplayOK
<1>5. page = R[Len(log)]
  <2>1. /\ cursor \in 1 .. Len(log) + 1
        /\ page = R[IF cursor > image.page_lsn THEN cursor - 1 ELSE image.page_lsn]
    BY <1>1, <1>2 DEF PoolOK
  <2>2. cursor > image.page_lsn /\ cursor - 1 = Len(log)
    BY <2>1, <1>1, <1>3, <1>4
  <2> QED BY <2>1, <2>2
<1>6. PICK n \in Nat : n = Len(log) /\ n \in image.page_lsn .. Len(log) /\ n \in 0 .. Len(log)
  BY <1>3, <1>4
<1>7. /\ PageOK(page, log, n) /\ page.page_lsn >= image.page_lsn
      /\ \A m \in page.page_lsn .. n : R[m] = page
  BY <1>2, <1>5, <1>6 DEF ReplayOK
<1>8. /\ Layout(page) /\ page \in PageType /\ page.free_space_ptr \in Nat
      /\ page.page_lsn \in Nat
  BY <1>7, PageFacts DEF PageOK, Layout
<1>9. \E Q : Calm(Q, image, log, page')
  <2>1. CASE \E i \in 1 .. Len(log) : IsData(log[i])
    <3>1. page' = page
      BY <2>1, <1>1
    <3>2. ASSUME NEW m \in page.page_lsn .. n PROVE PageOK(page, log, m)
      <4>1. m \in image.page_lsn .. Len(log) /\ R[m] = page
        BY <1>3, <1>4, <1>6, <1>7, <1>8
      <4>2. PageOK(R[m], log, m)
        BY <4>1, <1>2 DEF ReplayOK
      <4> QED BY <4>1, <4>2
    <3>3. page.free_space_ptr >= PAGE_HEADER_SIZE
      <4>1. PICK i \in 1 .. Len(log) : IsData(log[i])
        BY <2>1
      <4>2. log[i].slot \in SlotIds
        BY <4>1, <1>3, RecordFacts
      <4>3. Touched(log, log[i].slot, n)
        BY <4>1, <1>6 DEF Touched
      <4>4. log[i].slot \in Allocated(page)
        BY <4>2, <4>3, <1>7 DEF PageOK
      <4>5. page.slot_count # 0
        BY <4>2, <4>4, <1>8, AllocatedIs
      <4> QED BY <4>5, <1>8 DEF Layout
    <3>4. Calm(R, image, log, page)
      BY <3>2, <3>3, <1>2, <1>5, <1>6, <1>7, <1>8 DEF Calm
    <3> QED BY <3>1, <3>4
  <2>2. CASE ~\E i \in 1 .. Len(log) : IsData(log[i])
    <3>1. PICK p : p = InitPage
      OBVIOUS
    <3>2. ASSUME NEW m \in 0 .. Len(log) PROVE PageOK(p, log, m) /\ p.page_lsn = 0
      <4>1. \A i \in 1 .. m : i \in 1 .. Len(log)
        BY <1>3
      <4>2. \A i \in 1 .. m : ~IsData(log[i])
        BY <4>1, <2>2
      <4> QED BY <4>2, <3>1, <1>3, EmptyPage
    <3>3. page.free_space_ptr <= PAGE_HEADER_SIZE
      <4>1. \A s \in SlotIds : s \notin Allocated(page)
        BY <2>2, <1>6, <1>7 DEF PageOK, Touched
      <4>2. page.slot_count = 0
        <5>1. /\ page.slot_count \in Nat /\ page.slot_count <= MAX_SLOTS_PER_PAGE
              /\ MAX_SLOTS_PER_PAGE \in Nat
          BY <1>8, PageFacts, MaxSlots
        <5>2. page.slot_count # 0 => 0 \in SlotIds /\ 0 \in Allocated(page)
          BY <5>1 DEF SlotIds, Allocated
        <5> QED BY <5>2, <4>1
      <4> QED BY <4>2, <1>7 DEF PageOK
    <3>4. p.free_space_ptr = PAGE_HEADER_SIZE
      BY <3>1 DEF InitPage, ZeroPage
    <3>5. Calm(R, image, log, p)
      BY <3>2, <3>3, <3>4, <1>2, <1>5, <1>6, Sizes DEF Calm
    <3>6. page' = p
      BY <2>2, <3>1, <1>1
    <3> QED BY <3>5, <3>6
  <2> QED BY <2>1, <2>2
<1>10. PICK Q : Calm(Q, image', log', page')
  BY <1>1, <1>9
<1>11. ControlOK'
  <2>1. CASE AtEnd(log)
    <3>1. Len(log) \in 0 .. Len(log)
      BY <1>3
    <3> QED BY <2>1, <3>1, <1>1 DEF ControlOK, AtEnd, Frontier
  <2>2. CASE ~AtEnd(log)
    BY <2>2, <1>1 DEF ControlOK, AtEnd
  <2> QED BY <2>1, <2>2
<1>12. phase' # "redo"
  BY <1>1
<1> QED BY <1>3, <1>10, <1>11, <1>12, CalmNext

\* The invariant says that nothing overran.
LEMMA IntactHasRoom ==
  ASSUME IInv
  PROVE  NoOverrun
<1>1. PICK R : ReplayOK(R, image, log) /\ PoolOK(R, image, log)
  BY DEF IInv
<1>2. CASE phase # "redo"
  BY <1>2, CalmFacts DEF NoOverrun, Layout
<1>3. CASE phase = "redo"
  <2>1. PICK n : n = IF cursor > image.page_lsn THEN cursor - 1 ELSE image.page_lsn
    OBVIOUS
  <2>2. /\ cursor \in 1 .. Len(log) + 1 /\ page = R[n]
        /\ image.page_lsn \in 0 .. Len(log) /\ Len(log) \in Nat
        /\ \A m \in image.page_lsn .. Len(log) : PageOK(R[m], log, m)
    BY <1>1, <1>3, <2>1, LogBackward DEF PoolOK, ReplayOK, IInv
  <2>3. n \in image.page_lsn .. Len(log)
    BY <2>1, <2>2
  <2>4. Layout(page)
    BY <2>2, <2>3 DEF PageOK
  <2> QED BY <2>4 DEF NoOverrun, Layout
<1> QED BY <1>2, <1>3

\* Every step of the client, of undo, of a crash and of redo keeps the
\* invariant, or is an undo that runs out of room; after that there is no step.
THEOREM InvStep ==
  ASSUME ~EvictAhead, Inv, [Next]_vars
  PROVE  Inv'
<1>1. CASE IInv /\ Next
  <2>1. CASE \E d \in Payloads : Insert(d)
    BY <1>1, <2>1, InsertOK DEF Inv
  <2>2. CASE \E s \in SlotIds : Delete(s)
    BY <1>1, <2>2, DeleteOK DEF Inv
  <2>3. CASE \E s \in SlotIds, d \in Payloads : Overwrite(s, d)
    BY <1>1, <2>3, OverwriteOK DEF Inv
  <2>4. CASE \E s \in SlotIds, d \in Payloads : Replace(s, d)
    BY <1>1, <2>4, ReplaceOK DEF Inv
  <2>5. CASE Commit
    BY <1>1, <2>5, CommitOK DEF Inv
  <2>6. CASE Abort
    BY <1>1, <2>6, AbortOK DEF Inv
  <2>7. CASE Undo
    BY <1>1, <2>7, UndoOK
  <2>8. CASE UndoDone
    BY <1>1, <2>8, UndoDoneOK DEF Inv
  <2>9. CASE Flush
    BY <1>1, <2>9, FlushOK DEF Inv
  <2>10. CASE Crash
    BY <1>1, <2>10, CrashOK DEF Inv
  <2>11. CASE Redo
    BY <1>1, <2>11, RedoOK DEF Inv
  <2>12. CASE RedoDone
    BY <1>1, <2>12, RedoDoneOK DEF Inv
  <2> QED BY <1>1, <2>1, <2>2, <2>3, <2>4, <2>5, <2>6, <2>7, <2>8, <2>9, <2>10, <2>11,
             <2>12 DEF Next
<1>2. CASE Overran /\ Next
  BY <1>2 DEF Overran, Next
<1>3. CASE UNCHANGED vars
  <2>1. IInv => IInv'
    BY <1>3 DEF vars, IInv, ControlOK, PoolOK, AtEnd, Frontier
  <2>2. Overran => Overran'
    BY <1>3 DEF vars, Overran, NoOverrun, SlotDirStart, ControlOK, AtEnd, Frontier
  <2> QED BY <2>1, <2>2 DEF Inv
<1> QED BY <1>1, <1>2, <1>3 DEF Inv

-----------------------------------------------------------------------------
(* What the invariant says of the page and of the image.                   *)

\* The page and the image hold some prefix of the log, up to their LSN at least.
LEMMA BothHold ==
  ASSUME IInv
  PROVE  /\ log \in Seq(RecordSet) /\ Len(log) \in Nat
         /\ \A p \in {page, image} : \E n \in 0 .. Len(log) : PageOK(p, log, n)
         /\ phase # "redo" => PageOK(page, log, Len(log))
<1>1. PICK R : ReplayOK(R, image, log) /\ PoolOK(R, image, log)
  BY DEF IInv
<1>2. log \in Seq(RecordSet) /\ Len(log) \in Nat
  BY LogBackward DEF IInv
<1>3. /\ image.page_lsn \in 0 .. Len(log) /\ R[image.page_lsn] = image
      /\ \A n \in image.page_lsn .. Len(log) : PageOK(R[n], log, n)
  BY <1>1 DEF ReplayOK
<1>4. PageOK(image, log, image.page_lsn)
  <2>1. image.page_lsn \in image.page_lsn .. Len(log)
    BY <1>2, <1>3
  <2> QED BY <2>1, <1>3
<1>5. phase # "redo" => PageOK(page, log, Len(log))
  BY CalmFacts
<1>6. \E n \in 0 .. Len(log) : PageOK(page, log, n)
  <2>1. CASE phase # "redo"
    BY <2>1, <1>2, <1>5
  <2>2. CASE phase = "redo"
    <3>1. PICK n : n = IF cursor > image.page_lsn THEN cursor - 1 ELSE image.page_lsn
      OBVIOUS
    <3>2. cursor \in 1 .. Len(log) + 1 /\ page = R[n]
      BY <2>2, <3>1, <1>1 DEF PoolOK
    <3>3. n \in image.page_lsn .. Len(log) /\ n \in 0 .. Len(log)
      BY <3>1, <3>2, <1>2, <1>3
    <3> QED BY <3>2, <3>3, <1>3
  <2> QED BY <2>1, <2>2
<1> QED BY <1>2, <1>3, <1>4, <1>5, <1>6

\* The pages of Intact hold some prefix of the log.
LEMMA IntactHold ==
  ASSUME Inv, NEW p \in Intact
  PROVE  /\ log \in Seq(RecordSet) /\ Len(log) \in Nat
         /\ \E n \in 0 .. Len(log) : PageOK(p, log, n)
<1>1. CASE IInv
  BY <1>1, IntactHasRoom, BothHold DEF Intact
<1>2. CASE Overran
  BY <1>2, LogBackward DEF Overran, Intact
<1> QED BY <1>1, <1>2 DEF Inv

\* What they satisfy in every state.
LEMMA IntactLaidOut ==
  ASSUME Inv, NEW p \in Intact
  PROVE  /\ Layout(p) /\ p \in PageType
         /\ \A s \in SlotIds : /\ ReadRecord(p, s) = Logged(log, s, p.page_lsn)
                               /\ Content(p, s) \in Contents
<1>1. PICK n \in 0 .. Len(log) : PageOK(p, log, n)
  BY IntactHold
<1>2. Layout(p) /\ p \in PageType /\ p.page_lsn \in Nat /\ p.page_lsn <= n /\ n \in Nat
      /\ \A i \in p.page_lsn + 1 .. n : ~IsData(log[i])
  BY <1>1, IntactHold, PageFacts DEF PageOK, Layout
<1>3. ASSUME NEW s \in SlotIds
      PROVE  ReadRecord(p, s) = Logged(log, s, p.page_lsn) /\ Content(p, s) \in Contents
  <2>1. ReadRecord(p, s) = Logged(log, s, n) /\ Content(p, s) = Logged(log, s, n)
    BY <1>1, <1>2, ReadIs DEF PageOK
  <2>2. Logged(log, s, n) = Logged(log, s, p.page_lsn)
    BY <1>2, LoggedSame
  <2>3. Logged(log, s, n) \in Contents
    BY <1>1, IntactHold, LoggedContents
  <2> QED BY <2>1, <2>2, <2>3
<1> QED BY <1>2, <1>3

\* The invariant implies the type invariant.
LEMMA TypeFromInv ==
  ASSUME Inv
  PROVE  TypeOK
<1>1. Intact \subseteq PageType
  BY IntactLaidOut
<1>0. LogOK(log) /\ ControlOK
  BY DEF Inv, IInv, Overran
<1>2. log \in Seq(RecordSet) /\ Len(log) \in Nat /\ MaxLsn \in Nat
  BY <1>0, LogBackward, Sizes
<1>3. Len(log) <= MaxLsn
  <2>1. CASE Len(log) = 0
    BY <2>1, <1>2
  <2>2. CASE Len(log) # 0
    <3>1. Len(log) \in 1 .. Len(log)
      BY <2>2, <1>2
    <3>2. RecordOK(log, Len(log))
      BY <3>1, <1>0 DEF LogOK
    <3> QED BY <3>2 DEF RecordOK
  <2> QED BY <2>1, <2>2
<1>4. CASE phase = "run"
  <2>1. last \in 0 .. Len(log) /\ cursor = 0
    BY <1>0, <1>2, <1>4 DEF ControlOK
  <2> QED BY <2>1, <1>1, <1>2, <1>3, <1>4 DEF TypeOK
<1>5. CASE phase = "undo"
  <2>1. /\ AtEnd(log) /\ last \in 0 .. Len(log)
        /\ cursor \in {Len(log), Frontier(log, Len(log))}
    BY <1>0, <1>5 DEF ControlOK
  <2>2. Len(log) \in 1 .. Len(log)
    BY <2>1, <1>2 DEF AtEnd
  <2>3. Frontier(log, Len(log)) \in 0 .. Len(log)
    BY <2>2, <1>0, RecordFacts
  <2>4. cursor \in 0 .. MaxLsn + 1
    BY <2>1, <2>3, <1>2, <1>3
  <2> QED BY <2>1, <2>4, <1>1, <1>3, <1>5 DEF TypeOK
<1>6. CASE phase = "redo"
  <2>1. last = 0 /\ cursor \in 1 .. Len(log) + 1
    BY <1>0, <1>6 DEF Inv, Overran, IInv, ControlOK, PoolOK
  <2>2. last \in 0 .. Len(log) /\ cursor \in 0 .. MaxLsn + 1
    BY <2>1, <1>2, <1>3
  <2> QED BY <2>2, <1>1, <1>3, <1>6 DEF TypeOK
<1> QED BY <1>0, <1>4, <1>5, <1>6 DEF ControlOK

\* compact of a page that is laid out keeps every record and every RID.
LEMMA CompactSound ==
  ASSUME NEW p, Layout(p), \A s \in SlotIds : Content(p, s) \in Contents,
         NEW c, c = Compact(p)
  PROVE  /\ c.slot_count = p.slot_count
         /\ \A s \in SlotIds : ReadRecord(c, s) = ReadRecord(p, s)
         /\ c.tombstone_count = Cardinality(Tombs(c))
         /\ p.free_space_ptr >= PAGE_HEADER_SIZE => FreeSpace(c) >= FreeSpace(p)
<1>0. p \in PageType /\ p.free_space_ptr \in Nat /\ SlotDirStart(p) \in Int
  BY PageFacts DEF Layout
<1>1. CASE p.free_space_ptr >= PAGE_HEADER_SIZE
  <2>1. /\ Layout(c) /\ \A s \in SlotIds : Content(c, s) = Content(p, s)
        /\ c.slot_count = p.slot_count /\ c.free_space_ptr <= p.free_space_ptr
    BY <1>1, CompactKeeps
  <2>2. \A s \in SlotIds : ReadRecord(c, s) = ReadRecord(p, s)
    BY <2>1, ReadIs
  <2>3. SlotDirStart(c) = SlotDirStart(p) /\ c.free_space_ptr \in Nat
    BY <2>1, PageFacts DEF SlotDirStart, Layout
  <2>4. FreeSpace(c) >= FreeSpace(p)
    BY <2>1, <2>3, <1>0 DEF FreeSpace, Layout
  <2> QED BY <2>1, <2>2, <2>4 DEF Layout
<1>2. CASE ~(p.free_space_ptr >= PAGE_HEADER_SIZE)
  <2>1. p.slot_count = 0
    BY <1>2 DEF Layout
  <2>2. PICK f : IsEmit(f, p, 0) /\ Compact(p) = f[0]
    BY <2>1, CompactIs
  <2>3. c = EmitNone(p)
    BY <2>2 DEF IsEmit
  <2>4. Layout(c) /\ Live(c) = {} /\ c.slot_count = 0
    BY <2>3, EmitEmpty
  <2>5. Live(p) = {}
    BY <2>1 DEF Live, Allocated
  <2>6. \A s \in SlotIds : Content(c, s) = <<>> /\ Content(p, s) = <<>>
    BY <2>4, <2>5 DEF Content
  <2>7. \A s \in SlotIds : ReadRecord(c, s) = ReadRecord(p, s)
    BY <2>4, <2>6, ReadIs
  <2> QED BY <2>1, <2>4, <2>7, <1>2 DEF Layout
<1> QED BY <1>1, <1>2

\* The inductive invariant: the pages that redo will pass through lie within
\* their bounds and hold what the log says, whatever the client of page.cpp
\* did, until an undo runs out of room.
THEOREM InvHolds ==
  ASSUME ~EvictAhead
  PROVE  Spec => []Inv
<1>1. Init => Inv
  BY IInvInit DEF Inv
<1>2. Inv /\ [Next]_vars => Inv'
  BY InvStep
<1> QED BY <1>1, <1>2, PTL DEF Spec

\* Offsets and lengths stay within the page, and slot_count and
\* tombstone_count never wrap as the uint16_t they are.
THEOREM TypeCorrect ==
  ASSUME ~EvictAhead
  PROVE  Spec => []TypeOK
<1>1. Inv => TypeOK
  BY TypeFromInv
<1> QED BY <1>1, InvHolds, PTL

\* tombstone_count, which can_insert and insert_record trust, counts the
\* tombstones of the directory.
THEOREM TombstonesAreCounted ==
  ASSUME ~EvictAhead
  PROVE  Spec => []TombstonesCounted
<1>1. Inv => TombstonesCounted
  <2> SUFFICES ASSUME Inv PROVE TombstonesCounted
    OBVIOUS
  <2>1. \A p \in Intact : p.tombstone_count = Cardinality(Tombs(p))
    BY IntactLaidOut DEF Layout
  <2> QED BY <2>1 DEF TombstonesCounted, Tombs
<1> QED BY <1>1, InvHolds, PTL

\* No insert, undo or redo lets two records share a byte, or a record leave the
\* data region.
THEOREM RecordsAreDisjoint ==
  ASSUME ~EvictAhead
  PROVE  Spec => []RecordsDisjoint
<1>1. Inv => RecordsDisjoint
  <2> SUFFICES ASSUME Inv, NEW p \in Intact, NEW s \in Live(p)
               PROVE  /\ p.slots[s].offset >= PAGE_HEADER_SIZE
                      /\ End(p, s) <= p.free_space_ptr
                      /\ p.mem[p.slots[s].offset] = p.slots[s].length
                      /\ \A t \in Live(p) \ {s} :
                            \/ End(p, s) <= p.slots[t].offset
                            \/ End(p, t) <= p.slots[s].offset
    BY DEF RecordsDisjoint, End
  <2>1. Layout(p)
    BY IntactLaidOut
  <2> QED BY <2>1 DEF Layout
<1> QED BY <1>1, InvHolds, PTL

\* redo_insert asks for no space (page.cpp:141): redo has room for every record
\* all the same, on every image that reached the disk, and insert_record takes
\* no more than can_insert found.  Only undo writes into the slot directory.
THEOREM RedoHasRoom ==
  ASSUME ~EvictAhead
  PROVE  Spec => []OnlyUndoOverruns
<1>1. Inv => OnlyUndoOverruns
  BY IntactHasRoom DEF Inv, Overran, OnlyUndoOverruns
<1> QED BY <1>1, InvHolds, PTL

\* compact, called in whatever state, keeps every RID and loses no space
\* (page.cpp:258).
THEOREM CompactionIsSound ==
  ASSUME ~EvictAhead
  PROVE  Spec => []CompactionSound
<1>1. Inv => CompactionSound
  <2> SUFFICES ASSUME Inv, NEW p \in Intact, NEW c, c = Compact(p)
               PROVE  /\ c.slot_count = p.slot_count
                      /\ \A s \in SlotIds : ReadRecord(c, s) = ReadRecord(p, s)
                      /\ c.tombstone_count = Cardinality(Tombs(c))
                      /\ p.free_space_ptr >= PAGE_HEADER_SIZE => FreeSpace(c) >= FreeSpace(p)
    BY DEF CompactionSound, Tombs
  <2>1. Layout(p) /\ \A s \in SlotIds : Content(p, s) \in Contents
    BY IntactLaidOut
  <2> QED BY <2>1, CompactSound
<1> QED BY <1>1, InvHolds, PTL

\* read_record returns what the log up to page_lsn says, on the page and on
\* the image, between any two steps of undo and redo.
THEOREM PagesMatchLog ==
  ASSUME ~EvictAhead
  PROVE  Spec => []PageMatchesLog
<1>1. Inv => PageMatchesLog
  BY IntactLaidOut DEF PageMatchesLog
<1> QED BY <1>1, InvHolds, PTL

\* Outside redo the page holds every change the log holds.
THEOREM NothingIsMissing ==
  ASSUME ~EvictAhead
  PROVE  Spec => []NothingMissing
<1>1. IInv => NothingMissing
  BY BothHold DEF NothingMissing, PageOK
<1>2. Overran => NothingMissing
  <2> SUFFICES ASSUME Overran PROVE NothingMissing
    OBVIOUS
  <2>1. Len(log) \in Nat /\ page.page_lsn = Len(log)
    BY LogBackward DEF Overran
  <2>2. \A i \in page.page_lsn + 1 .. Len(log) : FALSE
    BY <2>1
  <2> QED BY <2>2 DEF NothingMissing
<1> QED BY <1>1, <1>2, InvHolds, PTL DEF Inv
=============================================================================
