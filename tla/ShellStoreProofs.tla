-------------------------- MODULE ShellStoreProofs --------------------------
(***************************************************************************)
(* Theorems about ShellStore for every set of keys and values, every page  *)
(* size and every bound, without the five sequences of commands that       *)
(* Allowed names.                                                          *)
(*                                                                         *)
(* The log alone says what the heap holds after each of its records        *)
(* (Heap).  A page, in the pool or in the file, shows the heap as of its   *)
(* LSN; the index is the heap turned around; what the user has stored is   *)
(* the heap after the last record, and what is committed the heap as of    *)
(* the last record that ended a transaction (Base).                        *)
(***************************************************************************)
EXTENDS ShellStore, TLAPS, WellFoundedInduction

-----------------------------------------------------------------------------
(* The log.                                                                *)

Rids == (1 .. MaxPages) \X (1 .. SlotsPerPage)

Cells == RecordSet \cup {<<>>}

LogRecords ==
    [type : {"BEGIN", "UPDATE", "COMMIT", "ABORT", "CLR", "TXN_END"},
     rid : Rids \cup {NoRid}, old : Cells, new : Cells, key : Keys \cup {<<>>}, prev : Nat]

Writes(l, i, r) == IsData(l[i]) /\ l[i].rid = r

\* The i-th record is the last of the first n that writes r.
IsLast(l, n, r, i) ==
    Writes(l, i, r) /\ \A j \in i + 1 .. n : ~Writes(l, j, r)

\* What the first n records of the log leave at r.
Heap(l, n, r) ==
    IF \E i \in 1 .. n : IsLast(l, n, r, i)
    THEN l[CHOOSE i \in 1 .. n : IsLast(l, n, r, i)].new
    ELSE <<>>

HeapSet(l, n) == {Heap(l, n, r) : r \in Rids} \ {<<>>}

Ends(rec) == rec.type \in {"COMMIT", "TXN_END"}

\* The last of the first n records that ended a transaction is the b-th.
IsBase(l, n, b) ==
    (b = 0 \/ Ends(l[b])) /\ \A j \in b + 1 .. n : ~Ends(l[j])

Base(l, n) == CHOOSE b \in 0 .. n : IsBase(l, n, b)

\* Where the undo of the transaction that the n-th record belongs to starts.
Frontier(l, n) == IF l[n].type \in {"ABORT", "CLR"} THEN l[n].prev ELSE n

\* An UPDATE puts a record where there is none, and no other of its key;
\* takes one away; or replaces one by another of its key.
UpdateOK(l, i) ==
    LET rec == l[i]
    IN  /\ rec.rid \in Rids
        /\ rec.old = Heap(l, i - 1, rec.rid)
        /\ \/ /\ rec.old = <<>> /\ rec.new \in RecordSet /\ rec.key = rec.new[1]
              /\ \A r \in Rids : Heap(l, i - 1, r) # <<>> => Heap(l, i - 1, r)[1] # rec.key
           \/ rec.old \in RecordSet /\ rec.new = <<>> /\ rec.key = rec.old[1]
           \/ rec.old \in RecordSet /\ rec.new \in RecordSet /\ rec.old[1] = rec.new[1]
              /\ rec.key = <<>>

\* A CLR undoes the UPDATE that undo has come to.
ClrOK(l, i) ==
    LET u == Frontier(l, i - 1)
    IN  /\ u \in 1 .. i - 1
        /\ l[u].type = "UPDATE"
        /\ l[i].rid = l[u].rid /\ l[i].new = l[u].old /\ l[i].prev = u - 1

\* What a record says of those before it: transactions follow one another.
RecordOK(l, i) ==
    LET m == i - 1
        after(types) == m # 0 /\ l[m].type \in types
    IN  /\ l[i].prev < i
        /\ l[i].type = "BEGIN" => (m = 0 \/ Ends(l[m])) /\ l[i].prev = 0
        /\ l[i].type = "UPDATE" =>
              after({"BEGIN", "UPDATE"}) /\ l[i].prev = m /\ UpdateOK(l, i)
        /\ l[i].type = "COMMIT" => after({"BEGIN", "UPDATE"})
        /\ l[i].type = "ABORT" => after({"BEGIN", "UPDATE"}) /\ l[i].prev = m
        /\ l[i].type = "CLR" => after({"UPDATE", "ABORT", "CLR"}) /\ ClrOK(l, i)
        /\ l[i].type = "TXN_END" =>
              m # 0 /\ (Ends(l[m]) \/ l[Frontier(l, m)].type = "BEGIN")

LogOK(l) ==
    /\ l \in Seq(LogRecords)
    /\ \A i \in 1 .. Len(l) : RecordOK(l, i)

-----------------------------------------------------------------------------
(* Pages and index.                                                        *)

\* The page with this id shows the log up to its LSN, which is at most n.
Shows(p, id, l, n) ==
    /\ p \in PageSet
    /\ p.lsn <= n
    /\ \A s \in 1 .. SlotsPerPage : ReadRecord(p, s) = Heap(l, p.lsn, <<id, s>>)

PagesShow(ps, l, n) ==
    /\ ps \in Seq(PageSet)
    /\ Len(ps) <= MaxPages
    /\ \A p \in 1 .. Len(ps) : Shows(ps[p], p, l, n)

\* No record behind the page's LSN changes it, and every record has its page.
Latest(ps, l) ==
    \A i \in 1 .. Len(l) : IsData(l[i]) =>
        l[i].rid[1] \in 1 .. Len(ps) /\ i <= ps[l[i].rid[1]].lsn

\* The index names the record of each key, and no other place.
IndexOK(ix, l) ==
    /\ ix \in [DOMAIN ix -> Rids]
    /\ \A k \in DOMAIN ix :
          Heap(l, Len(l), ix[k]) # <<>> /\ Heap(l, Len(l), ix[k])[1] = k
    /\ \A r \in Rids : Heap(l, Len(l), r) # <<>> =>
          Heap(l, Len(l), r)[1] \in DOMAIN ix /\ ix[Heap(l, Len(l), r)[1]] = r

-----------------------------------------------------------------------------
(* The process.                                                            *)

IsProcess(st) ==
  st = [pages |-> st.pages, data_page |-> st.data_page, index |-> st.index,
        log |-> st.log, last |-> st.last]

\* Pages and log agree.
StoreOK(st) ==
  /\ IsProcess(st)
  /\ LogOK(st.log)
  /\ PagesShow(st.pages, st.log, Len(st.log))
  /\ Latest(st.pages, st.log)

DataPageOK(st) ==
  /\ st.data_page \in 0 .. IndexLeaf
  /\ st.data_page = 0 => \A i \in 1 .. Len(st.log) : ~IsData(st.log[i])

\* No transaction is open.
IdleOK(st) ==
  /\ StoreOK(st) /\ IndexOK(st.index, st.log) /\ DataPageOK(st)
  /\ st.last = 0
  /\ Base(st.log, Len(st.log)) = Len(st.log)

\* One is, and the last record of the log is its last.
OpenOK(st) ==
  /\ StoreOK(st) /\ IndexOK(st.index, st.log) /\ DataPageOK(st)
  /\ st.last = Len(st.log)
  /\ st.last # 0
  /\ st.log[st.last].type \in {"BEGIN", "UPDATE"}

\* What is committed after n records.
Settled(l, n) == HeapSet(l, Base(l, n))

-----------------------------------------------------------------------------
(* The invariant.                                                          *)

\* All of the log is durable but, at most, a TXN_END.
FlushedToEnd(l, n) ==
    n = Len(l) \/ (Len(l) # 0 /\ n = Len(l) - 1 /\ l[Len(l)].type = "TXN_END")

\* The process runs: n records of the log are durable, images are the file,
\* and of the contents the safe ones are committed.
UpOK(st, images, n, contents, safe) ==
    /\ IdleOK(st) \/ OpenOK(st)
    /\ st.last = 0 => FlushedToEnd(st.log, n)
    /\ n \in 0 .. Len(st.log)
    /\ PagesShow(images, st.log, n)
    /\ Len(images) <= Len(st.pages)
    /\ contents = HeapSet(st.log, Len(st.log))
    /\ safe = Settled(st.log, n)
    /\ safe = Settled(st.log, Len(st.log))

\* It does not run: what is left is the file and the durable log.
DownOK(st, images, n, contents, safe) ==
    /\ st = Stopped(st.log)
    /\ LogOK(st.log)
    /\ n = Len(st.log)
    /\ PagesShow(images, st.log, n)
    /\ st.log = <<>> => Len(images) < MaxPages
    /\ safe = Settled(st.log, n)
    /\ contents = safe

\* After exit the file is up to date and no transaction is open.
CleanOK(l, images) == Latest(images, l) /\ Base(l, Len(l)) = Len(l)

IInv ==
    /\ status \in {"up", "crashed", "exited"}
    /\ status = "up" => UpOK(shell, disk, flushed, view, committed)
    /\ status # "up" => DownOK(shell, disk, flushed, view, committed)
    /\ status = "exited" => CleanOK(shell.log, disk)

-----------------------------------------------------------------------------
(* Numbers and constants.                                                  *)

\* A set of numbers has a least one: this stands in for induction.
LEMMA LeastNat ==
  ASSUME NEW T \in SUBSET Nat, T # {}
  PROVE  \E x \in T : \A y \in T : x <= y
<1>1. IsWellFoundedOn({ss \in Nat \X Nat : ss[1] < ss[2]}, Nat)
  BY NatLessThanWellFounded DEF OpToRel
<1>2. PICK x \in T : \A y \in T : ~(<<y, x>> \in {ss \in Nat \X Nat : ss[1] < ss[2]})
  BY WFMin, <1>1
<1>3. \A y \in T : ~(y < x)
  BY <1>2
<1> QED BY <1>3

\* A set of numbers with a bound has a greatest one, which is its Max.
LEMMA MaxIs ==
  ASSUME NEW T \in SUBSET Nat, T # {}, NEW n \in Nat, \A y \in T : y <= n
  PROVE  Max(T) \in T /\ \A y \in T : y <= Max(T)
<1> DEFINE U == {d \in 0 .. n : n - d \in T}
<1>1. U \in SUBSET Nat /\ U # {}
  <2>1. PICK y \in T : TRUE
    OBVIOUS
  <2>2. n - y \in U
    BY <2>1
  <2>3. U \in SUBSET Nat
    OBVIOUS
  <2> HIDE DEF U
  <2> QED BY <2>2, <2>3
<1>2. PICK d \in U : \A e \in U : d <= e
  <2> HIDE DEF U
  <2> QED BY <1>1, LeastNat
<1>3. \A y \in T : n - y \in U
  OBVIOUS
<1>4. n - d \in T /\ \A y \in T : n - d >= y
  BY <1>2, <1>3
<1>5. \E x \in T : \A y \in T : x >= y
  BY <1>4
<1> DEFINE m == CHOOSE x \in T : \A y \in T : x >= y
<1>6. m \in T /\ \A y \in T : m >= y
  BY <1>5
<1>7. Max(T) = m
  BY DEF Max
<1> QED BY <1>6, <1>7

LEMMA Bounds ==
  SlotsPerPage \in Nat /\ MaxPages \in Nat /\ SlotsPerPage >= 1 /\ MaxPages >= 1
BY StoreAssumption

\* A rid is a page and a slot of it.
LEMMA RidParts ==
  ASSUME NEW r \in Rids
  PROVE  /\ r[1] \in 1 .. MaxPages /\ r[2] \in 1 .. SlotsPerPage
         /\ r = <<r[1], r[2]>>
         /\ \A p, s : <<p, s>> = r <=> p = r[1] /\ s = r[2]
BY DEF Rids

LEMMA RidMade ==
  ASSUME NEW p \in 1 .. MaxPages, NEW s \in 1 .. SlotsPerPage
  PROVE  <<p, s>> \in Rids /\ <<p, s>>[1] = p /\ <<p, s>>[2] = s
BY DEF Rids

-----------------------------------------------------------------------------
(* What the log says of the heap.                                          *)

Same(k, l, n) == \A i \in 1 .. n : k[i] = l[i]

LEMMA HeapIs ==
  ASSUME NEW l, NEW n \in Nat, NEW r, NEW i \in 1 .. n, IsLast(l, n, r, i)
  PROVE  Heap(l, n, r) = l[i].new
<1> DEFINE c == CHOOSE j \in 1 .. n : IsLast(l, n, r, j)
<1>1. c \in 1 .. n /\ IsLast(l, n, r, c)
  OBVIOUS
<1>2. c = i
  <2>1. ~(c < i) /\ ~(i < c)
    BY <1>1 DEF IsLast
  <2> QED BY <2>1, <1>1
<1>3. Heap(l, n, r) = l[c].new
  BY DEF Heap
<1> QED BY <1>2, <1>3

\* Record by record.
LEMMA HeapStep ==
  ASSUME NEW l, NEW n \in Nat, n # 0, NEW r
  PROVE  Heap(l, n, r) = IF Writes(l, n, r) THEN l[n].new ELSE Heap(l, n - 1, r)
<1>1. CASE Writes(l, n, r)
  <2>1. IsLast(l, n, r, n)
    BY <1>1 DEF IsLast
  <2> QED BY <2>1, <1>1, HeapIs
<1>2. CASE ~Writes(l, n, r)
  <2>1. \A i \in 1 .. n : IsLast(l, n, r, i) <=> i \in 1 .. n - 1 /\ IsLast(l, n - 1, r, i)
    BY <1>2 DEF IsLast
  <2>2. CASE \E i \in 1 .. n : IsLast(l, n, r, i)
    <3>1. PICK i \in 1 .. n : IsLast(l, n, r, i)
      BY <2>2
    <3>2. i \in 1 .. n - 1 /\ IsLast(l, n - 1, r, i)
      BY <3>1, <2>1
    <3>3. Heap(l, n - 1, r) = l[i].new
      BY <3>2, HeapIs
    <3>4. Heap(l, n, r) = l[i].new
      BY <3>1, HeapIs
    <3> QED BY <3>3, <3>4, <1>2
  <2>3. CASE ~\E i \in 1 .. n : IsLast(l, n, r, i)
    <3>1. ~\E i \in 1 .. n - 1 : IsLast(l, n - 1, r, i)
      BY <2>1, <2>3
    <3> QED BY <3>1, <2>3, <1>2 DEF Heap
  <2> QED BY <2>2, <2>3
<1> QED BY <1>1, <1>2

LEMMA HeapZero ==
  ASSUME NEW l, NEW r
  PROVE  Heap(l, 0, r) = <<>>
BY DEF Heap

LEMMA HeapSame ==
  ASSUME NEW l, NEW k, NEW n \in Nat, Same(k, l, n), NEW r
  PROVE  Heap(k, n, r) = Heap(l, n, r)
<1>1. \A i \in 1 .. n : IsLast(k, n, r, i) <=> IsLast(l, n, r, i)
  BY DEF Same, IsLast, Writes
<1>2. CASE \E i \in 1 .. n : IsLast(l, n, r, i)
  <2>1. PICK i \in 1 .. n : IsLast(l, n, r, i)
    BY <1>2
  <2>2. Heap(l, n, r) = l[i].new /\ Heap(k, n, r) = k[i].new
    BY <2>1, <1>1, HeapIs
  <2> QED BY <2>2 DEF Same
<1>3. CASE ~\E i \in 1 .. n : IsLast(l, n, r, i)
  BY <1>1, <1>3 DEF Heap
<1> QED BY <1>2, <1>3

\* Records that do not write r leave it alone.
LEMMA HeapKeeps ==
  ASSUME NEW l, NEW m \in Nat, NEW n \in Nat, m <= n, NEW r,
         \A j \in m + 1 .. n : ~Writes(l, j, r)
  PROVE  Heap(l, n, r) = Heap(l, m, r)
<1>1. \A i \in 1 .. n : IsLast(l, n, r, i) <=> i \in 1 .. m /\ IsLast(l, m, r, i)
  BY DEF IsLast
<1>2. CASE \E i \in 1 .. n : IsLast(l, n, r, i)
  <2>1. PICK i \in 1 .. n : IsLast(l, n, r, i)
    BY <1>2
  <2>2. Heap(l, n, r) = l[i].new /\ Heap(l, m, r) = l[i].new
    BY <2>1, <1>1, HeapIs
  <2> QED BY <2>2
<1>3. CASE ~\E i \in 1 .. n : IsLast(l, n, r, i)
  <2>1. \A i \in 1 .. m : i \in 1 .. n
    OBVIOUS
  <2> QED BY <1>1, <1>3, <2>1 DEF Heap
<1> QED BY <1>2, <1>3

\* The heap holds what some record wrote.
LEMMA HeapType ==
  ASSUME NEW l \in Seq(LogRecords), NEW n \in 0 .. Len(l), NEW r
  PROVE  Heap(l, n, r) \in Cells
<1>1. CASE \E i \in 1 .. n : IsLast(l, n, r, i)
  <2>1. PICK i \in 1 .. n : IsLast(l, n, r, i)
    BY <1>1
  <2>2. l[i] \in LogRecords
    BY <2>1
  <2> QED BY <2>1, <2>2, HeapIs DEF LogRecords
<1>2. CASE ~\E i \in 1 .. n : IsLast(l, n, r, i)
  BY <1>2 DEF Heap, Cells
<1> QED BY <1>1, <1>2

-----------------------------------------------------------------------------
(* The last record that ended a transaction.                               *)

LEMMA BaseIs ==
  ASSUME NEW l, NEW n \in Nat, NEW b \in 0 .. n, IsBase(l, n, b)
  PROVE  Base(l, n) = b
<1> DEFINE c == CHOOSE d \in 0 .. n : IsBase(l, n, d)
<1>1. c \in 0 .. n /\ IsBase(l, n, c)
  OBVIOUS
<1>2. ~(c < b) /\ ~(b < c)
  BY <1>1 DEF IsBase
<1> QED BY <1>1, <1>2 DEF Base

LEMMA BaseExists ==
  ASSUME NEW l, NEW n \in Nat
  PROVE  Base(l, n) \in 0 .. n /\ IsBase(l, n, Base(l, n))
<1> DEFINE T == {m \in 0 .. n : ~\E b \in 0 .. m : IsBase(l, m, b)}
<1>1. T = {}
  <2>1. SUFFICES ASSUME T # {} PROVE FALSE
    OBVIOUS
  <2>2. T \in SUBSET Nat
    OBVIOUS
  <2>3. PICK m \in T : \A y \in T : m <= y
    <3> HIDE DEF T
    <3> QED BY <2>1, <2>2, LeastNat
  <2>4. CASE m = 0
    BY <2>3, <2>4 DEF IsBase
  <2>5. CASE m # 0 /\ Ends(l[m])
    BY <2>3, <2>5 DEF IsBase
  <2>6. CASE m # 0 /\ ~Ends(l[m])
    <3>1. m - 1 \notin T /\ m - 1 \in 0 .. n
      BY <2>3, <2>6
    <3>2. PICK b \in 0 .. m - 1 : IsBase(l, m - 1, b)
      BY <3>1
    <3>3. b \in 0 .. m /\ IsBase(l, m, b)
      BY <3>2, <2>6, <2>3 DEF IsBase
    <3> QED BY <3>3, <2>3
  <2> QED BY <2>4, <2>5, <2>6
<1>2. \E b \in 0 .. n : IsBase(l, n, b)
  BY <1>1
<1> QED BY <1>2 DEF Base

LEMMA BaseStep ==
  ASSUME NEW l, NEW n \in Nat, n # 0
  PROVE  Base(l, n) = IF Ends(l[n]) THEN n ELSE Base(l, n - 1)
<1>1. CASE Ends(l[n])
  <2>1. IsBase(l, n, n)
    BY <1>1 DEF IsBase
  <2> QED BY <1>1, <2>1, BaseIs
<1>2. CASE ~Ends(l[n])
  <2>1. Base(l, n - 1) \in 0 .. n - 1 /\ IsBase(l, n - 1, Base(l, n - 1))
    BY BaseExists
  <2>2. Base(l, n - 1) \in 0 .. n /\ IsBase(l, n, Base(l, n - 1))
    BY <2>1, <1>2 DEF IsBase
  <2> QED BY <1>2, <2>2, BaseIs
<1> QED BY <1>1, <1>2

LEMMA BaseZero ==
  ASSUME NEW l
  PROVE  Base(l, 0) = 0
BY BaseExists

LEMMA BaseSame ==
  ASSUME NEW l, NEW k, NEW n \in Nat, Same(k, l, n)
  PROVE  Base(k, n) = Base(l, n)
<1>1. Base(l, n) \in 0 .. n /\ IsBase(l, n, Base(l, n))
  BY BaseExists
<1>2. IsBase(k, n, Base(l, n))
  BY <1>1 DEF IsBase, Same
<1> QED BY <1>1, <1>2, BaseIs

-----------------------------------------------------------------------------
(* Transactions in the log.                                                *)

LEMMA LogRecord ==
  ASSUME NEW l, LogOK(l), NEW i \in 1 .. Len(l)
  PROVE  /\ l \in Seq(LogRecords) /\ Len(l) \in Nat
         /\ l[i] \in LogRecords /\ RecordOK(l, i)
         /\ l[i].type \in {"BEGIN", "UPDATE", "COMMIT", "ABORT", "CLR", "TXN_END"}
         /\ l[i].old \in Cells /\ l[i].new \in Cells /\ l[i].prev \in Nat
         /\ l[i].rid \in Rids \cup {NoRid}
<1>1. l \in Seq(LogRecords) /\ RecordOK(l, i)
  BY DEF LogOK
<1>2. Len(l) \in Nat /\ l[i] \in LogRecords
  BY <1>1
<1> QED BY <1>1, <1>2 DEF LogRecords

\* The n-th record belongs to a transaction that is not over: its records are
\* a BEGIN and UPDATEs up to the place where its undo starts, and what follows
\* them, CLRs, has taken the heap back to that place.
ActiveOK(l, n) ==
  LET f == Frontier(l, n)
      b == Base(l, n)
  IN  /\ b \in 0 .. n - 1
      /\ f \in b + 1 .. n
      /\ l[b + 1].type = "BEGIN"
      /\ \A j \in b + 2 .. f : l[j].type = "UPDATE"
      /\ \A r \in Rids : Heap(l, n, r) = Heap(l, f, r)

LEMMA ActiveStep ==
  ASSUME NEW l, LogOK(l), NEW n \in 1 .. Len(l), ~Ends(l[n]),
         n - 1 # 0 /\ ~Ends(l[n - 1]) => ActiveOK(l, n - 1)
  PROVE  ActiveOK(l, n)
<1> DEFINE m == n - 1
           f == Frontier(l, n)
           b == Base(l, n)
<1>0. n \in Nat /\ n # 0 /\ m \in Nat
  OBVIOUS
<1>1. RecordOK(l, n) /\ l[n].type \in {"BEGIN", "UPDATE", "ABORT", "CLR"}
  BY LogRecord DEF Ends
<1>2. b = Base(l, m)
  BY <1>0, BaseStep
<1>3. \A r : ~IsData(l[n]) => Heap(l, n, r) = Heap(l, m, r)
  BY <1>0, HeapStep DEF Writes
<1>4. CASE l[n].type = "BEGIN"
  <2>1. b = m
    <3>1. m = 0 \/ Ends(l[m])
      BY <1>1, <1>4 DEF RecordOK
    <3> QED BY <3>1, <1>2, <1>0, BaseStep, BaseZero
  <2>2. f = n
    BY <1>4 DEF Frontier
  <2> QED BY <2>1, <2>2, <1>4 DEF ActiveOK
<1>5. CASE l[n].type # "BEGIN"
  <2>1. m # 0 /\ ~Ends(l[m]) /\ ActiveOK(l, m)
    BY <1>1, <1>5 DEF RecordOK, Ends
  <2>2. /\ b \in 0 .. m - 1
        /\ Frontier(l, m) \in b + 1 .. m
        /\ l[b + 1].type = "BEGIN"
        /\ \A j \in b + 2 .. Frontier(l, m) : l[j].type = "UPDATE"
        /\ \A r \in Rids : Heap(l, m, r) = Heap(l, Frontier(l, m), r)
    BY <2>1, <1>2 DEF ActiveOK
  <2>3. CASE l[n].type \in {"UPDATE", "ABORT"}
    <3>1. l[m].type \in {"BEGIN", "UPDATE"} /\ l[n].prev = m
      BY <1>1, <2>3 DEF RecordOK
    <3>2. Frontier(l, m) = m
      BY <3>1 DEF Frontier
    <3>3. CASE l[n].type = "UPDATE"
      <4>1. f = n
        BY <3>3 DEF Frontier
      <4> QED BY <4>1, <2>2, <3>2, <3>3, <1>0 DEF ActiveOK
    <3>4. CASE l[n].type = "ABORT"
      <4>1. f = m
        BY <3>4, <3>1 DEF Frontier
      <4>2. \A r : Heap(l, n, r) = Heap(l, m, r)
        BY <3>4, <1>3 DEF IsData
      <4> QED BY <4>1, <4>2, <2>2, <3>2, <1>0 DEF ActiveOK
    <3> QED BY <2>3, <3>3, <3>4
  <2>4. CASE l[n].type = "CLR"
    <3> DEFINE u == Frontier(l, m)
    <3>1. /\ u \in 1 .. m /\ l[u].type = "UPDATE"
          /\ l[n].rid = l[u].rid /\ l[n].new = l[u].old /\ l[n].prev = u - 1
      BY <1>1, <2>4 DEF RecordOK, ClrOK
    <3>2. f = u - 1
      BY <3>1, <2>4 DEF Frontier
    <3>3. u # b + 1
      BY <3>1, <2>2
    <3>4. u \in 1 .. Len(l) /\ UpdateOK(l, u)
      <4>1. u \in 1 .. Len(l)
        BY <3>1
      <4> HIDE DEF u
      <4> QED BY <4>1, <3>1, LogRecord DEF RecordOK
    <3>5. ASSUME NEW r \in Rids
          PROVE  Heap(l, n, r) = Heap(l, f, r)
      <4>1. Heap(l, m, r) = Heap(l, u, r)
        BY <2>2
      <4>2. IsData(l[n]) /\ IsData(l[u])
        BY <2>4, <3>1 DEF IsData
      <4>3. Heap(l, n, r) = IF l[n].rid = r THEN l[n].new ELSE Heap(l, m, r)
        BY <1>0, <4>2, HeapStep DEF Writes
      <4>4. Heap(l, u, r) = IF l[u].rid = r THEN l[u].new ELSE Heap(l, u - 1, r)
        <5>1. u \in Nat /\ u # 0
          BY <3>1
        <5> HIDE DEF u
        <5> QED BY <5>1, <4>2, HeapStep DEF Writes
      <4>5. l[u].old = Heap(l, u - 1, l[u].rid)
        BY <3>4 DEF UpdateOK
      <4> QED BY <3>1, <3>2, <4>1, <4>3, <4>4, <4>5
    <3>6. f \in b + 1 .. n /\ \A j \in b + 2 .. f : l[j].type = "UPDATE"
      BY <3>1, <3>2, <3>3, <2>2
    <3> QED BY <3>5, <3>6, <2>2, <1>0 DEF ActiveOK
  <2> QED BY <2>3, <2>4, <1>1, <1>5
<1> QED BY <1>4, <1>5

LEMMA ActiveFacts ==
  ASSUME NEW l, LogOK(l), NEW n \in 1 .. Len(l), ~Ends(l[n])
  PROVE  ActiveOK(l, n)
<1> DEFINE T == {m \in 1 .. Len(l) : ~Ends(l[m]) /\ ~ActiveOK(l, m)}
<1>1. SUFFICES ASSUME T # {} PROVE FALSE
  OBVIOUS
<1>2. T \in SUBSET Nat
  OBVIOUS
<1>3. PICK m \in T : \A y \in T : m <= y
  <2> HIDE DEF T
  <2> QED BY <1>1, <1>2, LeastNat
<1>4. m \in 1 .. Len(l) /\ Len(l) \in Nat
  BY <1>3 DEF LogOK
<1>5. m - 1 # 0 /\ ~Ends(l[m - 1]) => ActiveOK(l, m - 1)
  <2>1. m - 1 \notin T
    BY <1>3, <1>4
  <2>2. m - 1 # 0 => m - 1 \in 1 .. Len(l)
    BY <1>4
  <2> QED BY <2>1, <2>2
<1>6. ActiveOK(l, m)
  BY <1>3, <1>4, <1>5, ActiveStep
<1> QED BY <1>3, <1>6

\* The heap after the first n records, seen from where undo starts.
LEMMA ActiveFront ==
  ASSUME NEW l, LogOK(l), NEW n \in 1 .. Len(l), ~Ends(l[n])
  PROVE  LET f == Frontier(l, n)
             b == Base(l, n)
         IN  /\ b \in 0 .. n - 1 /\ f \in b + 1 .. n /\ f \in 1 .. Len(l)
             /\ l[f].type \in {"BEGIN", "UPDATE"}
             /\ l[f].type = "BEGIN" <=> f = b + 1
             /\ \A r \in Rids : Heap(l, n, r) = Heap(l, f, r)
             /\ \A r \in Rids : l[f].type = "BEGIN" => Heap(l, n, r) = Heap(l, b, r)
             /\ l[f].type = "UPDATE" => UpdateOK(l, f) /\ l[f].prev = f - 1 /\ f - 1 > b
<1> DEFINE f == Frontier(l, n)
           b == Base(l, n)
<1>1. /\ b \in 0 .. n - 1 /\ f \in b + 1 .. n
      /\ l[b + 1].type = "BEGIN"
      /\ \A j \in b + 2 .. f : l[j].type = "UPDATE"
      /\ \A r \in Rids : Heap(l, n, r) = Heap(l, f, r)
  BY ActiveFacts DEF ActiveOK
<1>2. f \in 1 .. Len(l) /\ f \in Nat /\ f # 0
  BY <1>1
<1> HIDE DEF f, b
<1>3. l[f].type = IF f = b + 1 THEN "BEGIN" ELSE "UPDATE"
  BY <1>1
<1>4. ASSUME NEW r \in Rids, l[f].type = "BEGIN"
      PROVE  Heap(l, n, r) = Heap(l, b, r)
  <2>1. f = b + 1
    BY <1>3, <1>4
  <2>2. Heap(l, f, r) = Heap(l, f - 1, r)
    BY <1>2, <1>4, HeapStep DEF Writes, IsData
  <2> QED BY <2>1, <2>2, <1>1
<1>5. ASSUME l[f].type = "UPDATE"
      PROVE  UpdateOK(l, f) /\ l[f].prev = f - 1 /\ f - 1 > b
  <2>1. RecordOK(l, f)
    BY <1>2, LogRecord
  <2> QED BY <2>1, <1>1, <1>3, <1>5 DEF RecordOK
<1> QED BY <1>1, <1>2, <1>3, <1>4, <1>5 DEF f, b

-----------------------------------------------------------------------------
(* No two records of one key.                                              *)

Unique(l, n) ==
  \A r, q \in Rids :
    Heap(l, n, r) # <<>> /\ Heap(l, n, q) # <<>> /\ Heap(l, n, r)[1] = Heap(l, n, q)[1] => r = q

LEMMA UniqueStep ==
  ASSUME NEW l, LogOK(l), NEW n \in 1 .. Len(l), \A m \in 0 .. n - 1 : Unique(l, m)
  PROVE  Unique(l, n)
<1>0. n \in Nat /\ n # 0 /\ RecordOK(l, n)
  BY LogRecord
<1>1. CASE ~IsData(l[n])
  <2>1. \A r : Heap(l, n, r) = Heap(l, n - 1, r)
    BY <1>0, <1>1, HeapStep DEF Writes
  <2>2. Unique(l, n - 1)
    BY <1>0
  <2> QED BY <2>1, <2>2 DEF Unique
<1>2. CASE l[n].type = "CLR"
  <2>1. ~Ends(l[n])
    BY <1>2 DEF Ends
  <2>2. /\ Frontier(l, n) \in 0 .. n
        /\ \A r \in Rids : Heap(l, n, r) = Heap(l, Frontier(l, n), r)
    BY <2>1, ActiveFront
  <2>3. Frontier(l, n) # n
    BY <1>0, <1>2 DEF RecordOK, ClrOK, Frontier
  <2>4. Unique(l, Frontier(l, n))
    BY <2>2, <2>3
  <2> QED BY <2>2, <2>4 DEF Unique
<1>3. CASE l[n].type = "UPDATE"
  <2> DEFINE rec == l[n]
  <2>1. UpdateOK(l, n)
    BY <1>0, <1>3 DEF RecordOK
  <2>2. ASSUME NEW r \in Rids
        PROVE  Heap(l, n, r) = IF r = rec.rid THEN rec.new ELSE Heap(l, n - 1, r)
    BY <1>0, <1>3, HeapStep DEF Writes, IsData
  <2>3. Unique(l, n - 1)
    BY <1>0
  <2>4. ASSUME NEW r \in Rids, r # rec.rid, rec.new # <<>>, Heap(l, n - 1, r) # <<>>
        PROVE  Heap(l, n - 1, r)[1] # rec.new[1]
    <3>1. rec.new \in RecordSet /\ rec.rid \in Rids /\ rec.old = Heap(l, n - 1, rec.rid)
      BY <2>1, <2>4 DEF UpdateOK
    <3>2. CASE rec.old = <<>> /\ rec.key = rec.new[1]
               /\ \A q \in Rids : Heap(l, n - 1, q) # <<>> => Heap(l, n - 1, q)[1] # rec.key
      BY <3>2, <2>4
    <3>3. CASE rec.old \in RecordSet /\ rec.old[1] = rec.new[1]
      <4>1. rec.old # <<>>
        BY <3>3 DEF RecordSet
      <4> QED BY <4>1, <3>1, <3>3, <2>3, <2>4 DEF Unique
    <3> QED BY <2>1, <2>4, <3>2, <3>3 DEF UpdateOK
  <2> HIDE DEF rec
  <2> QED BY <2>2, <2>3, <2>4 DEF Unique
<1> QED BY <1>1, <1>2, <1>3 DEF IsData

LEMMA UniqueKeys ==
  ASSUME NEW l, LogOK(l), NEW n \in 0 .. Len(l)
  PROVE  Unique(l, n)
<1> DEFINE T == {m \in 0 .. Len(l) : ~Unique(l, m)}
<1>1. SUFFICES ASSUME T # {} PROVE FALSE
  OBVIOUS
<1>2. T \in SUBSET Nat
  OBVIOUS
<1>3. PICK m \in T : \A y \in T : m <= y
  <2> HIDE DEF T
  <2> QED BY <1>1, <1>2, LeastNat
<1>4. Len(l) \in Nat
  BY DEF LogOK
<1>5. CASE m = 0
  BY <1>3, <1>5, HeapZero DEF Unique
<1>6. CASE m # 0
  <2>1. m \in 1 .. Len(l)
    BY <1>3, <1>6, <1>4
  <2>2. \A k \in 0 .. m - 1 : k \in 0 .. Len(l) /\ k \notin T
    BY <1>3, <1>4, <2>1
  <2>3. \A k \in 0 .. m - 1 : Unique(l, k)
    BY <2>2
  <2> QED BY <2>1, <2>3, <1>3, UniqueStep
<1> QED BY <1>5, <1>6

-----------------------------------------------------------------------------
(* Shorter and longer logs.                                                *)

LEMMA RecordSame ==
  ASSUME NEW l, LogOK(l), NEW i \in 1 .. Len(l), NEW k, Same(k, l, i)
  PROVE  RecordOK(k, i)
<1> DEFINE m == i - 1
<1>0. m \in Nat /\ i \in Nat /\ Same(k, l, m) /\ k[i] = l[i] /\ (m # 0 => k[m] = l[m])
      /\ (m # 0 => m \in 1 .. Len(l))
  BY DEF Same
<1>1. RecordOK(l, i)
  BY LogRecord
<1>2. \A r : Heap(k, m, r) = Heap(l, m, r)
  BY <1>0, HeapSame
<1>3. m # 0 => Frontier(k, m) = Frontier(l, m)
  BY <1>0 DEF Frontier
<1>4. l[i].type = "UPDATE" => UpdateOK(k, i)
  <2>1. l[i].type = "UPDATE" => UpdateOK(l, i)
    BY <1>1 DEF RecordOK
  <2> QED BY <2>1, <1>0, <1>2 DEF UpdateOK
<1>5. m # 0 /\ ~Ends(l[m]) => k[Frontier(k, m)] = l[Frontier(l, m)]
  <2>1. m # 0 /\ ~Ends(l[m]) => Frontier(l, m) \in 1 .. m
    BY <1>0, ActiveFront
  <2> QED BY <2>1, <1>0, <1>3 DEF Same
<1>6. l[i].type = "CLR" => ClrOK(k, i)
  <2>1. l[i].type = "CLR" => ClrOK(l, i) /\ m # 0 /\ ~Ends(l[m])
    BY <1>1 DEF RecordOK, Ends
  <2> QED BY <2>1, <1>0, <1>3, <1>5 DEF ClrOK
<1> HIDE DEF m
<1> QED BY <1>0, <1>1, <1>4, <1>5, <1>6 DEF RecordOK, Ends, m

LEMMA Prefix ==
  ASSUME NEW l, LogOK(l), NEW n \in 0 .. Len(l), NEW k, k = SubSeq(l, 1, n)
  PROVE  LogOK(k) /\ Len(k) = n /\ Same(k, l, n)
<1>1. l \in Seq(LogRecords) /\ Len(l) \in Nat
  BY DEF LogOK
<1>2. k \in Seq(LogRecords) /\ Len(k) = n /\ \A i \in 1 .. n : k[i] = l[i]
  BY <1>1
<1>3. \A i \in 1 .. n : Same(k, l, i) /\ i \in 1 .. Len(l)
  BY <1>2, <1>1 DEF Same
<1>4. \A i \in 1 .. n : RecordOK(k, i)
  BY <1>3, RecordSame
<1> QED BY <1>2, <1>4 DEF LogOK, Same

LEMMA AppendLen ==
  ASSUME NEW S, NEW l \in Seq(S), NEW x
  PROVE  Len(Append(l, x)) = Len(l) + 1 /\ Len(l) \in Nat
<1>1. l \in Seq(S \cup {x})
  OBVIOUS
<1> QED BY <1>1

\* k is l with one record more.
Grown(l, k, rec) == k = Append(l, rec)

LEMMA Longer ==
  ASSUME NEW l, LogOK(l), NEW rec \in LogRecords, NEW k, Grown(l, k, rec)
  PROVE  /\ k \in Seq(LogRecords) /\ Len(k) = Len(l) + 1 /\ Len(l) \in Nat
         /\ Same(k, l, Len(l)) /\ k[Len(l) + 1] = rec
         /\ RecordOK(k, Len(l) + 1) => LogOK(k)
<1>1. l \in Seq(LogRecords) /\ Len(l) \in Nat
  BY DEF LogOK
<1>2. k \in Seq(LogRecords) /\ Len(k) = Len(l) + 1 /\ k[Len(l) + 1] = rec
      /\ \A i \in 1 .. Len(l) : k[i] = l[i]
  BY <1>1 DEF Grown
<1>3. \A i \in 1 .. Len(l) : RecordOK(k, i)
  <2>1. \A i \in 1 .. Len(l) : Same(k, l, i)
    BY <1>1, <1>2 DEF Same
  <2> QED BY <2>1, RecordSame
<1>4. ASSUME RecordOK(k, Len(l) + 1) PROVE LogOK(k)
  BY <1>1, <1>2, <1>3, <1>4 DEF LogOK
<1> QED BY <1>1, <1>2, <1>4 DEF Same

\* One record more: the heap and the base.
LEMMA LongerHeap ==
  ASSUME NEW l, LogOK(l), NEW rec \in LogRecords, NEW k, Grown(l, k, rec)
  PROVE  /\ \A n \in 0 .. Len(l) : \A r : Heap(k, n, r) = Heap(l, n, r)
         /\ \A r : Heap(k, Len(k), r) =
              IF IsData(rec) /\ rec.rid = r THEN rec.new ELSE Heap(l, Len(l), r)
         /\ \A n \in 0 .. Len(l) : Base(k, n) = Base(l, n)
         /\ Base(k, Len(k)) = IF Ends(rec) THEN Len(k) ELSE Base(l, Len(l))
<1>1. Len(k) = Len(l) + 1 /\ Len(l) \in Nat /\ Same(k, l, Len(l)) /\ k[Len(l) + 1] = rec
  BY Longer
<1>2. \A n \in 0 .. Len(l) : Same(k, l, n) /\ n \in Nat
  BY <1>1 DEF Same
<1>3. \A n \in 0 .. Len(l) : \A r : Heap(k, n, r) = Heap(l, n, r)
  BY <1>2, HeapSame
<1>4. \A n \in 0 .. Len(l) : Base(k, n) = Base(l, n)
  BY <1>2, BaseSame
<1>5. Len(k) \in Nat /\ Len(k) # 0 /\ Len(k) - 1 = Len(l) /\ Len(l) \in 0 .. Len(l) /\ k[Len(k)] = rec
  BY <1>1
<1>6. ASSUME NEW r
      PROVE  Heap(k, Len(k), r) = IF Writes(k, Len(k), r) THEN rec.new ELSE Heap(l, Len(l), r)
  <2>1. Heap(k, Len(k), r) =
          IF Writes(k, Len(k), r) THEN k[Len(k)].new ELSE Heap(k, Len(k) - 1, r)
    BY <1>5, HeapStep
  <2> QED BY <2>1, <1>3, <1>5
<1>7. Base(k, Len(k)) = IF Ends(rec) THEN Len(k) ELSE Base(l, Len(l))
  BY <1>4, <1>5, BaseStep
<1> QED BY <1>3, <1>4, <1>5, <1>6, <1>7 DEF Writes

LEMMA LongerSet ==
  ASSUME NEW l, LogOK(l), NEW rec \in LogRecords, NEW k, Grown(l, k, rec), NEW n \in 0 .. Len(l)
  PROVE  HeapSet(k, n) = HeapSet(l, n) /\ HeapSet(k, Base(k, n)) = HeapSet(l, Base(l, n))
<1>0. /\ \A m \in 0 .. Len(l) : \A r : Heap(k, m, r) = Heap(l, m, r)
      /\ \A m \in 0 .. Len(l) : Base(k, m) = Base(l, m)
  BY LongerHeap
<1>1. \A r : Heap(k, n, r) = Heap(l, n, r)
  BY <1>0
<1>2. Base(k, n) = Base(l, n) /\ Base(l, n) \in 0 .. Len(l)
  <2>1. n \in Nat /\ Len(l) \in Nat
    BY DEF LogOK
  <2>2. Base(l, n) \in 0 .. n
    BY <2>1, BaseExists
  <2> QED BY <2>1, <2>2, <1>0
<1>3. \A r : Heap(k, Base(l, n), r) = Heap(l, Base(l, n), r)
  BY <1>2, <1>0
<1> QED BY <1>1, <1>2, <1>3 DEF HeapSet

-----------------------------------------------------------------------------
(* Pages.                                                                  *)

SlotSet == RecordSet \cup {Tombstone, Blank}

LEMMA SlotKinds ==
  /\ \A x \in RecordSet : IsRecord(x) /\ x # <<>> /\ x \in Cells
  /\ ~IsRecord(Tombstone) /\ ~IsRecord(Blank)
  /\ \A x \in RecordSet : x[1] \in Keys /\ x[2] \in Vals /\ x = <<x[1], x[2]>>
<1>1. \A x \in RecordSet : x = <<x[1], x[2]>> /\ x[1] \in Keys /\ x[2] \in Vals
  BY DEF RecordSet
<1>2. \A a, b : Len(<<a, b>>) = 2 /\ <<a, b>> # <<>>
  OBVIOUS
<1>3. Len(<<"tombstone">>) = 1 /\ Len(<<"blank">>) = 1
  OBVIOUS
<1>4. \A x \in RecordSet : Len(x) = 2 /\ x # <<>>
  BY <1>1, <1>2
<1> QED BY <1>1, <1>3, <1>4 DEF IsRecord, Tombstone, Blank, Cells

LEMMA PageParts ==
  ASSUME NEW p
  PROVE  p \in PageSet <=>
           /\ p = [type |-> p.type, lsn |-> p.lsn, slots |-> p.slots]
           /\ p.type \in {"META", "DATA"} /\ p.lsn \in Nat
           /\ \E n \in 0 .. SlotsPerPage : p.slots \in [1 .. n -> SlotSet]
BY DEF PageSet, SlotSet

LEMMA PageSlots ==
  ASSUME NEW p \in PageSet
  PROVE  /\ p.lsn \in Nat /\ Len(p.slots) \in 0 .. SlotsPerPage
         /\ DOMAIN p.slots = 1 .. Len(p.slots)
         /\ \A s \in DOMAIN p.slots : p.slots[s] \in SlotSet
<1>1. p.lsn \in Nat
  BY PageParts
<1>2. PICK n \in 0 .. SlotsPerPage : p.slots \in [1 .. n -> SlotSet]
  BY PageParts
<1>3. n \in Nat
  BY <1>2, Bounds
<1>4. p.slots \in Seq(SlotSet)
  BY <1>2, <1>3
<1>5. Len(p.slots) = n
  BY <1>2, <1>3, <1>4
<1> QED BY <1>1, <1>2, <1>5

\* What a slot reads as when it is given a cell's contents.
LEMMA SetSlotFacts ==
  ASSUME NEW p \in PageSet, NEW s \in 1 .. SlotsPerPage, NEW x \in SlotSet
  PROVE  /\ SetSlot(p, s, x) \in PageSet
         /\ SetSlot(p, s, x).lsn = p.lsn /\ SetSlot(p, s, x).type = p.type
         /\ \A t \in 1 .. SlotsPerPage :
              ReadRecord(SetSlot(p, s, x), t) =
                IF t = s THEN (IF IsRecord(x) THEN x ELSE <<>>) ELSE ReadRecord(p, t)
<1> DEFINE n == Len(p.slots)
           m == Max({n, s})
           ns == [i \in 1 .. m |-> IF i = s THEN x ELSE IF i <= n THEN p.slots[i] ELSE Blank]
           q == SetSlot(p, s, x)
<1>0. n \in 0 .. SlotsPerPage /\ DOMAIN p.slots = 1 .. n /\ SlotsPerPage \in Nat
      /\ \A i \in 1 .. n : p.slots[i] \in SlotSet
  BY PageSlots, Bounds
<1> HIDE DEF n
<1>1. m \in 1 .. SlotsPerPage /\ n <= m /\ s <= m /\ (m = n \/ m = s)
  <2>1. m \in {n, s} /\ \A y \in {n, s} : y <= m
    <3>1. {n, s} \in SUBSET Nat /\ {n, s} # {} /\ \A y \in {n, s} : y <= SlotsPerPage
      BY <1>0
    <3> HIDE DEF m
    <3> QED BY <3>1, <1>0, MaxIs DEF m
  <2> HIDE DEF m
  <2> QED BY <2>1, <1>0
<1> HIDE DEF m
<1>2. ns \in [1 .. m -> SlotSet]
  <2>1. Blank \in SlotSet
    BY DEF SlotSet
  <2> QED BY <2>1, <1>0, <1>1
<1>3. q = [p EXCEPT !.slots = ns]
  BY DEF SetSlot, n, m
<1>4. p = [type |-> p.type, lsn |-> p.lsn, slots |-> p.slots]
  BY PageParts
<1> HIDE DEF ns, q
<1>5. q = [type |-> p.type, lsn |-> p.lsn, slots |-> ns]
  BY <1>3, <1>4
<1>6. q.type = p.type /\ q.lsn = p.lsn /\ q.slots = ns
  BY <1>5
<1>7. q \in PageSet
  <2>1. q = [type |-> q.type, lsn |-> q.lsn, slots |-> q.slots]
    BY <1>5, <1>6
  <2>2. q.type \in {"META", "DATA"} /\ q.lsn \in Nat
    BY <1>6, PageParts
  <2>3. m \in 0 .. SlotsPerPage /\ q.slots \in [1 .. m -> SlotSet]
    BY <1>1, <1>2, <1>6, <1>0
  <2> QED BY <2>1, <2>2, <2>3, PageParts
<1>8. ASSUME NEW t \in 1 .. SlotsPerPage
      PROVE  ReadRecord(q, t) = IF t = s THEN (IF IsRecord(x) THEN x ELSE <<>>) ELSE ReadRecord(p, t)
  <2>1. DOMAIN q.slots = 1 .. m
    BY <1>2, <1>6
  <2>2. t \in 1 .. m =>
          q.slots[t] = IF t = s THEN x ELSE IF t <= n THEN p.slots[t] ELSE Blank
    BY <1>6 DEF ns
  <2>3. CASE t = s
    BY <2>1, <2>2, <2>3, <1>1 DEF ReadRecord
  <2>4. CASE t # s /\ t <= n
    BY <2>1, <2>2, <2>4, <1>0, <1>1 DEF ReadRecord
  <2>5. CASE t # s /\ ~(t <= n)
    <3>1. t \notin DOMAIN p.slots
      BY <2>5, <1>0
    <3>2. ReadRecord(p, t) = <<>>
      BY <3>1 DEF ReadRecord
    <3>3. ReadRecord(q, t) = <<>>
      BY <2>1, <2>2, <2>5, SlotKinds DEF ReadRecord
    <3> QED BY <3>2, <3>3, <2>5
  <2> QED BY <2>3, <2>4, <2>5, <1>0
<1> QED BY <1>6, <1>7, <1>8 DEF q

LEMMA DeleteFacts ==
  ASSUME NEW p \in PageSet, NEW s \in 1 .. SlotsPerPage
  PROVE  /\ DeleteRecord(p, s) \in PageSet
         /\ DeleteRecord(p, s).lsn = p.lsn /\ DeleteRecord(p, s).type = p.type
         /\ \A t \in 1 .. SlotsPerPage :
              ReadRecord(DeleteRecord(p, s), t) = IF t = s THEN <<>> ELSE ReadRecord(p, t)
<1>1. CASE s \in DOMAIN p.slots
  <2>1. DeleteRecord(p, s) = SetSlot(p, s, Tombstone)
    BY <1>1 DEF DeleteRecord
  <2>2. Tombstone \in SlotSet /\ ~IsRecord(Tombstone)
    BY SlotKinds DEF SlotSet
  <2> QED BY <2>1, <2>2, SetSlotFacts
<1>2. CASE s \notin DOMAIN p.slots
  <2>1. DeleteRecord(p, s) = p
    BY <1>2 DEF DeleteRecord
  <2>2. ReadRecord(p, s) = <<>>
    BY <1>2 DEF ReadRecord
  <2> QED BY <2>1, <2>2
<1> QED BY <1>1, <1>2

\* A slot is given a cell's contents: redo and undo.
LEMMA CellFacts ==
  ASSUME NEW p \in PageSet, NEW s \in 1 .. SlotsPerPage, NEW c \in Cells, NEW q,
         q = IF c = <<>> THEN DeleteRecord(p, s) ELSE SetSlot(p, s, c)
  PROVE  /\ q \in PageSet /\ q.lsn = p.lsn /\ q.type = p.type
         /\ \A t \in 1 .. SlotsPerPage : ReadRecord(q, t) = IF t = s THEN c ELSE ReadRecord(p, t)
<1>1. CASE c = <<>>
  BY <1>1, DeleteFacts
<1>2. CASE c # <<>>
  <2>1. c \in RecordSet /\ c \in SlotSet /\ IsRecord(c)
    BY <1>2, SlotKinds DEF Cells, SlotSet
  <2> QED BY <1>2, <2>1, SetSlotFacts
<1> QED BY <1>1, <1>2

LEMMA StampFacts ==
  ASSUME NEW p \in PageSet, NEW n \in Nat, NEW q, q = [p EXCEPT !.lsn = n]
  PROVE  /\ q \in PageSet /\ q.lsn = n /\ q.type = p.type
         /\ \A t : ReadRecord(q, t) = ReadRecord(p, t)
<1>1. p = [type |-> p.type, lsn |-> p.lsn, slots |-> p.slots]
  BY PageParts
<1>2. q = [type |-> p.type, lsn |-> n, slots |-> p.slots]
  BY <1>1
<1>3. q.lsn = n /\ q.type = p.type /\ q.slots = p.slots
  BY <1>2
<1>4. q \in PageSet
  BY <1>2, <1>3, PageParts
<1> QED BY <1>3, <1>4 DEF ReadRecord

\* The page q is p with c in the slot s, stamped with n.
Written(q, p, s, c, n) ==
  /\ q \in PageSet
  /\ q.lsn = n
  /\ \A t \in 1 .. SlotsPerPage : ReadRecord(q, t) = IF t = s THEN c ELSE ReadRecord(p, t)

LEMMA CellWritten ==
  ASSUME NEW p \in PageSet, NEW s \in 1 .. SlotsPerPage, NEW c \in Cells, NEW n \in Nat, NEW q,
         q = [(IF c = <<>> THEN DeleteRecord(p, s) ELSE SetSlot(p, s, c)) EXCEPT !.lsn = n]
  PROVE  Written(q, p, s, c, n)
<1> DEFINE m == IF c = <<>> THEN DeleteRecord(p, s) ELSE SetSlot(p, s, c)
<1>1. q = [m EXCEPT !.lsn = n] /\ m = IF c = <<>> THEN DeleteRecord(p, s) ELSE SetSlot(p, s, c)
  OBVIOUS
<1> HIDE DEF m
<1>2. /\ m \in PageSet
      /\ \A t \in 1 .. SlotsPerPage : ReadRecord(m, t) = IF t = s THEN c ELSE ReadRecord(p, t)
  BY <1>1, CellFacts
<1>3. q \in PageSet /\ q.lsn = n /\ \A t : ReadRecord(q, t) = ReadRecord(m, t)
  BY <1>1, <1>2, StampFacts
<1> QED BY <1>2, <1>3 DEF Written

\* The slot that insert_record takes is free and fits.
LEMMA NextSlotFacts ==
  ASSUME NEW p \in PageSet,
         p.slots = <<>> \/ Tombstones(p) # {} \/ Len(p.slots) < SlotsPerPage
  PROVE  NextSlot(p) \in 1 .. SlotsPerPage /\ ReadRecord(p, NextSlot(p)) = <<>>
<1>0. Len(p.slots) \in 0 .. SlotsPerPage /\ DOMAIN p.slots = 1 .. Len(p.slots)
      /\ SlotsPerPage \in Nat /\ SlotsPerPage >= 1
  BY PageSlots, Bounds
<1>1. CASE Tombstones(p) = {}
  <2>1. Len(p.slots) < SlotsPerPage
    <3>1. p.slots = <<>> => Len(p.slots) = 0
      OBVIOUS
    <3> QED BY <3>1, <1>0, <1>1
  <2>2. NextSlot(p) = Len(p.slots) + 1
    BY <1>1 DEF NextSlot
  <2>3. NextSlot(p) \in 1 .. SlotsPerPage /\ NextSlot(p) \notin DOMAIN p.slots
    BY <2>1, <2>2, <1>0
  <2> QED BY <2>3 DEF ReadRecord
<1>2. CASE Tombstones(p) # {}
  <2> DEFINE T == Tombstones(p)
  <2>1. T \in SUBSET Nat /\ T \subseteq 1 .. SlotsPerPage
    BY <1>0 DEF Tombstones
  <2>2. \E x \in T : \A y \in T : x <= y
    <3> HIDE DEF T
    <3> QED BY <2>1, <1>2, LeastNat DEF T
  <2>3. NextSlot(p) = CHOOSE x \in T : \A y \in T : x <= y
    BY <1>2 DEF NextSlot, Min
  <2>4. NextSlot(p) \in T
    BY <2>2, <2>3
  <2>5. p.slots[NextSlot(p)] = Tombstone
    BY <2>4 DEF Tombstones
  <2> QED BY <2>1, <2>4, <2>5, SlotKinds DEF ReadRecord
<1> QED BY <1>1, <1>2

-----------------------------------------------------------------------------
(* The pages and the log.                                                  *)

\* What a page shows depends on the log up to its LSN.
LEMMA ShowsSame ==
  ASSUME NEW l, NEW k, NEW n \in Nat, NEW m \in Nat, n <= m, Same(k, l, n), NEW ps,
         PagesShow(ps, l, n)
  PROVE  PagesShow(ps, k, m)
<1>1. ASSUME NEW p \in 1 .. Len(ps)
      PROVE  Shows(ps[p], p, k, m)
  <2> DEFINE pg == ps[p]
  <2>1. /\ pg \in PageSet /\ pg.lsn <= n
        /\ \A s \in 1 .. SlotsPerPage : ReadRecord(pg, s) = Heap(l, pg.lsn, <<p, s>>)
    BY <1>1 DEF PagesShow, Shows
  <2> HIDE DEF pg
  <2>2. pg.lsn \in Nat
    BY <2>1, PageSlots
  <2>3. Same(k, l, pg.lsn)
    BY <2>1, <2>2 DEF Same
  <2>4. \A r : Heap(k, pg.lsn, r) = Heap(l, pg.lsn, r)
    BY <2>2, <2>3, HeapSame
  <2>5. Shows(pg, p, k, m)
    BY <2>1, <2>2, <2>4 DEF Shows
  <2> QED BY <2>5 DEF pg
<1> QED BY <1>1 DEF PagesShow

\* The pool, record by record, is the heap.
LEMMA PoolIsHeap ==
  ASSUME NEW l, LogOK(l), NEW ps, PagesShow(ps, l, Len(l)), Latest(ps, l),
         NEW p \in 1 .. Len(ps), NEW s \in 1 .. SlotsPerPage
  PROVE  ReadRecord(ps[p], s) = Heap(l, Len(l), <<p, s>>)
<1> DEFINE pg == ps[p]
<1>1. /\ pg \in PageSet /\ pg.lsn <= Len(l)
      /\ ReadRecord(pg, s) = Heap(l, pg.lsn, <<p, s>>)
  BY DEF PagesShow, Shows
<1>2. pg.lsn \in Nat /\ Len(l) \in Nat
  <2>1. Len(l) \in Nat
    BY DEF LogOK
  <2> HIDE DEF pg
  <2> QED BY <1>1, <2>1, PageSlots
<1>3. ASSUME NEW j \in pg.lsn + 1 .. Len(l), Writes(l, j, <<p, s>>)
      PROVE  FALSE
  <2>1. IsData(l[j]) /\ l[j].rid = <<p, s>> /\ j \in 1 .. Len(l)
    BY <1>2, <1>3 DEF Writes
  <2>2. l[j].rid[1] = p
    BY <2>1
  <2>3. j <= pg.lsn
    BY <2>1, <2>2 DEF Latest
  <2> QED BY <2>3, <1>2, <1>3
<1>4. Heap(l, Len(l), <<p, s>>) = Heap(l, pg.lsn, <<p, s>>)
  <2> HIDE DEF pg
  <2> QED BY <1>1, <1>2, <1>3, HeapKeeps
<1> QED BY <1>1, <1>4

\* There is nothing where there is no page.
LEMMA NoPageNoRecord ==
  ASSUME NEW l, LogOK(l), NEW ps, Latest(ps, l), NEW r \in Rids, r[1] \notin 1 .. Len(ps),
         NEW n \in 0 .. Len(l)
  PROVE  Heap(l, n, r) = <<>>
<1>1. Len(l) \in Nat /\ n \in Nat
  BY DEF LogOK
<1>2. \A j \in 1 .. n : ~Writes(l, j, r)
  BY <1>1 DEF Latest, Writes
<1>3. Heap(l, n, r) = Heap(l, 0, r)
  BY <1>1, <1>2, HeapKeeps
<1> QED BY <1>3, HeapZero

\* A new page is added to the pool.
LEMMA PagesFresh ==
  ASSUME NEW l, LogOK(l), NEW ps, PagesShow(ps, l, Len(l)), Latest(ps, l), Len(ps) < MaxPages,
         NEW qs, qs = Append(ps, InitPage)
  PROVE  PagesShow(qs, l, Len(l)) /\ Latest(qs, l) /\ Len(qs) = Len(ps) + 1
<1>0. ps \in Seq(PageSet) /\ Len(ps) \in Nat /\ Len(l) \in Nat /\ MaxPages \in Nat
  BY Bounds DEF PagesShow, LogOK
<1>1. InitPage \in PageSet /\ InitPage.lsn = 0 /\ \A s : ReadRecord(InitPage, s) = <<>>
  <2>1. InitPage.slots = <<>> /\ InitPage.lsn = 0 /\ InitPage.type = "DATA"
        /\ InitPage = [type |-> "DATA", lsn |-> 0, slots |-> <<>>]
    BY DEF InitPage
  <2>2. 0 \in 0 .. SlotsPerPage /\ <<>> \in [1 .. 0 -> SlotSet]
    BY Bounds
  <2>3. InitPage \in PageSet
    BY <2>1, <2>2, PageParts
  <2>4. \A s : s \notin DOMAIN InitPage.slots
    BY <2>1
  <2> QED BY <2>1, <2>3, <2>4 DEF ReadRecord
<1>2. /\ qs \in Seq(PageSet) /\ Len(qs) = Len(ps) + 1 /\ qs[Len(ps) + 1] = InitPage
      /\ \A p \in 1 .. Len(ps) : qs[p] = ps[p]
  BY <1>0, <1>1
<1>3. ASSUME NEW p \in 1 .. Len(qs)
      PROVE  Shows(qs[p], p, l, Len(l))
  <2>1. CASE p = Len(ps) + 1
    BY <2>1, <1>0, <1>1, <1>2, HeapZero DEF Shows
  <2>2. CASE p # Len(ps) + 1
    <3>1. p \in 1 .. Len(ps)
      BY <2>2, <1>0, <1>2
    <3> QED BY <3>1, <1>2 DEF PagesShow
  <2> QED BY <2>1, <2>2
<1>4. Latest(qs, l)
  BY <1>0, <1>2 DEF Latest
<1> QED BY <1>0, <1>2, <1>3, <1>4 DEF PagesShow

\* A record that changes no page.
LEMMA PagesMark ==
  ASSUME NEW l, LogOK(l), NEW rec \in LogRecords, ~IsData(rec), NEW k, Grown(l, k, rec),
         NEW ps, PagesShow(ps, l, Len(l)), Latest(ps, l)
  PROVE  PagesShow(ps, k, Len(k)) /\ Latest(ps, k)
<1>1. Len(k) = Len(l) + 1 /\ Len(l) \in Nat /\ Same(k, l, Len(l)) /\ k[Len(l) + 1] = rec
  BY Longer
<1>2. PagesShow(ps, k, Len(k))
  BY <1>1, ShowsSame
<1>3. ASSUME NEW i \in 1 .. Len(k), IsData(k[i])
      PROVE  i \in 1 .. Len(l) /\ k[i] = l[i]
  <2>1. i # Len(l) + 1
    BY <1>1, <1>3
  <2>2. i \in 1 .. Len(l)
    BY <2>1, <1>1
  <2> QED BY <2>2, <1>1 DEF Same
<1>4. Latest(ps, k)
  BY <1>3 DEF Latest
<1> QED BY <1>2, <1>4

\* qs is ps with what the last record of k says written on its page.
PageChange(qs, ps, k, rec) ==
  /\ rec.rid \in Rids
  /\ rec.rid[1] \in 1 .. Len(ps)
  /\ \E q : /\ Written(q, ps[rec.rid[1]], rec.rid[2], rec.new, Len(k))
            /\ qs = [ps EXCEPT ![rec.rid[1]] = q]

\* A record that changes a page.
LEMMA PagesWrite ==
  ASSUME NEW l, LogOK(l), NEW rec \in LogRecords, IsData(rec), NEW k, Grown(l, k, rec),
         NEW ps, PagesShow(ps, l, Len(l)), Latest(ps, l),
         NEW qs, PageChange(qs, ps, k, rec)
  PROVE  PagesShow(qs, k, Len(k)) /\ Latest(qs, k) /\ Len(qs) = Len(ps)
<1> DEFINE r == rec.rid
<1>9. r \in Rids /\ r = rec.rid /\ r[1] \in 1 .. Len(ps)
  BY DEF PageChange
<1>10. PICK q : Written(q, ps[r[1]], r[2], rec.new, Len(k)) /\ qs = [ps EXCEPT ![r[1]] = q]
  BY DEF PageChange
<1> HIDE DEF r
<1>0. /\ q \in PageSet /\ q.lsn = Len(k)
      /\ \A t \in 1 .. SlotsPerPage :
            ReadRecord(q, t) = IF t = r[2] THEN rec.new ELSE ReadRecord(ps[r[1]], t)
  BY <1>10 DEF Written
<1>1. Len(k) = Len(l) + 1 /\ Len(l) \in Nat /\ Same(k, l, Len(l)) /\ k[Len(l) + 1] = rec
  BY Longer
<1>2. PagesShow(ps, k, Len(k))
  BY <1>1, ShowsSame
<1>3. ps \in Seq(PageSet) /\ Len(ps) \in Nat
  BY DEF PagesShow
<1>4. /\ qs \in Seq(PageSet) /\ Len(qs) = Len(ps) /\ qs[r[1]] = q
      /\ \A p \in 1 .. Len(ps) : p # r[1] => qs[p] = ps[p]
  BY <1>0, <1>3, <1>9, <1>10
<1>5. ASSUME NEW p \in 1 .. Len(qs)
      PROVE  Shows(qs[p], p, k, Len(k))
  <2>1. CASE p # r[1]
    BY <2>1, <1>2, <1>4 DEF PagesShow
  <2>2. CASE p = r[1]
    <3>1. ASSUME NEW s \in 1 .. SlotsPerPage
          PROVE  ReadRecord(q, s) = Heap(k, Len(k), <<p, s>>)
      <4>1. Heap(k, Len(k), <<p, s>>) =
              IF IsData(rec) /\ rec.rid = <<p, s>> THEN rec.new ELSE Heap(l, Len(l), <<p, s>>)
        BY LongerHeap
      <4>2. rec.rid = <<p, s>> <=> s = r[2]
        BY <2>2, <1>9, RidParts
      <4>3. ReadRecord(ps[p], s) = Heap(l, Len(l), <<p, s>>)
        BY <2>2, <1>9, PoolIsHeap
      <4> QED BY <4>1, <4>2, <4>3, <2>2, <1>0
    <3>2. q.lsn <= Len(k)
      BY <1>0, <1>1
    <3>3. Shows(q, p, k, Len(k))
      BY <1>0, <3>1, <3>2 DEF Shows
    <3> QED BY <3>3, <2>2, <1>4
  <2> QED BY <2>1, <2>2
<1>6. ASSUME NEW i \in 1 .. Len(k), IsData(k[i])
      PROVE  k[i].rid[1] \in 1 .. Len(qs) /\ i <= qs[k[i].rid[1]].lsn
  <2>1. CASE i = Len(l) + 1
    BY <2>1, <1>0, <1>1, <1>4, <1>9
  <2>2. CASE i # Len(l) + 1
    <3>1. i \in 1 .. Len(l) /\ k[i] = l[i]
      BY <2>2, <1>1 DEF Same
    <3>2. l[i].rid[1] \in 1 .. Len(ps) /\ i <= ps[l[i].rid[1]].lsn
      BY <3>1, <1>6 DEF Latest
    <3>3. CASE l[i].rid[1] = r[1]
      <4>1. i <= Len(k)
        BY <1>1, <3>1
      <4> QED BY <3>1, <3>2, <3>3, <1>0, <1>4, <4>1
    <3>4. CASE l[i].rid[1] # r[1]
      BY <3>1, <3>2, <3>4, <1>4
    <3> QED BY <3>3, <3>4
  <2> QED BY <2>1, <2>2
<1>7. Latest(qs, k)
  BY <1>6 DEF Latest
<1> QED BY <1>2, <1>4, <1>5, <1>7 DEF PagesShow

-----------------------------------------------------------------------------
(* The index and the log.                                                  *)

\* The heap after one record more, at the place it writes and elsewhere.
LEMMA HeapAfter ==
  ASSUME NEW l, LogOK(l), NEW rec \in LogRecords, NEW k, Grown(l, k, rec)
  PROVE  /\ ~IsData(rec) => \A r : Heap(k, Len(k), r) = Heap(l, Len(l), r)
         /\ IsData(rec) => Heap(k, Len(k), rec.rid) = rec.new
         /\ \A r : r # rec.rid => Heap(k, Len(k), r) = Heap(l, Len(l), r)
BY LongerHeap

LEMMA IndexWithMark ==
  ASSUME NEW l, LogOK(l), NEW rec \in LogRecords, ~IsData(rec), NEW k, Grown(l, k, rec),
         NEW ix, IndexOK(ix, l)
  PROVE  IndexOK(ix, k)
<1>1. \A r : Heap(k, Len(k), r) = Heap(l, Len(l), r)
  BY HeapAfter
<1> QED BY <1>1 DEF IndexOK

\* A record is put where there is none: its key is added.
LEMMA IndexWithInsert ==
  ASSUME NEW l, LogOK(l), NEW rec \in LogRecords, IsData(rec), NEW k, Grown(l, k, rec),
         NEW r \in Rids, r = rec.rid, Heap(l, Len(l), r) = <<>>, rec.new \in RecordSet,
         NEW ix, IndexOK(ix, l), NEW key, key = rec.new[1], key \notin DOMAIN ix,
         NEW jx, jx = IndexInsert(ix, key, r)
  PROVE  IndexOK(jx, k)
<1>1. Heap(k, Len(k), r) = rec.new /\ \A q : q # r => Heap(k, Len(k), q) = Heap(l, Len(l), q)
  BY HeapAfter
<1>2. ix \in [DOMAIN ix -> Rids]
  BY DEF IndexOK
<1>3. /\ DOMAIN jx = DOMAIN ix \cup {key} /\ jx[key] = r
      /\ \A j \in DOMAIN ix : jx[j] = ix[j]
      /\ jx \in [DOMAIN jx -> Rids]
  BY <1>2 DEF IndexInsert
<1>4. rec.new # <<>>
  BY SlotKinds
<1>5. ASSUME NEW j \in DOMAIN jx
      PROVE  Heap(k, Len(k), jx[j]) # <<>> /\ Heap(k, Len(k), jx[j])[1] = j
  BY <1>1, <1>3, <1>4 DEF IndexOK
<1>6. ASSUME NEW q \in Rids, Heap(k, Len(k), q) # <<>>
      PROVE  Heap(k, Len(k), q)[1] \in DOMAIN jx /\ jx[Heap(k, Len(k), q)[1]] = q
  <2>1. CASE q = r
    BY <2>1, <1>1, <1>3
  <2>2. CASE q # r
    BY <2>2, <1>1, <1>3, <1>6 DEF IndexOK
  <2> QED BY <2>1, <2>2
<1> QED BY <1>3, <1>5, <1>6 DEF IndexOK

\* A record is taken away: so is its key.
LEMMA IndexWithRemove ==
  ASSUME NEW l, LogOK(l), NEW rec \in LogRecords, IsData(rec), NEW k, Grown(l, k, rec),
         NEW r \in Rids, r = rec.rid, Heap(l, Len(l), r) # <<>>, rec.new = <<>>,
         NEW ix, IndexOK(ix, l), NEW key, key = Heap(l, Len(l), r)[1],
         NEW jx, jx = IndexRemove(ix, key)
  PROVE  IndexOK(jx, k)
<1>1. Heap(k, Len(k), r) = <<>> /\ \A q : q # r => Heap(k, Len(k), q) = Heap(l, Len(l), q)
  BY HeapAfter
<1>2. ix \in [DOMAIN ix -> Rids] /\ key \in DOMAIN ix /\ ix[key] = r
  BY DEF IndexOK
<1>3. /\ DOMAIN jx = DOMAIN ix \ {key}
      /\ \A j \in DOMAIN jx : jx[j] = ix[j] /\ j \in DOMAIN ix /\ j # key
      /\ jx \in [DOMAIN jx -> Rids]
  BY <1>2 DEF IndexRemove
<1>4. ASSUME NEW j \in DOMAIN jx
      PROVE  Heap(k, Len(k), jx[j]) # <<>> /\ Heap(k, Len(k), jx[j])[1] = j
  <2>1. Heap(l, Len(l), ix[j]) # <<>> /\ Heap(l, Len(l), ix[j])[1] = j /\ j # key
    BY <1>3, <1>4 DEF IndexOK
  <2>2. ix[j] # r
    BY <2>1
  <2> QED BY <2>1, <2>2, <1>1, <1>3, <1>4
<1>5. ASSUME NEW q \in Rids, Heap(k, Len(k), q) # <<>>
      PROVE  Heap(k, Len(k), q)[1] \in DOMAIN jx /\ jx[Heap(k, Len(k), q)[1]] = q
  <2>1. q # r /\ Heap(k, Len(k), q) = Heap(l, Len(l), q)
    BY <1>1, <1>5
  <2>2. Heap(l, Len(l), q)[1] \in DOMAIN ix /\ ix[Heap(l, Len(l), q)[1]] = q
    BY <2>1, <1>5 DEF IndexOK
  <2>3. Heap(l, Len(l), q)[1] # key
    BY <2>1, <2>2, <1>2
  <2>4. Heap(l, Len(l), q)[1] \in DOMAIN jx
    BY <2>2, <2>3, <1>3
  <2> QED BY <2>1, <2>2, <2>4, <1>3
<1> QED BY <1>3, <1>4, <1>5 DEF IndexOK

\* A record is replaced by another of its key: the index stays.
LEMMA IndexWithReplace ==
  ASSUME NEW l, LogOK(l), NEW rec \in LogRecords, IsData(rec), NEW k, Grown(l, k, rec),
         NEW r \in Rids, r = rec.rid, Heap(l, Len(l), r) # <<>>, rec.new # <<>>,
         rec.new[1] = Heap(l, Len(l), r)[1],
         NEW ix, IndexOK(ix, l)
  PROVE  IndexOK(ix, k)
<1>1. Heap(k, Len(k), r) = rec.new /\ \A q : q # r => Heap(k, Len(k), q) = Heap(l, Len(l), q)
  BY HeapAfter
<1>2. \A q : /\ Heap(k, Len(k), q) # <<>> <=> Heap(l, Len(l), q) # <<>>
             /\ Heap(k, Len(k), q)[1] = Heap(l, Len(l), q)[1]
  BY <1>1
<1> QED BY <1>2 DEF IndexOK

-----------------------------------------------------------------------------
(* The log grows.                                                          *)

\* k begins with l.
Extends(k, l) == Len(l) <= Len(k) /\ Same(k, l, Len(l))

LEMMA ExtendsTrans ==
  ASSUME NEW l, NEW k, NEW j, Len(l) \in Nat, Len(k) \in Nat, Len(j) \in Nat,
         Extends(k, l), Extends(j, k)
  PROVE  Extends(j, l)
BY DEF Extends, Same

LEMMA GrownExtends ==
  ASSUME NEW l, LogOK(l), NEW rec \in LogRecords, NEW k, Grown(l, k, rec)
  PROVE  Extends(k, l) /\ Len(k) = Len(l) + 1 /\ Len(l) \in Nat
BY Longer DEF Extends

LEMMA SettledSame ==
  ASSUME NEW l, NEW k, NEW n \in Nat, Same(k, l, n)
  PROVE  /\ Settled(k, n) = Settled(l, n)
         /\ HeapSet(k, n) = HeapSet(l, n)
<1>1. Base(k, n) = Base(l, n) /\ Base(l, n) \in 0 .. n
  BY BaseSame, BaseExists
<1>2. Same(k, l, Base(l, n))
  BY <1>1 DEF Same
<1>3. \A r : Heap(k, Base(l, n), r) = Heap(l, Base(l, n), r)
  BY <1>1, <1>2, HeapSame
<1>4. \A r : Heap(k, n, r) = Heap(l, n, r)
  BY HeapSame
<1> QED BY <1>1, <1>3, <1>4 DEF Settled, HeapSet

LEMMA SettledExtends ==
  ASSUME NEW l, NEW k, Extends(k, l), Len(l) \in Nat, NEW n \in 0 .. Len(l)
  PROVE  Settled(k, n) = Settled(l, n) /\ HeapSet(k, n) = HeapSet(l, n)
<1>1. Same(k, l, n) /\ n \in Nat
  BY DEF Extends, Same
<1> QED BY <1>1, SettledSame

\* The records that are not data: they change neither the heap nor a page.
LEMMA MarkRecord ==
  ASSUME NEW type \in {"BEGIN", "COMMIT", "ABORT", "TXN_END"}, NEW prev \in Nat
  PROVE  /\ Mark(type, prev) \in LogRecords /\ ~IsData(Mark(type, prev))
         /\ Mark(type, prev).type = type /\ Mark(type, prev).prev = prev
         /\ Ends(Mark(type, prev)) <=> type \in {"COMMIT", "TXN_END"}
BY DEF Mark, LogRecords, IsData, Cells, Ends

\* A mark is appended to the log of a process.
LEMMA MarkAppended ==
  ASSUME NEW st, StoreOK(st), NEW rec \in LogRecords, ~IsData(rec),
         NEW k, Grown(st.log, k, rec), RecordOK(k, Len(k))
  PROVE  /\ Len(k) = Len(st.log) + 1
         /\ LogOK(k) /\ Extends(k, st.log)
         /\ k[Len(k)] = rec
         /\ PagesShow(st.pages, k, Len(k)) /\ Latest(st.pages, k)
         /\ \A ix : IndexOK(ix, st.log) => IndexOK(ix, k)
         /\ \A r : Heap(k, Len(k), r) = Heap(st.log, Len(st.log), r)
         /\ HeapSet(k, Len(k)) = HeapSet(st.log, Len(st.log))
         /\ Base(k, Len(k)) = IF Ends(rec) THEN Len(k) ELSE Base(st.log, Len(st.log))
<1> DEFINE l == st.log
<1>0. LogOK(l) /\ PagesShow(st.pages, l, Len(l)) /\ Latest(st.pages, l) /\ Grown(l, k, rec)
  BY DEF StoreOK
<1> HIDE DEF l
<1>3. Len(k) = Len(l) + 1 /\ LogOK(k) /\ k[Len(k)] = rec /\ Extends(k, l)
  <2>1. Len(k) = Len(l) + 1 /\ (RecordOK(k, Len(l) + 1) => LogOK(k)) /\ k[Len(l) + 1] = rec
    BY <1>0, Longer
  <2> QED BY <2>1, <1>0, GrownExtends
<1>4. PagesShow(st.pages, k, Len(k)) /\ Latest(st.pages, k)
  BY <1>0, PagesMark
<1>5. \A ix : IndexOK(ix, l) => IndexOK(ix, k)
  BY <1>0, IndexWithMark
<1>6. \A r : Heap(k, Len(k), r) = Heap(l, Len(l), r)
  BY <1>0, HeapAfter
<1>7. HeapSet(k, Len(k)) = HeapSet(l, Len(l))
  BY <1>6 DEF HeapSet
<1>8. Base(k, Len(k)) = IF Ends(rec) THEN Len(k) ELSE Base(l, Len(l))
  BY <1>0, LongerHeap
<1> QED BY <1>3, <1>4, <1>5, <1>6, <1>7, <1>8 DEF l

-----------------------------------------------------------------------------
(* begin and commit.                                                       *)

LEMMA DataPageMark ==
  ASSUME NEW st, StoreOK(st), DataPageOK(st), NEW rec \in LogRecords, ~IsData(rec),
         NEW k, Grown(st.log, k, rec), NEW tt, tt.log = k, tt.data_page = st.data_page
  PROVE  DataPageOK(tt)
<1>1. LogOK(st.log)
  BY DEF StoreOK
<1>2. Len(k) = Len(st.log) + 1 /\ Len(st.log) \in Nat /\ Same(k, st.log, Len(st.log))
      /\ k[Len(st.log) + 1] = rec
  BY <1>1, Longer
<1>3. ASSUME NEW i \in 1 .. Len(k), IsData(k[i])
      PROVE  i \in 1 .. Len(st.log) /\ IsData(st.log[i])
  <2>1. i # Len(st.log) + 1
    BY <1>2, <1>3
  <2>2. i \in 1 .. Len(st.log)
    BY <1>2, <2>1
  <2> QED BY <2>2, <1>2, <1>3 DEF Same
<1> QED BY <1>3 DEF DataPageOK

LEMMA BeginOK ==
  ASSUME NEW st, IdleOK(st), NEW tt, tt = TxnBegin(st)
  PROVE  /\ OpenOK(tt) /\ Extends(tt.log, st.log) /\ Len(tt.log) = Len(st.log) + 1
         /\ HeapSet(tt.log, Len(tt.log)) = HeapSet(st.log, Len(st.log))
         /\ Base(tt.log, Len(tt.log)) = Base(st.log, Len(st.log))
         /\ tt.pages = st.pages /\ tt.index = st.index /\ tt.data_page = st.data_page
         /\ tt.last # 0
<1> DEFINE k == Append(st.log, Mark("BEGIN", 0))
<1>0. StoreOK(st) /\ IsProcess(st) /\ LogOK(st.log) /\ DataPageOK(st)
  BY DEF IdleOK, StoreOK
<1>1. tt = [pages |-> st.pages, data_page |-> st.data_page, index |-> st.index,
            log |-> k, last |-> Len(st.log) + 1]
  BY <1>0 DEF TxnBegin, IsProcess
<1>2. /\ tt.pages = st.pages /\ tt.data_page = st.data_page /\ tt.index = st.index
      /\ tt.log = k /\ tt.last = Len(st.log) + 1
  BY <1>1
<1>3. RecordOK(k, Len(k))
  <2>1. Mark("BEGIN", 0) \in LogRecords /\ Mark("BEGIN", 0).type = "BEGIN" /\ Mark("BEGIN", 0).prev = 0
    BY MarkRecord
  <2>2. Grown(st.log, k, Mark("BEGIN", 0))
    BY DEF Grown
  <2> HIDE DEF k
  <2>3. Len(k) = Len(st.log) + 1 /\ Len(st.log) \in Nat /\ Same(k, st.log, Len(st.log))
        /\ k[Len(st.log) + 1] = Mark("BEGIN", 0)
    BY <1>0, <2>1, <2>2, Longer
  <2>4. Len(st.log) = 0 \/ Ends(st.log[Len(st.log)])
    <3>1. IsBase(st.log, Len(st.log), Len(st.log))
      BY <2>3, BaseExists DEF IdleOK
    <3> QED BY <3>1 DEF IsBase
  <2>5. Len(st.log) # 0 => k[Len(st.log)] = st.log[Len(st.log)]
    BY <2>3 DEF Same
  <2>6. Len(k) - 1 = Len(st.log) /\ k[Len(k)].type = "BEGIN" /\ k[Len(k)].prev = 0
        /\ k[Len(k)].prev < Len(k)
    BY <2>1, <2>3
  <2> QED BY <2>4, <2>5, <2>6 DEF RecordOK
<1> HIDE DEF k
<1>9. /\ Mark("BEGIN", 0) \in LogRecords /\ ~IsData(Mark("BEGIN", 0)) /\ ~Ends(Mark("BEGIN", 0))
      /\ Grown(st.log, k, Mark("BEGIN", 0))
  BY MarkRecord DEF Grown, k
<1>4. /\ Len(k) = Len(st.log) + 1
      /\ LogOK(k) /\ Extends(k, st.log)
      /\ k[Len(k)] = Mark("BEGIN", 0)
      /\ PagesShow(st.pages, k, Len(k)) /\ Latest(st.pages, k)
      /\ \A ix : IndexOK(ix, st.log) => IndexOK(ix, k)
      /\ HeapSet(k, Len(k)) = HeapSet(st.log, Len(st.log))
      /\ Base(k, Len(k)) = Base(st.log, Len(st.log))
  BY <1>0, <1>3, <1>9, MarkAppended
<1>5. DataPageOK(tt)
  BY <1>0, <1>2, <1>9, DataPageMark
<1>6. StoreOK(tt)
  BY <1>1, <1>2, <1>4 DEF StoreOK, IsProcess
<1>7. IndexOK(tt.index, tt.log)
  BY <1>2, <1>4 DEF IdleOK
<1>8. tt.last = Len(tt.log) /\ tt.last # 0 /\ tt.log[tt.last].type = "BEGIN"
  <2>1. Len(st.log) \in Nat
    BY <1>0 DEF LogOK
  <2> QED BY <2>1, <1>2, <1>4, MarkRecord
<1> QED BY <1>2, <1>4, <1>5, <1>6, <1>7, <1>8 DEF OpenOK

LEMMA CommitOK ==
  ASSUME NEW st, OpenOK(st), NEW tt, tt = TxnCommit(st)
  PROVE  /\ IdleOK(tt) /\ Extends(tt.log, st.log) /\ Len(tt.log) = Len(st.log) + 2
         /\ tt.pages = st.pages /\ tt.log[Len(tt.log)].type = "TXN_END"
         /\ HeapSet(tt.log, Len(tt.log)) = HeapSet(st.log, Len(st.log))
         /\ Settled(tt.log, Len(st.log) + 1) = HeapSet(st.log, Len(st.log))
<1> DEFINE c == Mark("COMMIT", st.last)
           k == Append(st.log, c)
           e == Mark("TXN_END", Len(st.log) + 1)
           j == Append(k, e)
           mid == [st EXCEPT !.log = k]
<1>0. StoreOK(st) /\ IsProcess(st) /\ LogOK(st.log) /\ DataPageOK(st) /\ st.log \in Seq(LogRecords)
      /\ Len(st.log) \in Nat /\ st.last = Len(st.log) /\ st.last # 0
      /\ st.log[st.last].type \in {"BEGIN", "UPDATE"} /\ IndexOK(st.index, st.log)
  BY DEF OpenOK, StoreOK, LogOK
<1>1. /\ c \in LogRecords /\ ~IsData(c) /\ c.type = "COMMIT" /\ Ends(c) /\ c.prev = st.last
      /\ e \in LogRecords /\ ~IsData(e) /\ e.type = "TXN_END" /\ Ends(e)
      /\ e.prev = Len(st.log) + 1
  BY <1>0, MarkRecord
<1>2. st.log \o <<c, e>> = j
  BY <1>0, <1>1
<1>3. tt = [pages |-> st.pages, data_page |-> st.data_page, index |-> st.index,
            log |-> j, last |-> 0]
  BY <1>0, <1>2 DEF TxnCommit, IsProcess
<1>4. /\ tt.pages = st.pages /\ tt.data_page = st.data_page /\ tt.index = st.index
      /\ tt.log = j /\ tt.last = 0
  BY <1>3
<1>5. Grown(st.log, k, c) /\ Grown(k, j, e)
  BY DEF Grown
<1>6. Len(k) = Len(st.log) + 1 /\ k[Len(k)] = c /\ Same(k, st.log, Len(st.log))
  <2> HIDE DEF k, c
  <2> QED BY <1>0, <1>1, <1>5, Longer
<1>7. RecordOK(k, Len(k))
  <2> HIDE DEF k, c
  <2>1. k[Len(st.log)] = st.log[Len(st.log)]
    BY <1>0, <1>6 DEF Same
  <2>2. k[Len(k)].type = "COMMIT" /\ Len(k) - 1 = Len(st.log) /\ k[Len(k)].prev < Len(k)
    BY <1>0, <1>1, <1>6
  <2> QED BY <2>1, <2>2, <1>0 DEF RecordOK
<1>8. /\ LogOK(k) /\ Extends(k, st.log)
      /\ PagesShow(st.pages, k, Len(k)) /\ Latest(st.pages, k)
      /\ \A ix : IndexOK(ix, st.log) => IndexOK(ix, k)
      /\ HeapSet(k, Len(k)) = HeapSet(st.log, Len(st.log))
      /\ Base(k, Len(k)) = Len(k)
  <2> HIDE DEF k, c
  <2> QED BY <1>0, <1>1, <1>5, <1>7, MarkAppended
<1>9. /\ mid.pages = st.pages /\ mid.log = k /\ mid.data_page = st.data_page /\ StoreOK(mid)
  <2> HIDE DEF k
  <2>1. mid = [pages |-> st.pages, data_page |-> st.data_page, index |-> st.index,
               log |-> k, last |-> st.last]
    BY <1>0 DEF IsProcess
  <2> HIDE DEF mid
  <2> QED BY <2>1, <1>8 DEF StoreOK, IsProcess
<1>10. RecordOK(j, Len(j)) /\ Len(j) = Len(k) + 1 /\ Same(j, k, Len(k)) /\ j[Len(j)].type = "TXN_END"
  <2> HIDE DEF k, e, j
  <2>1. Len(j) = Len(k) + 1 /\ Len(k) \in Nat /\ Same(j, k, Len(k)) /\ j[Len(k) + 1] = e
    BY <1>1, <1>5, <1>8, Longer
  <2>2. j[Len(k)] = k[Len(k)] /\ Len(k) # 0
    BY <2>1, <1>6, <1>0 DEF Same
  <2>3. j[Len(j)].type = "TXN_END" /\ Len(j) - 1 = Len(k) /\ Ends(j[Len(k)])
        /\ j[Len(j)].prev < Len(j)
    BY <2>1, <2>2, <1>0, <1>1, <1>6
  <2> QED BY <2>1, <2>2, <2>3 DEF RecordOK
<1>11. /\ LogOK(j) /\ Extends(j, k) /\ Len(j) = Len(k) + 1
       /\ PagesShow(st.pages, j, Len(j)) /\ Latest(st.pages, j)
       /\ \A ix : IndexOK(ix, k) => IndexOK(ix, j)
       /\ HeapSet(j, Len(j)) = HeapSet(k, Len(k))
       /\ Base(j, Len(j)) = Len(j)
  <2> HIDE DEF k, e, j, mid
  <2>1. Grown(mid.log, j, e)
    BY <1>5, <1>9
  <2> QED BY <2>1, <1>1, <1>9, <1>10, MarkAppended
<1> HIDE DEF c, e, k, j, mid
<1>12. Len(k) \in Nat /\ Len(j) \in Nat /\ Len(j) = Len(st.log) + 2 /\ Extends(tt.log, st.log)
  BY <1>0, <1>4, <1>6, <1>8, <1>11, ExtendsTrans
<1>13. DataPageOK(tt)
  <2>1. DataPageOK(mid)
    BY <1>0, <1>1, <1>5, <1>9, DataPageMark
  <2> QED BY <2>1, <1>1, <1>4, <1>5, <1>9, DataPageMark
<1>14. IdleOK(tt)
  BY <1>0, <1>3, <1>4, <1>8, <1>11, <1>13 DEF IdleOK, StoreOK, IsProcess
<1>15. Settled(j, Len(st.log) + 1) = HeapSet(st.log, Len(st.log))
  <2>1. Settled(j, Len(k)) = Settled(k, Len(k))
    BY <1>11, <1>12, SettledExtends
  <2> QED BY <2>1, <1>6, <1>8 DEF Settled
<1> QED BY <1>4, <1>8, <1>10, <1>11, <1>12, <1>14, <1>15

-----------------------------------------------------------------------------
(* The records that are stored, after one record of the log more.          *)

LEMMA SetInsert ==
  ASSUME NEW l, LogOK(l), NEW rec \in LogRecords, IsData(rec), NEW k, Grown(l, k, rec),
         NEW r \in Rids, r = rec.rid, Heap(l, Len(l), r) = <<>>, rec.new # <<>>
  PROVE  HeapSet(k, Len(k)) = HeapSet(l, Len(l)) \cup {rec.new}
<1>1. Heap(k, Len(k), r) = rec.new /\ \A q : q # r => Heap(k, Len(k), q) = Heap(l, Len(l), q)
  BY HeapAfter
<1>2. ASSUME NEW x \in HeapSet(k, Len(k)) PROVE x \in HeapSet(l, Len(l)) \cup {rec.new}
  <2>1. PICK q \in Rids : x = Heap(k, Len(k), q) /\ x # <<>>
    BY <1>2 DEF HeapSet
  <2>2. q # r => x = Heap(l, Len(l), q)
    BY <2>1, <1>1
  <2> QED BY <2>1, <2>2, <1>1 DEF HeapSet
<1>3. ASSUME NEW x \in HeapSet(l, Len(l)) PROVE x \in HeapSet(k, Len(k))
  <2>1. PICK q \in Rids : x = Heap(l, Len(l), q) /\ x # <<>>
    BY <1>3 DEF HeapSet
  <2>2. q # r /\ x = Heap(k, Len(k), q)
    BY <2>1, <1>1
  <2> QED BY <2>1, <2>2 DEF HeapSet
<1>4. rec.new \in HeapSet(k, Len(k))
  BY <1>1 DEF HeapSet
<1> QED BY <1>2, <1>3, <1>4

\* All but the record of one key, which there is once.
LEMMA SetOthers ==
  ASSUME NEW l, LogOK(l), NEW rec \in LogRecords, IsData(rec), NEW k, Grown(l, k, rec),
         NEW r \in Rids, r = rec.rid, Heap(l, Len(l), r) # <<>>,
         NEW key, key = Heap(l, Len(l), r)[1],
         rec.new # <<>> => rec.new[1] = key
  PROVE  HeapSet(k, Len(k)) =
           Without(HeapSet(l, Len(l)), key) \cup (IF rec.new = <<>> THEN {} ELSE {rec.new})
<1> DEFINE more == IF rec.new = <<>> THEN {} ELSE {rec.new}
<1>0. Len(l) \in 0 .. Len(l)
  BY DEF LogOK
<1>1. Heap(k, Len(k), r) = rec.new /\ \A q : q # r => Heap(k, Len(k), q) = Heap(l, Len(l), q)
  BY HeapAfter
<1>2. \A q \in Rids : q # r /\ Heap(l, Len(l), q) # <<>> => Heap(l, Len(l), q)[1] # key
  BY <1>0, UniqueKeys DEF Unique
<1>3. ASSUME NEW x \in HeapSet(k, Len(k)) PROVE x \in Without(HeapSet(l, Len(l)), key) \cup more
  <2>1. PICK q \in Rids : x = Heap(k, Len(k), q) /\ x # <<>>
    BY <1>3 DEF HeapSet
  <2>2. CASE q = r
    BY <2>1, <2>2, <1>1
  <2>3. CASE q # r
    <3>1. x = Heap(l, Len(l), q) /\ x[1] # key
      BY <2>1, <2>3, <1>1, <1>2
    <3> QED BY <3>1, <2>1 DEF HeapSet, Without
  <2> QED BY <2>2, <2>3
<1>4. ASSUME NEW x \in Without(HeapSet(l, Len(l)), key) PROVE x \in HeapSet(k, Len(k))
  <2>1. PICK q \in Rids : x = Heap(l, Len(l), q) /\ x # <<>> /\ x[1] # key
    BY <1>4 DEF HeapSet, Without
  <2>2. q # r /\ x = Heap(k, Len(k), q)
    BY <2>1, <1>1
  <2> QED BY <2>1, <2>2 DEF HeapSet
<1>5. ASSUME NEW x \in more PROVE x \in HeapSet(k, Len(k))
  BY <1>1, <1>5 DEF HeapSet
<1>6. HeapSet(k, Len(k)) = Without(HeapSet(l, Len(l)), key) \cup more
  <2> HIDE DEF more
  <2> QED BY <1>3, <1>4, <1>5
<1> QED BY <1>6

-----------------------------------------------------------------------------
(* A change by a client.                                                   *)

Process(st, ps, d, ix, l, m) ==
  st = [pages |-> ps, data_page |-> d, index |-> ix, log |-> l, last |-> m]

LEMMA ProcessParts ==
  ASSUME NEW ps, NEW d, NEW ix, NEW l, NEW m, NEW st, Process(st, ps, d, ix, l, m)
  PROVE  /\ st.pages = ps /\ st.data_page = d /\ st.index = ix /\ st.log = l /\ st.last = m
         /\ IsProcess(st)
BY DEF Process, IsProcess

LEMMA ProcessLog ==
  ASSUME NEW ps, NEW d, NEW ix, NEW l, NEW m, NEW st, Process(st, ps, d, ix, l, m), NEW a, NEW b
  PROVE  Process([st EXCEPT !.log = a, !.last = b], ps, d, ix, a, b)
<1> DEFINE x == [st EXCEPT !.log = a]
<1>1. x = [pages |-> ps, data_page |-> d, index |-> ix, log |-> a, last |-> m]
  BY DEF Process
<1>2. [st EXCEPT !.log = a, !.last = b] = [x EXCEPT !.last = b]
  OBVIOUS
<1> HIDE DEF x
<1>3. [x EXCEPT !.last = b] =
        [pages |-> ps, data_page |-> d, index |-> ix, log |-> a, last |-> b]
  BY <1>1
<1> QED BY <1>2, <1>3 DEF Process

LEMMA ProcessPages ==
  ASSUME NEW ps, NEW d, NEW ix, NEW l, NEW m, NEW st, Process(st, ps, d, ix, l, m), NEW a
  PROVE  Process([st EXCEPT !.pages = a], a, d, ix, l, m)
BY DEF Process

LEMMA ProcessIndex ==
  ASSUME NEW ps, NEW d, NEW ix, NEW l, NEW m, NEW st, Process(st, ps, d, ix, l, m), NEW a
  PROVE  Process([st EXCEPT !.index = a], ps, d, a, l, m)
BY DEF Process

\* One record more in the open transaction.
Changed(tt, st) ==
  /\ OpenOK(tt)
  /\ Extends(tt.log, st.log)
  /\ Len(tt.log) = Len(st.log) + 1
  /\ Base(tt.log, Len(tt.log)) = Base(st.log, Len(st.log))

\* What put, del and update do, once their pages and their index are known.
LEMMA ChangeOK ==
  ASSUME NEW st, OpenOK(st),
         NEW ps, PagesShow(ps, st.log, Len(st.log)), Latest(ps, st.log),
         NEW rec \in LogRecords, rec.type = "UPDATE", rec.prev = st.last,
         NEW r \in Rids, r = rec.rid,
         rec.old = Heap(st.log, Len(st.log), r),
         \/ /\ rec.old = <<>> /\ rec.new \in RecordSet /\ rec.key = rec.new[1]
            /\ \A q \in Rids : Heap(st.log, Len(st.log), q) # <<>> =>
                                 Heap(st.log, Len(st.log), q)[1] # rec.key
         \/ rec.old \in RecordSet /\ rec.new = <<>> /\ rec.key = rec.old[1]
         \/ rec.old \in RecordSet /\ rec.new \in RecordSet /\ rec.old[1] = rec.new[1]
            /\ rec.key = <<>>,
         NEW k, Grown(st.log, k, rec),
         NEW qs, PageChange(qs, ps, k, rec),
         NEW ix, IndexOK(ix, k),
         NEW d \in 1 .. IndexLeaf,
         NEW tt, Process(tt, qs, d, ix, k, Len(st.log) + 1)
  PROVE  Changed(tt, st)
<1> DEFINE l == st.log
<1>0. /\ LogOK(l) /\ st.last = Len(l) /\ st.last # 0 /\ l[Len(l)].type \in {"BEGIN", "UPDATE"}
      /\ IsData(rec) /\ ~Ends(rec)
  BY DEF OpenOK, StoreOK, IsData, Ends
<1>1. tt.pages = qs /\ tt.data_page = d /\ tt.index = ix /\ tt.log = k /\ tt.last = Len(l) + 1
      /\ IsProcess(tt)
  BY ProcessParts
<1>8. Grown(l, k, rec) /\ rec.old = Heap(l, Len(l), r)
  OBVIOUS
<1>10. /\ PagesShow(ps, l, Len(l)) /\ Latest(ps, l)
  OBVIOUS
<1> HIDE DEF l
<1>2. Len(k) = Len(l) + 1 /\ Len(l) \in Nat /\ Same(k, l, Len(l)) /\ k[Len(l) + 1] = rec
      /\ (RecordOK(k, Len(l) + 1) => LogOK(k))
  BY <1>0, <1>8, Longer
<1>3. \A x : Heap(k, Len(l), x) = Heap(l, Len(l), x)
  BY <1>2, HeapSame
<1>4. LogOK(k)
  <2>1. k[Len(l)] = l[Len(l)]
    BY <1>0, <1>2 DEF Same
  <2>2. Len(k) - 1 = Len(l) /\ k[Len(k)] = rec
    BY <1>2
  <2>3. UpdateOK(k, Len(k))
    BY <2>2, <1>3, <1>8 DEF UpdateOK, l
  <2>4. RecordOK(k, Len(k))
    BY <2>1, <2>2, <2>3, <1>0 DEF RecordOK
  <2> QED BY <2>4, <1>2
<1>5. PagesShow(qs, k, Len(k)) /\ Latest(qs, k)
  BY <1>0, <1>8, <1>10, PagesWrite
<1>6. Base(k, Len(k)) = Base(l, Len(l))
  BY <1>0, <1>8, LongerHeap
<1>7. DataPageOK(tt)
  <2>1. d # 0 /\ d \in 0 .. IndexLeaf
    BY Bounds DEF IndexLeaf
  <2> QED BY <2>1, <1>1 DEF DataPageOK
<1>11. tt.last = Len(tt.log) /\ tt.last # 0 /\ tt.log[tt.last].type = "UPDATE"
  BY <1>1, <1>2
<1>12. OpenOK(tt)
  BY <1>1, <1>4, <1>5, <1>7, <1>11 DEF OpenOK, StoreOK
<1>13. Extends(k, l)
  BY <1>2 DEF Extends
<1> QED BY <1>1, <1>2, <1>6, <1>12, <1>13 DEF l, Changed

LEMMA InitIsPage ==
  /\ InitPage \in PageSet /\ InitPage.slots = <<>> /\ InitPage.lsn = 0
  /\ ZeroPage \in PageSet /\ ZeroPage.slots = <<>> /\ ZeroPage.lsn = 0
<1>1. /\ InitPage.slots = <<>> /\ InitPage.lsn = 0 /\ InitPage.type = "DATA"
      /\ InitPage = [type |-> "DATA", lsn |-> 0, slots |-> <<>>]
  BY DEF InitPage
<1>2. /\ ZeroPage.slots = <<>> /\ ZeroPage.lsn = 0 /\ ZeroPage.type = "META"
      /\ ZeroPage = [type |-> "META", lsn |-> 0, slots |-> <<>>]
  BY DEF ZeroPage
<1>3. 0 \in 0 .. SlotsPerPage /\ <<>> \in [1 .. 0 -> SlotSet]
  BY Bounds
<1>4. InitPage \in PageSet
  BY <1>1, <1>3, PageParts
<1>5. ZeroPage \in PageSet
  BY <1>2, <1>3, PageParts
<1> QED BY <1>1, <1>2, <1>4, <1>5

\* store_value: the page and the slot it takes, and the pool after it.
LEMMA StoreValueFacts ==
  ASSUME NEW st, IsProcess(st), st.pages \in Seq(PageSet), st.data_page \in Nat \ {0},
         NEW rec, NEW fits, NEW sv, sv = StoreValue(st, rec, fits)
  PROVE  LET d == sv.rid[1]
             s == sv.rid[2]
             ps == IF d = Len(st.pages) + 1 THEN Append(st.pages, InitPage) ELSE st.pages
         IN  /\ sv.rid = <<d, s>> /\ d \in 1 .. Len(ps) /\ s \in 1 .. SlotsPerPage
             /\ ReadRecord(ps[d], s) = <<>>
             /\ sv.st = [pages |-> [ps EXCEPT ![d] = SetSlot(ps[d], s, rec)], data_page |-> d,
                         index |-> st.index, log |-> st.log, last |-> st.last]
<1> DEFINE room == HasRoom(st, fits)
           pages == IF room THEN st.pages ELSE Append(st.pages, InitPage)
           d == IF room THEN st.data_page ELSE Len(pages)
           s == NextSlot(pages[d])
           now == [st EXCEPT !.pages = [pages EXCEPT ![d] = SetSlot(@, s, rec)], !.data_page = d]
<1>0. Len(st.pages) \in Nat /\ st.data_page # 0
  OBVIOUS
<1>1. sv = [rid |-> <<d, s>>, st |-> now]
  BY <1>0 DEF StoreValue
<1>2. InitPage \in PageSet /\ InitPage.slots = <<>>
  BY InitIsPage
<1>3. /\ pages \in Seq(PageSet) /\ d \in 1 .. Len(pages)
      /\ pages = IF d = Len(st.pages) + 1 THEN Append(st.pages, InitPage) ELSE st.pages
      /\ pages[d] \in PageSet
      /\ pages[d].slots = <<>> \/ Tombstones(pages[d]) # {} \/ Len(pages[d].slots) < SlotsPerPage
  <2>1. CASE room
    <3>1. d \in 1 .. Len(st.pages) /\ pages = st.pages /\ d = st.data_page
      BY <2>1, <1>0 DEF HasRoom
    <3>2. d # Len(st.pages) + 1 /\ pages[d] \in PageSet
      BY <3>1, <1>0
    <3>3. pages[d].slots = <<>> \/ Tombstones(pages[d]) # {} \/ Len(pages[d].slots) < SlotsPerPage
      BY <2>1, <3>1 DEF HasRoom
    <3> HIDE DEF pages, d, room
    <3> QED BY <3>1, <3>2, <3>3
  <2>2. CASE ~room
    <3>1. pages = Append(st.pages, InitPage) /\ d = Len(pages)
      BY <2>2
    <3> HIDE DEF pages, d, room
    <3>2. pages \in Seq(PageSet) /\ Len(pages) = Len(st.pages) + 1 /\ pages[Len(pages)] = InitPage
      BY <3>1, <1>0, <1>2
    <3> QED BY <3>1, <3>2, <1>0, <1>2
  <2> QED BY <2>1, <2>2
<1> HIDE DEF pages, d, room
<1>4. s \in 1 .. SlotsPerPage /\ ReadRecord(pages[d], s) = <<>>
  BY <1>3, NextSlotFacts
<1> HIDE DEF s
<1>5. now = [pages |-> [pages EXCEPT ![d] = SetSlot(pages[d], s, rec)], data_page |-> d,
             index |-> st.index, log |-> st.log, last |-> st.last]
  <2> DEFINE P == [pages EXCEPT ![d] = SetSlot(pages[d], s, rec)]
  <2>1. now = [st EXCEPT !.pages = P, !.data_page = d]
    OBVIOUS
  <2> HIDE DEF P, now
  <2>2. now = [pages |-> P, data_page |-> d, index |-> st.index, log |-> st.log, last |-> st.last]
    BY <2>1 DEF IsProcess
  <2> QED BY <2>2 DEF P
<1> HIDE DEF now
<1>6. sv.rid = <<d, s>> /\ sv.st = now /\ sv.rid[1] = d /\ sv.rid[2] = s
  BY <1>1
<1> QED BY <1>3, <1>4, <1>5, <1>6

LEMMA StampPages ==
  ASSUME NEW ps \in Seq(PageSet), NEW d \in 1 .. Len(ps), NEW x \in PageSet, NEW n,
         NEW qs, qs = [ps EXCEPT ![d] = x]
  PROVE  [qs EXCEPT ![d].lsn = n] = [ps EXCEPT ![d] = [x EXCEPT !.lsn = n]]
<1>1. qs[d] = x /\ DOMAIN qs = DOMAIN ps /\ d \in DOMAIN ps
  OBVIOUS
<1>2. [qs EXCEPT ![d].lsn = n] = [qs EXCEPT ![d] = [x EXCEPT !.lsn = n]]
  BY <1>1
<1> DEFINE y == [x EXCEPT !.lsn = n]
<1> HIDE DEF y
<1>3. [qs EXCEPT ![d] = y] = [ps EXCEPT ![d] = y]
  BY <1>1
<1> QED BY <1>2, <1>3 DEF y

\* The UPDATE of a change is logged, and the page p is stamped.
LEMMA LoggedStamped ==
  ASSUME NEW ps, NEW d, NEW ix, NEW l, NEW m, NEW st, Process(st, ps, d, ix, l, m),
         NEW rid, NEW old, NEW new, NEW key, NEW p, p # 0,
         NEW tt, tt = Stamp(LogUpdate(st, rid, old, new, key), p)
  PROVE  Process(tt, [ps EXCEPT ![p].lsn = Len(l) + 1], d, ix,
                 Append(l, Update(rid, old, new, key, m)), Len(l) + 1)
<1> DEFINE a == Append(l, Update(rid, old, new, key, m))
           b == Len(l) + 1
           logged == LogUpdate(st, rid, old, new, key)
<1>1. logged = [st EXCEPT !.log = a, !.last = b]
  <2>1. st.log = l /\ st.last = m
    BY ProcessParts
  <2> QED BY ONLY <2>1 DEF LogUpdate
<1>6. tt = Stamp(logged, p)
  OBVIOUS
<1> HIDE DEF a, b, logged
<1>2. Process(logged, ps, d, ix, a, b)
  BY <1>1, ProcessLog
<1>3. logged.last = b /\ logged.pages = ps
  BY <1>2, ProcessParts
<1> DEFINE qs == [ps EXCEPT ![p].lsn = b]
<1>4. Stamp(logged, p) = [logged EXCEPT !.pages = qs]
  BY ONLY <1>3, p # 0 DEF Stamp
<1> HIDE DEF qs
<1>5. Process([logged EXCEPT !.pages = qs], qs, d, ix, a, b)
  BY <1>2, ProcessPages
<1>7. Process(tt, qs, d, ix, a, b)
  BY <1>4, <1>5, <1>6
<1> QED BY <1>7 DEF a, b, qs

\* The pool with the record rec of the log stored in the slot s of the page d.
Stored(ps, d, s, rec, n) == [ps EXCEPT ![d] = [SetSlot(ps[d], s, rec) EXCEPT !.lsn = n]]

\* The record of put in the slot s of the page d.
PutInto(tt, st, k, v, ps, d, s) ==
  Process(tt, Stored(ps, d, s, <<k, v>>, Len(st.log) + 1), d, IndexInsert(st.index, k, <<d, s>>),
          Append(st.log, Update(<<d, s>>, <<>>, <<k, v>>, k, st.last)), Len(st.log) + 1)

\* The pool that store_value finds room in.
Room(ps, st, d, s) ==
  /\ ps = IF d = Len(st.pages) + 1 THEN Append(st.pages, InitPage) ELSE st.pages
  /\ d \in 1 .. Len(ps) /\ s \in 1 .. SlotsPerPage
  /\ ReadRecord(ps[d], s) = <<>>
  /\ ps \in Seq(PageSet)

LEMMA PutRecordIs ==
  ASSUME NEW st, IsProcess(st), st.pages \in Seq(PageSet), st.data_page \in Nat \ {0},
         NEW k \in Keys, NEW v \in Vals, NEW fits, k \notin DOMAIN st.index,
         NEW tt, tt = PutRecord(st, k, v, fits)
  PROVE  \E d, s, ps : Room(ps, st, d, s) /\ PutInto(tt, st, k, v, ps, d, s)
<1> DEFINE rec == <<k, v>>
           sv == StoreValue(st, rec, fits)
           d == sv.rid[1]
           s == sv.rid[2]
           ps == IF d = Len(st.pages) + 1 THEN Append(st.pages, InitPage) ELSE st.pages
<1>1. rec \in RecordSet /\ rec \in SlotSet
  BY DEF RecordSet, SlotSet
<1>2. tt = Stamp(LogUpdate([sv.st EXCEPT !.index = IndexInsert(@, k, sv.rid)], sv.rid, <<>>,
                           rec, k), d)
  BY DEF PutRecord
<1>3. sv = StoreValue(st, rec, fits)
  OBVIOUS
<1> HIDE DEF rec, sv
<1>4. /\ sv.rid = <<d, s>> /\ d \in 1 .. Len(ps) /\ s \in 1 .. SlotsPerPage
      /\ ReadRecord(ps[d], s) = <<>>
      /\ sv.st = [pages |-> [ps EXCEPT ![d] = SetSlot(ps[d], s, rec)], data_page |-> d,
                  index |-> st.index, log |-> st.log, last |-> st.last]
  BY <1>3, StoreValueFacts
<1>5. ps \in Seq(PageSet)
  <2>1. InitPage \in PageSet
    BY InitIsPage
  <2> QED BY <2>1
<1>6. Room(ps, st, d, s)
  BY <1>4, <1>5 DEF Room
<1> HIDE DEF d, s, ps
<1> DEFINE x == SetSlot(ps[d], s, rec)
           qs == [ps EXCEPT ![d] = x]
           ix == IndexInsert(st.index, k, <<d, s>>)
           indexed == [sv.st EXCEPT !.index = IndexInsert(@, k, sv.rid)]
<1>7. x \in PageSet
  <2>1. ps[d] \in PageSet
    BY <1>4, <1>5
  <2> QED BY <2>1, <1>1, <1>4, SetSlotFacts
<1>8. Process(indexed, qs, d, ix, st.log, st.last)
  <2>1. Process(sv.st, qs, d, st.index, st.log, st.last)
    BY <1>4 DEF Process
  <2>2. IndexInsert(sv.st.index, k, sv.rid) = ix
    <3> HIDE DEF x, qs
    <3> QED BY <2>1, <1>4, ProcessParts
  <2>3. indexed = [sv.st EXCEPT !.index = ix]
    BY <2>2
  <2> HIDE DEF ix, indexed, qs
  <2> QED BY <2>1, <2>3, ProcessIndex
<1>9. tt = Stamp(LogUpdate(indexed, <<d, s>>, <<>>, rec, k), d)
  BY <1>2, <1>4
<1>10. d # 0
  <2>1. Len(ps) \in Nat
    BY <1>5
  <2> QED BY <2>1, <1>4
<1> HIDE DEF x, indexed, ix
<1>11. Process(tt, [qs EXCEPT ![d].lsn = Len(st.log) + 1], d, ix,
               Append(st.log, Update(<<d, s>>, <<>>, rec, k, st.last)), Len(st.log) + 1)
  <2> HIDE DEF qs
  <2> QED BY <1>8, <1>9, <1>10, LoggedStamped
<1>12. [qs EXCEPT ![d].lsn = Len(st.log) + 1] = Stored(ps, d, s, rec, Len(st.log) + 1)
  BY <1>4, <1>5, <1>7, StampPages DEF Stored, x
<1>13. PutInto(tt, st, k, v, ps, d, s)
  BY <1>11, <1>12 DEF PutInto, ix, rec
<1> QED BY <1>6, <1>13

LEMMA UpdateRecordType ==
  ASSUME NEW r \in Rids, NEW old \in Cells, NEW new \in Cells, NEW key \in Keys \cup {<<>>},
         NEW prev \in Nat, NEW rec, rec = Update(r, old, new, key, prev)
  PROVE  /\ rec \in LogRecords /\ IsData(rec) /\ rec.type = "UPDATE" /\ rec.rid = r
         /\ rec.old = old /\ rec.new = new /\ rec.key = key /\ rec.prev = prev
BY DEF Update, LogRecords, IsData

LEMMA StoredIsChange ==
  ASSUME NEW ps \in Seq(PageSet), NEW r \in Rids, r[1] \in 1 .. Len(ps), NEW rec, rec.rid = r,
         NEW x \in RecordSet, rec.new = x, NEW k, Len(k) \in Nat,
         NEW qs, qs = Stored(ps, r[1], r[2], x, Len(k))
  PROVE  PageChange(qs, ps, k, rec)
<1> DEFINE p == ps[r[1]]
           q == [SetSlot(p, r[2], x) EXCEPT !.lsn = Len(k)]
<1>1. x \in Cells /\ x # <<>>
  BY SlotKinds
<1>2. p \in PageSet /\ r[2] \in 1 .. SlotsPerPage
  BY RidParts
<1>3. q = [(IF x = <<>> THEN DeleteRecord(p, r[2]) ELSE SetSlot(p, r[2], x)) EXCEPT !.lsn = Len(k)]
  BY <1>1
<1>4. qs = [ps EXCEPT ![r[1]] = q]
  BY DEF Stored
<1> HIDE DEF p, q
<1>5. Written(q, p, r[2], x, Len(k))
  BY <1>1, <1>2, <1>3, CellWritten
<1> QED BY <1>4, <1>5 DEF PageChange, p

LEMMA PutGrows ==
  ASSUME NEW st, IsProcess(st), st.pages \in Seq(PageSet), st.data_page \in Nat \ {0},
         NEW k \in Keys, NEW v \in Vals, NEW fits, k \notin DOMAIN st.index,
         NEW tt, tt = PutRecord(st, k, v, fits)
  PROVE  /\ IsProcess(tt) /\ tt.data_page \in Nat \ {0}
         /\ Len(st.log) \in Nat => tt.pages \in Seq(PageSet)
         /\ DOMAIN tt.index = DOMAIN st.index \cup {k}
         /\ Len(st.pages) <= Len(tt.pages)
<1>1. PICK d, s, ps : Room(ps, st, d, s) /\ PutInto(tt, st, k, v, ps, d, s)
  BY PutRecordIs
<1> DEFINE x == SetSlot(ps[d], s, <<k, v>>)
           y == [x EXCEPT !.lsn = Len(st.log) + 1]
           n == Len(st.log) + 1
           ix == IndexInsert(st.index, k, <<d, s>>)
<1>2. /\ IsProcess(tt) /\ tt.data_page = d /\ tt.index = ix
      /\ tt.pages = Stored(ps, d, s, <<k, v>>, n)
  BY <1>1, ProcessParts DEF PutInto
<1>3. DOMAIN ix = DOMAIN st.index \cup {k}
  BY DEF IndexInsert
<1>4. ps \in Seq(PageSet) /\ d \in 1 .. Len(ps) /\ Len(st.pages) <= Len(ps)
  <2>1. Len(st.pages) \in Nat
    OBVIOUS
  <2>2. ps = Append(st.pages, InitPage) \/ ps = st.pages
    BY <1>1 DEF Room
  <2> QED BY <1>1, <2>1, <2>2 DEF Room
<1>5. Len(st.log) \in Nat => y \in PageSet
  <2>1. ps[d] \in PageSet /\ <<k, v>> \in SlotSet /\ s \in 1 .. SlotsPerPage
    BY <1>1, <1>4 DEF Room, SlotSet, RecordSet
  <2>2. x \in PageSet
    BY <2>1, SetSlotFacts
  <2>3. y = [x EXCEPT !.lsn = n] /\ (Len(st.log) \in Nat => n \in Nat)
    OBVIOUS
  <2> HIDE DEF x, y, n
  <2> QED BY <2>2, <2>3, StampFacts
<1>6. tt.pages = [ps EXCEPT ![d] = y]
  BY <1>2 DEF Stored
<1> HIDE DEF x, y, ix
<1>7. Len(tt.pages) = Len(ps)
  <2>1. ps \in Seq(PageSet \cup {y})
    BY <1>4
  <2> QED BY <2>1, <1>4, <1>6
<1>8. Len(st.log) \in Nat => tt.pages \in Seq(PageSet)
  BY <1>4, <1>5, <1>6
<1>9. d \in Nat \ {0}
  BY <1>4
<1> QED BY <1>2, <1>3, <1>4, <1>7, <1>8, <1>9

-----------------------------------------------------------------------------
(* put, del and update.                                                    *)

LEMMA OpenFacts ==
  ASSUME NEW st, OpenOK(st)
  PROVE  /\ IsProcess(st) /\ LogOK(st.log) /\ st.log \in Seq(LogRecords) /\ Len(st.log) \in Nat
         /\ st.pages \in Seq(PageSet) /\ Len(st.pages) \in Nat /\ Len(st.pages) <= MaxPages
         /\ PagesShow(st.pages, st.log, Len(st.log)) /\ Latest(st.pages, st.log)
         /\ IndexOK(st.index, st.log)
         /\ st.last = Len(st.log) /\ st.last # 0 /\ st.last \in Nat
         /\ st.data_page \in 0 .. IndexLeaf /\ IndexLeaf \in Nat
<1>1. IndexLeaf \in Nat
  BY Bounds DEF IndexLeaf
<1>2. st.log \in Seq(LogRecords) /\ st.pages \in Seq(PageSet) /\ Len(st.pages) <= MaxPages
  BY DEF OpenOK, StoreOK, LogOK, PagesShow
<1>3. Len(st.log) \in Nat /\ Len(st.pages) \in Nat
  BY <1>2
<1> QED BY <1>1, <1>2, <1>3 DEF OpenOK, StoreOK, DataPageOK

\* The pool in which store_value finds room shows the log, and the slot is free.
LEMMA RoomOK ==
  ASSUME NEW st, OpenOK(st), NEW ps, NEW d, NEW s, Room(ps, st, d, s), Len(ps) <= MaxPages
  PROVE  /\ PagesShow(ps, st.log, Len(st.log)) /\ Latest(ps, st.log)
         /\ <<d, s>> \in Rids /\ <<d, s>>[1] = d /\ <<d, s>>[2] = s
         /\ Heap(st.log, Len(st.log), <<d, s>>) = <<>>
         /\ Len(st.pages) <= Len(ps)
<1>1. /\ LogOK(st.log) /\ PagesShow(st.pages, st.log, Len(st.log)) /\ Latest(st.pages, st.log)
      /\ Len(st.pages) \in Nat /\ st.pages \in Seq(PageSet)
  BY OpenFacts
<1>2. d \in 1 .. Len(ps) /\ s \in 1 .. SlotsPerPage /\ ReadRecord(ps[d], s) = <<>>
      /\ ps \in Seq(PageSet) /\ Len(ps) \in Nat
  BY DEF Room
<1>3. PagesShow(ps, st.log, Len(st.log)) /\ Latest(ps, st.log) /\ Len(st.pages) <= Len(ps)
  <2>1. CASE d = Len(st.pages) + 1
    <3>1. ps = Append(st.pages, InitPage)
      BY <2>1 DEF Room
    <3>2. Len(st.pages) < MaxPages
      BY <3>1, <1>1, Bounds
    <3> DEFINE l == st.log
               os == st.pages
    <3>3. LogOK(l) /\ PagesShow(os, l, Len(l)) /\ Latest(os, l) /\ Len(os) < MaxPages
          /\ ps = Append(os, InitPage) /\ Len(os) \in Nat
      BY <3>1, <3>2, <1>1
    <3> HIDE DEF l, os
    <3>4. PagesShow(ps, l, Len(l)) /\ Latest(ps, l) /\ Len(ps) = Len(os) + 1
      BY ONLY <3>3, PagesFresh
    <3>5. Len(os) <= Len(ps)
      BY <3>3, <3>4
    <3> QED BY <3>4, <3>5 DEF l, os
  <2>2. CASE d # Len(st.pages) + 1
    <3>1. ps = st.pages
      BY <2>2 DEF Room
    <3> QED BY <3>1, <1>1
  <2> QED BY <2>1, <2>2
<1>4. <<d, s>> \in Rids /\ <<d, s>>[1] = d /\ <<d, s>>[2] = s
  BY <1>2, RidMade, Bounds
<1>5. Heap(st.log, Len(st.log), <<d, s>>) = <<>>
  BY <1>1, <1>2, <1>3, PoolIsHeap
<1> QED BY <1>3, <1>4, <1>5

LEMMA PutOK ==
  ASSUME NEW st, OpenOK(st), st.data_page # 0,
         NEW k \in Keys, NEW v \in Vals, NEW fits, k \notin DOMAIN st.index,
         NEW tt, tt = PutRecord(st, k, v, fits), Len(tt.pages) <= MaxPages
  PROVE  /\ Changed(tt, st)
         /\ HeapSet(tt.log, Len(tt.log)) = HeapSet(st.log, Len(st.log)) \cup {<<k, v>>}
         /\ tt.data_page # 0
         /\ Len(st.pages) <= Len(tt.pages)
         /\ DOMAIN tt.index = DOMAIN st.index \cup {k}
<1>0. /\ IsProcess(st) /\ LogOK(st.log) /\ Len(st.log) \in Nat /\ st.log \in Seq(LogRecords)
      /\ st.pages \in Seq(PageSet) /\ st.data_page \in Nat \ {0} /\ IndexOK(st.index, st.log)
      /\ st.last = Len(st.log) /\ st.last \in Nat
  BY OpenFacts
<1>1. PICK d, s, ps : Room(ps, st, d, s) /\ PutInto(tt, st, k, v, ps, d, s)
  BY <1>0, PutRecordIs
<1>2. /\ DOMAIN tt.index = DOMAIN st.index \cup {k}
      /\ tt.data_page \in Nat \ {0} /\ Len(st.pages) <= Len(tt.pages)
  BY <1>0, PutGrows
<1> DEFINE l == st.log
           r == <<d, s>>
           x == <<k, v>>
           rec == Update(r, <<>>, x, k, st.last)
           kk == Append(l, rec)
           qs == Stored(ps, d, s, x, Len(kk))
           ix == IndexInsert(st.index, k, r)
<1>3. ps \in Seq(PageSet) /\ d \in 1 .. Len(ps) /\ Len(ps) \in Nat
  BY <1>1 DEF Room
<1>4. Len(kk) = Len(l) + 1
  BY <1>0, AppendLen
<1>5. Process(tt, qs, d, ix, kk, Len(l) + 1)
  BY <1>1, <1>4 DEF PutInto
<1>6. tt.log = kk /\ tt.data_page = d /\ tt.index = ix /\ tt.pages = qs
  <2> HIDE DEF kk, qs, ix
  <2> QED BY <1>5, ProcessParts
<1>7. Len(qs) = Len(ps)
  <2> DEFINE y == [SetSlot(ps[d], s, x) EXCEPT !.lsn = Len(kk)]
  <2>1. qs = [ps EXCEPT ![d] = y]
    BY DEF Stored
  <2> HIDE DEF y, qs
  <2>2. ps \in Seq(PageSet \cup {y})
    BY <1>3
  <2> QED BY <2>1, <2>2, <1>3
<1>8. /\ PagesShow(ps, l, Len(l)) /\ Latest(ps, l)
      /\ r \in Rids /\ r[1] = d /\ r[2] = s /\ Heap(l, Len(l), r) = <<>>
  <2>1. Len(ps) <= MaxPages
    BY <1>6, <1>7
  <2> QED BY <2>1, <1>1, RoomOK
<1>9. x \in RecordSet /\ x \in Cells /\ <<>> \in Cells /\ x[1] = k
  BY SlotKinds DEF RecordSet, Cells
<1> HIDE DEF l, r, x
<1>10. /\ rec \in LogRecords /\ IsData(rec) /\ rec.type = "UPDATE" /\ rec.rid = r
       /\ rec.old = <<>> /\ rec.new = x /\ rec.key = k /\ rec.prev = st.last
  BY <1>0, <1>8, <1>9, UpdateRecordType
<1>11. Grown(l, kk, rec)
  BY DEF Grown
<1>12. qs = Stored(ps, r[1], r[2], x, Len(kk))
  BY <1>8
<1> HIDE DEF rec, kk, qs, ix
<1>13. PageChange(qs, ps, kk, rec)
  <2>1. Len(kk) \in Nat
    BY <1>0, <1>4 DEF l
  <2> QED BY <2>1, <1>3, <1>8, <1>9, <1>10, <1>12, StoredIsChange
<1>14. IndexOK(ix, kk)
  <2>1. LogOK(l) /\ IndexOK(st.index, l)
    BY <1>0 DEF l
  <2>2. ix = IndexInsert(st.index, k, r)
    BY DEF ix
  <2> QED BY <2>1, <2>2, <1>8, <1>9, <1>10, <1>11, IndexWithInsert
<1>15. \A q \in Rids : Heap(l, Len(l), q) # <<>> => Heap(l, Len(l), q)[1] # k
  BY <1>0 DEF IndexOK, l
<1>16. d \in 1 .. IndexLeaf
  <2>1. r[1] \in 1 .. MaxPages
    BY <1>8, RidParts
  <2> QED BY <2>1, <1>8, Bounds DEF IndexLeaf
<1>17. Changed(tt, st)
  <2>1. /\ PagesShow(ps, st.log, Len(st.log)) /\ Latest(ps, st.log)
        /\ rec.old = Heap(st.log, Len(st.log), r) /\ Grown(st.log, kk, rec)
        /\ Process(tt, qs, d, ix, kk, Len(st.log) + 1)
    BY <1>5, <1>8, <1>10, <1>11 DEF l
  <2>2. /\ rec.old = <<>> /\ rec.new \in RecordSet /\ rec.key = rec.new[1]
        /\ \A q \in Rids : Heap(st.log, Len(st.log), q) # <<>> =>
                             Heap(st.log, Len(st.log), q)[1] # rec.key
    BY <1>9, <1>10, <1>15 DEF l
  <2> QED BY <2>1, <2>2, <1>8, <1>10, <1>13, <1>14, <1>16, ChangeOK
<1>18. HeapSet(kk, Len(kk)) = HeapSet(l, Len(l)) \cup {x}
  <2>1. LogOK(l) /\ x # <<>>
    BY <1>0, <1>9, SlotKinds DEF l
  <2> QED BY <2>1, <1>8, <1>10, <1>11, SetInsert
<1> QED BY <1>2, <1>6, <1>17, <1>18 DEF l, x

\* The record of a key that the index has.
LEMMA KeyPlace ==
  ASSUME NEW st, StoreOK(st), IndexOK(st.index, st.log), NEW k \in DOMAIN st.index,
         NEW r, r = st.index[k]
  PROVE  /\ r \in Rids /\ r[1] \in 1 .. Len(st.pages) /\ r[2] \in 1 .. SlotsPerPage /\ r[1] # 0
         /\ ReadRecord(st.pages[r[1]], r[2]) = Heap(st.log, Len(st.log), r)
         /\ Heap(st.log, Len(st.log), r) \in RecordSet
         /\ Heap(st.log, Len(st.log), r)[1] = k
         /\ k \in Keys
<1> DEFINE l == st.log
<1>0. /\ LogOK(l) /\ Len(l) \in Nat /\ l \in Seq(LogRecords) /\ IndexOK(st.index, l)
      /\ PagesShow(st.pages, l, Len(l)) /\ Latest(st.pages, l) /\ Len(st.pages) \in Nat
  BY DEF StoreOK, LogOK, PagesShow
<1>1. r \in Rids /\ Heap(l, Len(l), r) # <<>> /\ Heap(l, Len(l), r)[1] = k
  BY <1>0 DEF IndexOK
<1>2. Heap(l, Len(l), r) \in RecordSet
  <2>1. Heap(l, Len(l), r) \in Cells
    BY <1>0, HeapType
  <2> QED BY <2>1, <1>1 DEF Cells
<1>3. k \in Keys
  BY <1>1, <1>2, SlotKinds
<1>4. r[1] \in 1 .. Len(st.pages)
  <2>1. Len(l) \in 0 .. Len(l)
    BY <1>0
  <2> QED BY <2>1, <1>0, <1>1, NoPageNoRecord
<1>5. r[2] \in 1 .. SlotsPerPage /\ r = <<r[1], r[2]>> /\ r[1] # 0
  BY <1>1, RidParts
<1>6. ReadRecord(st.pages[r[1]], r[2]) = Heap(l, Len(l), <<r[1], r[2]>>)
  BY <1>0, <1>4, <1>5, PoolIsHeap
<1> QED BY <1>1, <1>2, <1>3, <1>4, <1>5, <1>6

LEMMA KeyFacts ==
  ASSUME NEW st, OpenOK(st), NEW k \in DOMAIN st.index, NEW r, r = st.index[k]
  PROVE  /\ r \in Rids /\ r[1] \in 1 .. Len(st.pages) /\ r[2] \in 1 .. SlotsPerPage /\ r[1] # 0
         /\ ReadRecord(st.pages[r[1]], r[2]) = Heap(st.log, Len(st.log), r)
         /\ Heap(st.log, Len(st.log), r) \in RecordSet
         /\ Heap(st.log, Len(st.log), r)[1] = k
         /\ k \in Keys
         /\ st.data_page \in 1 .. IndexLeaf
<1> DEFINE l == st.log
<1>0. /\ LogOK(l) /\ Len(l) \in Nat /\ IndexOK(st.index, l) /\ StoreOK(st)
      /\ st.data_page \in 0 .. IndexLeaf /\ IndexLeaf \in Nat
  BY OpenFacts DEF OpenOK
<1>1. /\ r \in Rids /\ r[1] \in 1 .. Len(st.pages) /\ r[2] \in 1 .. SlotsPerPage /\ r[1] # 0
      /\ ReadRecord(st.pages[r[1]], r[2]) = Heap(l, Len(l), r)
      /\ Heap(l, Len(l), r) \in RecordSet
      /\ Heap(l, Len(l), r)[1] = k
      /\ k \in Keys
  BY <1>0, KeyPlace
<1>2. Heap(l, Len(l), r) # <<>>
  BY <1>1, SlotKinds
<1>7. st.data_page # 0
  <2>1. SUFFICES ASSUME st.data_page = 0 PROVE FALSE
    OBVIOUS
  <2>2. \A i \in 1 .. Len(l) : ~IsData(l[i])
    BY <2>1 DEF OpenOK, DataPageOK
  <2>3. \A i \in 0 + 1 .. Len(l) : ~Writes(l, i, r)
    BY <2>2 DEF Writes
  <2>4. Heap(l, Len(l), r) = Heap(l, 0, r)
    BY <2>3, <1>0, HeapKeeps
  <2> QED BY <2>4, <1>2, HeapZero
<1>8. st.data_page \in 1 .. IndexLeaf
  BY <1>0, <1>7
<1> QED BY <1>1, <1>8

LEMMA DelOK ==
  ASSUME NEW st, OpenOK(st), NEW k \in DOMAIN st.index, NEW tt, tt = DelRecord(st, k)
  PROVE  /\ Changed(tt, st)
         /\ HeapSet(tt.log, Len(tt.log)) = Without(HeapSet(st.log, Len(st.log)), k)
         /\ tt.data_page # 0
         /\ Len(tt.pages) = Len(st.pages)
<1> DEFINE l == st.log
           r == st.index[k]
           p == st.pages[r[1]]
           old == ReadRecord(p, r[2])
           rec == Update(r, old, <<>>, k, st.last)
           kk == Append(l, rec)
           x == DeleteRecord(p, r[2])
           y == [x EXCEPT !.lsn = Len(kk)]
           ps == [st.pages EXCEPT ![r[1]] = x]
           qs == [st.pages EXCEPT ![r[1]] = y]
           ix == IndexRemove(st.index, k)
           mid == [st EXCEPT !.pages = ps]
           deleted == [mid EXCEPT !.index = ix]
<1>0. /\ IsProcess(st) /\ LogOK(l) /\ Len(l) \in Nat /\ l \in Seq(LogRecords)
      /\ st.pages \in Seq(PageSet) /\ IndexOK(st.index, l) /\ st.last \in Nat /\ st.last = Len(l)
      /\ PagesShow(st.pages, l, Len(l)) /\ Latest(st.pages, l) /\ Len(st.pages) \in Nat
  BY OpenFacts
<1>1. /\ r \in Rids /\ r[1] \in 1 .. Len(st.pages) /\ r[2] \in 1 .. SlotsPerPage /\ r[1] # 0
      /\ old = Heap(l, Len(l), r) /\ old \in RecordSet /\ old[1] = k /\ k \in Keys
      /\ st.data_page \in 1 .. IndexLeaf
  BY KeyFacts
<1>2. tt = Stamp(LogUpdate(deleted, r, old, <<>>, k), r[1])
  BY DEF DelRecord
<1>3. p \in PageSet
  BY <1>0, <1>1
<1>4. x \in PageSet
  BY <1>1, <1>3, DeleteFacts
<1>5. old \in Cells /\ <<>> \in Cells
  BY <1>1, SlotKinds DEF Cells
<1>6. Process(deleted, ps, st.data_page, ix, l, st.last)
  <2>1. Process(st, st.pages, st.data_page, st.index, st.log, st.last)
    BY <1>0 DEF Process, IsProcess
  <2> HIDE DEF ps, ix
  <2>2. Process(mid, ps, st.data_page, st.index, st.log, st.last)
    BY <2>1, ProcessPages
  <2> HIDE DEF mid
  <2> QED BY <2>2, ProcessIndex
<1>7. Len(kk) = Len(l) + 1
  BY <1>0, AppendLen
<1>8. [ps EXCEPT ![r[1]].lsn = Len(l) + 1] = qs
  <2> HIDE DEF kk, x, r
  <2> QED BY <1>0, <1>1, <1>4, <1>7, StampPages
<1>9. Process(tt, [ps EXCEPT ![r[1]].lsn = Len(l) + 1], st.data_page, ix, kk, Len(l) + 1)
  <2> HIDE DEF deleted, ps, ix, old, r, l
  <2> QED BY <1>1, <1>2, <1>6, LoggedStamped
<1>10. Process(tt, qs, st.data_page, ix, kk, Len(l) + 1)
  BY <1>8, <1>9
<1>11. tt.log = kk /\ tt.data_page = st.data_page /\ tt.pages = qs
  <2> HIDE DEF kk, qs, ix
  <2> QED BY <1>10, ProcessParts
<1> HIDE DEF l, r, old
<1>12. /\ rec \in LogRecords /\ IsData(rec) /\ rec.type = "UPDATE" /\ rec.rid = r
       /\ rec.old = old /\ rec.new = <<>> /\ rec.key = k /\ rec.prev = st.last
  BY <1>0, <1>1, <1>5, UpdateRecordType
<1>13. Grown(l, kk, rec)
  BY DEF Grown
<1> HIDE DEF rec, kk
<1>14. PageChange(qs, st.pages, kk, rec)
  <2>1. Len(kk) \in Nat
    BY <1>0, <1>7
  <2>2. y = [(IF <<>> = <<>> THEN DeleteRecord(p, r[2]) ELSE SetSlot(p, r[2], <<>>))
               EXCEPT !.lsn = Len(kk)]
    OBVIOUS
  <2> HIDE DEF y, x, p
  <2>3. Written(y, p, r[2], <<>>, Len(kk))
    BY <2>1, <2>2, <1>1, <1>3, <1>5, CellWritten
  <2> QED BY <2>3, <1>1, <1>12 DEF PageChange, p
<1>15. Len(qs) = Len(st.pages)
  <2> HIDE DEF y
  <2>1. st.pages \in Seq(PageSet \cup {y})
    BY <1>0
  <2> QED BY <2>1, <1>1
<1> HIDE DEF qs, ix
<1>16. old # <<>>
  BY <1>1, SlotKinds
<1>17. IndexOK(ix, kk)
  <2>1. ix = IndexRemove(st.index, k)
    BY DEF ix
  <2>2. Heap(l, Len(l), r) # <<>> /\ k = Heap(l, Len(l), r)[1]
    BY <1>1, <1>16
  <2> QED BY <2>1, <2>2, <1>0, <1>1, <1>12, <1>13, IndexWithRemove
<1>18. Changed(tt, st)
  <2>1. /\ PagesShow(st.pages, st.log, Len(st.log)) /\ Latest(st.pages, st.log)
        /\ rec.old = Heap(st.log, Len(st.log), r) /\ Grown(st.log, kk, rec)
        /\ Process(tt, qs, st.data_page, ix, kk, Len(st.log) + 1)
    BY <1>0, <1>1, <1>10, <1>12, <1>13 DEF l
  <2>2. rec.old \in RecordSet /\ rec.new = <<>> /\ rec.key = rec.old[1]
    BY <1>1, <1>12
  <2> QED BY <2>1, <2>2, <1>1, <1>12, <1>14, <1>17, ChangeOK
<1>19. HeapSet(kk, Len(kk)) = Without(HeapSet(l, Len(l)), k) \cup {}
  <2>1. Heap(l, Len(l), r) # <<>> /\ k = Heap(l, Len(l), r)[1]
    BY <1>1, <1>16
  <2>2. HeapSet(kk, Len(kk)) =
          Without(HeapSet(l, Len(l)), k) \cup (IF rec.new = <<>> THEN {} ELSE {rec.new})
    <3>1. /\ LogOK(l) /\ rec \in LogRecords /\ IsData(rec) /\ Grown(l, kk, rec)
          /\ r \in Rids /\ r = rec.rid /\ (rec.new # <<>> => rec.new[1] = k)
      BY <1>0, <1>1, <1>12, <1>13
    <3> QED BY ONLY <2>1, <3>1, SetOthers
  <2> QED BY <2>2, <1>12
<1> QED BY <1>1, <1>11, <1>15, <1>18, <1>19 DEF l

\* What update leaves, before the index is known to be as it was.
LEMMA UpdateRecordIs ==
  ASSUME NEW st, IsProcess(st), st.pages \in Seq(PageSet), st.data_page \in Nat \ {0},
         NEW r \in Rids, r[1] \in 1 .. Len(st.pages),
         NEW k \in DOMAIN st.index, r = st.index[k], NEW v, <<k, v>> \in RecordSet, NEW fits,
         NEW p, p = DeleteRecord(st.pages[r[1]], r[2]),
         NEW old, old = ReadRecord(st.pages[r[1]], r[2]),
         NEW tt, tt = UpdateRecord(st, k, v, fits), tt.index[k] = r
  PROVE  Process(tt, [st.pages EXCEPT
                        ![r[1]] = [SetSlot(p, r[2], <<k, v>>) EXCEPT !.lsn = Len(st.log) + 1]],
                 r[1], [st.index EXCEPT ![k] = r],
                 Append(st.log, Update(r, old, <<k, v>>, <<>>, st.last)), Len(st.log) + 1)
<1> DEFINE os == [st.pages EXCEPT ![r[1]] = p]
           deleted == [st EXCEPT !.pages = os]
           x == <<k, v>>
           sv == StoreValue(deleted, x, fits)
           d == sv.rid[1]
           s == sv.rid[2]
           ps == IF d = Len(os) + 1 THEN Append(os, InitPage) ELSE os
           indexed == [sv.st EXCEPT !.index[k] = sv.rid]
<1>1. tt = Stamp(LogUpdate(indexed, sv.rid, old, x, <<>>), d)
  BY DEF UpdateRecord
<1>2. sv = StoreValue(deleted, x, fits)
  OBVIOUS
<1>3. Process(deleted, os, st.data_page, st.index, st.log, st.last)
  <2>1. Process(st, st.pages, st.data_page, st.index, st.log, st.last)
    BY DEF Process, IsProcess
  <2> HIDE DEF os
  <2> QED BY <2>1, ProcessPages
<1>4. /\ deleted.pages = os /\ deleted.data_page = st.data_page /\ deleted.index = st.index
      /\ deleted.log = st.log /\ deleted.last = st.last /\ IsProcess(deleted)
  <2> HIDE DEF os, deleted
  <2> QED BY <1>3, ProcessParts
<1>5. p \in PageSet /\ os \in Seq(PageSet) /\ Len(os) = Len(st.pages) /\ Len(os) \in Nat
      /\ os[r[1]] = p
  <2>1. st.pages[r[1]] \in PageSet /\ r[2] \in 1 .. SlotsPerPage
    BY RidParts
  <2>2. p \in PageSet
    BY <2>1, DeleteFacts
  <2> QED BY <2>2
<1> HIDE DEF deleted, os, x, sv
<1>6. /\ sv.rid = <<d, s>> /\ d \in 1 .. Len(ps) /\ s \in 1 .. SlotsPerPage
      /\ sv.st = [pages |-> [ps EXCEPT ![d] = SetSlot(ps[d], s, x)], data_page |-> d,
                  index |-> st.index, log |-> st.log, last |-> st.last]
  <2> DEFINE ds == deleted.pages
             zs == IF d = Len(ds) + 1 THEN Append(ds, InitPage) ELSE ds
  <2>1. IsProcess(deleted) /\ deleted.pages \in Seq(PageSet) /\ deleted.data_page \in Nat \ {0}
    BY <1>4, <1>5
  <2>2. /\ sv.rid = <<d, s>> /\ d \in 1 .. Len(zs) /\ s \in 1 .. SlotsPerPage
        /\ sv.st = [pages |-> [zs EXCEPT ![d] = SetSlot(zs[d], s, x)], data_page |-> d,
                    index |-> deleted.index, log |-> deleted.log, last |-> deleted.last]
    BY ONLY <1>2, <2>1, StoreValueFacts
  <2>3. zs = ps
    BY <1>4
  <2> HIDE DEF zs, ps, d, s
  <2> QED BY <1>4, <2>2, <2>3
<1> DEFINE ws == [ps EXCEPT ![d] = SetSlot(ps[d], s, x)]
           ix == [st.index EXCEPT ![k] = sv.rid]
<1>7. Process(sv.st, ws, d, st.index, st.log, st.last)
  BY <1>6 DEF Process
<1>8. Process(indexed, ws, d, ix, st.log, st.last)
  <2> HIDE DEF ws
  <2>1. sv.st.index = st.index
    BY <1>7, ProcessParts
  <2>2. indexed = [sv.st EXCEPT !.index = ix]
    BY <2>1
  <2> HIDE DEF ix, indexed
  <2> QED BY <1>7, <2>2, ProcessIndex
<1>9. d # 0
  <2>1. Len(ps) \in Nat
    <3>1. Append(os, InitPage) \in Seq(PageSet)
      BY <1>5, InitIsPage
    <3> QED BY <1>5, <3>1
  <2> QED BY <2>1, <1>6
<1>10. Process(tt, [ws EXCEPT ![d].lsn = Len(st.log) + 1], d, ix,
               Append(st.log, Update(sv.rid, old, x, <<>>, st.last)), Len(st.log) + 1)
  <2> HIDE DEF ws, ix, indexed, d
  <2> QED BY <1>1, <1>8, <1>9, LoggedStamped
<1>11. tt.index = ix
  <2> HIDE DEF ws, ix
  <2> QED BY <1>10, ProcessParts, SMTT(30)
<1>12. sv.rid = r /\ d = r[1] /\ s = r[2]
  BY <1>11
<1>13. ps = os /\ ps[d] = p
  BY <1>5, <1>12
<1>14. ws = [st.pages EXCEPT ![r[1]] = SetSlot(p, r[2], x)]
  <2>1. ws = [os EXCEPT ![r[1]] = SetSlot(p, r[2], x)]
    BY <1>12, <1>13
  <2> DEFINE y == SetSlot(p, r[2], x)
  <2> HIDE DEF y, ws
  <2>2. ws = [os EXCEPT ![r[1]] = y]
    BY <2>1 DEF y
  <2>3. ws = [st.pages EXCEPT ![r[1]] = y]
    BY <2>2 DEF os
  <2> QED BY <2>3 DEF y
<1>15. [ws EXCEPT ![d].lsn = Len(st.log) + 1] =
         [st.pages EXCEPT ![r[1]] = [SetSlot(p, r[2], x) EXCEPT !.lsn = Len(st.log) + 1]]
  <2> DEFINE y == SetSlot(p, r[2], x)
  <2>1. y \in PageSet
    <3>1. x \in SlotSet /\ r[2] \in 1 .. SlotsPerPage
      BY RidParts DEF SlotSet, x
    <3> QED BY <3>1, <1>5, SetSlotFacts
  <2> HIDE DEF ws, y, d
  <2>2. ws = [st.pages EXCEPT ![r[1]] = y]
    BY <1>14 DEF y
  <2>3. [ws EXCEPT ![r[1]].lsn = Len(st.log) + 1] =
          [st.pages EXCEPT ![r[1]] = [y EXCEPT !.lsn = Len(st.log) + 1]]
    BY <2>1, <2>2, StampPages
  <2> QED BY <2>3, <1>12 DEF y
<1> HIDE DEF ws, d
<1> QED BY <1>10, <1>12, <1>15 DEF x

LEMMA UpdateCmdOK ==
  ASSUME NEW st, OpenOK(st), NEW k \in DOMAIN st.index, NEW v \in Vals, NEW fits,
         NEW tt, tt = UpdateRecord(st, k, v, fits), tt.index[k] = st.index[k]
  PROVE  /\ Changed(tt, st)
         /\ HeapSet(tt.log, Len(tt.log)) = Without(HeapSet(st.log, Len(st.log)), k) \cup {<<k, v>>}
         /\ tt.data_page # 0
         /\ Len(tt.pages) = Len(st.pages)
<1> DEFINE l == st.log
           r == st.index[k]
           o == st.pages[r[1]]
           p == DeleteRecord(o, r[2])
           old == ReadRecord(o, r[2])
           x == <<k, v>>
           rec == Update(r, old, x, <<>>, st.last)
           kk == Append(l, rec)
           y == [SetSlot(p, r[2], x) EXCEPT !.lsn = Len(kk)]
           qs == [st.pages EXCEPT ![r[1]] = y]
           ix == [st.index EXCEPT ![k] = r]
<1>0. /\ IsProcess(st) /\ LogOK(l) /\ Len(l) \in Nat /\ l \in Seq(LogRecords)
      /\ st.pages \in Seq(PageSet) /\ IndexOK(st.index, l) /\ st.last \in Nat /\ st.last = Len(l)
      /\ PagesShow(st.pages, l, Len(l)) /\ Latest(st.pages, l) /\ Len(st.pages) \in Nat
      /\ IndexLeaf \in Nat
  BY OpenFacts
<1>1. /\ r \in Rids /\ r[1] \in 1 .. Len(st.pages) /\ r[2] \in 1 .. SlotsPerPage /\ r[1] # 0
      /\ old = Heap(l, Len(l), r) /\ old \in RecordSet /\ old[1] = k /\ k \in Keys
      /\ st.data_page \in 1 .. IndexLeaf
  BY KeyFacts
<1>2. x \in RecordSet /\ x \in Cells /\ x # <<>> /\ x[1] = k /\ old \in Cells /\ old # <<>>
      /\ <<>> \in Keys \cup {<<>>}
  BY <1>1, SlotKinds DEF RecordSet
<1>3. o \in PageSet
  BY <1>0, <1>1
<1>4. /\ p \in PageSet
      /\ \A t \in 1 .. SlotsPerPage : ReadRecord(p, t) = IF t = r[2] THEN <<>> ELSE ReadRecord(o, t)
  BY <1>1, <1>3, DeleteFacts
<1>5. Len(kk) = Len(l) + 1
  BY <1>0, AppendLen
<1>6. Process(tt, qs, r[1], ix, kk, Len(l) + 1)
  <2> DEFINE zs == [st.pages EXCEPT ![r[1]] = [SetSlot(p, r[2], x) EXCEPT !.lsn = Len(l) + 1]]
  <2>1. Process(tt, zs, r[1], ix, kk, Len(l) + 1)
    <3>1. st.data_page \in Nat \ {0}
      BY <1>0, <1>1
    <3>2. p = DeleteRecord(st.pages[r[1]], r[2]) /\ old = ReadRecord(st.pages[r[1]], r[2])
          /\ <<k, v>> \in RecordSet /\ r = st.index[k] /\ tt.index[k] = r
      BY <1>2
    <3> HIDE DEF p, old, r
    <3> QED BY <1>0, <1>1, <3>1, <3>2, UpdateRecordIs
  <2> QED BY <2>1, <1>5
<1>7. tt.log = kk /\ tt.data_page = r[1] /\ tt.pages = qs
  <2> HIDE DEF kk, qs, ix, r
  <2> QED BY <1>6, ProcessParts
<1>8. ix = st.index
  <2>1. st.index \in [DOMAIN st.index -> Rids]
    BY <1>0 DEF IndexOK
  <2> QED BY <2>1
<1>9. r[1] \in 1 .. IndexLeaf
  <2>1. r[1] \in 1 .. MaxPages
    BY <1>1, RidParts
  <2> QED BY <2>1, Bounds DEF IndexLeaf
<1> HIDE DEF l, r, old, x
<1>12. /\ rec \in LogRecords /\ IsData(rec) /\ rec.type = "UPDATE" /\ rec.rid = r
       /\ rec.old = old /\ rec.new = x /\ rec.key = <<>> /\ rec.prev = st.last
  <2> DEFINE none == <<>>
  <2>1. r \in Rids /\ old \in Cells /\ x \in Cells /\ none \in Keys \cup {<<>>} /\ st.last \in Nat
        /\ rec = Update(r, old, x, none, st.last)
    BY <1>0, <1>1, <1>2
  <2> HIDE DEF rec, none
  <2>2. /\ rec \in LogRecords /\ IsData(rec) /\ rec.type = "UPDATE" /\ rec.rid = r
        /\ rec.old = old /\ rec.new = x /\ rec.key = none /\ rec.prev = st.last
    BY ONLY <2>1 DEF Update, LogRecords, IsData
  <2> QED BY <2>2 DEF none
<1>13. Grown(l, kk, rec)
  BY DEF Grown
<1> HIDE DEF rec, kk
<1>14. PageChange(qs, st.pages, kk, rec)
  <2>1. Len(kk) \in Nat
    BY <1>0, <1>5
  <2>2. y = [(IF x = <<>> THEN DeleteRecord(p, r[2]) ELSE SetSlot(p, r[2], x))
               EXCEPT !.lsn = Len(kk)]
    BY <1>2
  <2> HIDE DEF y, p, o
  <2>3. Written(y, p, r[2], x, Len(kk))
    BY <2>1, <2>2, <1>1, <1>2, <1>4, CellWritten
  <2>4. Written(y, o, r[2], x, Len(kk))
    BY <2>3, <1>4 DEF Written
  <2> QED BY <2>4, <1>1, <1>12 DEF PageChange, o
<1>15. Len(qs) = Len(st.pages)
  <2> HIDE DEF y
  <2>1. st.pages \in Seq(PageSet \cup {y})
    BY <1>0
  <2> QED BY <2>1, <1>1
<1> HIDE DEF qs, ix
<1>16. Heap(l, Len(l), r) # <<>> /\ k = Heap(l, Len(l), r)[1] /\ x[1] = Heap(l, Len(l), r)[1]
  BY <1>1, <1>2
<1>17. IndexOK(ix, kk)
  <2>1. IndexOK(ix, l)
    BY <1>0, <1>8
  <2>2. rec.new # <<>> /\ rec.new[1] = Heap(l, Len(l), r)[1] /\ r = rec.rid
    BY <1>2, <1>12, <1>16
  <2> QED BY <2>1, <2>2, <1>0, <1>1, <1>12, <1>13, <1>16, IndexWithReplace
<1>18. Changed(tt, st)
  <2>1. /\ PagesShow(st.pages, st.log, Len(st.log)) /\ Latest(st.pages, st.log)
        /\ rec.old = Heap(st.log, Len(st.log), r) /\ Grown(st.log, kk, rec)
        /\ Process(tt, qs, r[1], ix, kk, Len(st.log) + 1)
    BY <1>0, <1>1, <1>6, <1>12, <1>13 DEF l
  <2>2. rec.old \in RecordSet /\ rec.new \in RecordSet /\ rec.old[1] = rec.new[1] /\ rec.key = <<>>
    BY <1>1, <1>2, <1>12
  <2> QED BY <2>1, <2>2, <1>1, <1>9, <1>12, <1>14, <1>17, ChangeOK
<1>19. HeapSet(kk, Len(kk)) = Without(HeapSet(l, Len(l)), k) \cup {x}
  <2>2. HeapSet(kk, Len(kk)) =
          Without(HeapSet(l, Len(l)), k) \cup (IF rec.new = <<>> THEN {} ELSE {rec.new})
    <3>1. /\ LogOK(l) /\ rec \in LogRecords /\ IsData(rec) /\ Grown(l, kk, rec)
          /\ r \in Rids /\ r = rec.rid /\ (rec.new # <<>> => rec.new[1] = k)
      BY <1>0, <1>1, <1>2, <1>12, <1>13
    <3> QED BY ONLY <1>16, <3>1, SetOthers
  <2> QED BY <2>2, <1>2, <1>12
<1> QED BY <1>1, <1>7, <1>15, <1>18, <1>19 DEF l, x

-----------------------------------------------------------------------------
(* What the undo loop meets.                                               *)

IsChain(f, l, n) ==
  f = [m \in 0 .. n |->
         IF m = 0 THEN <<>>
         ELSE (IF l[m].type = "UPDATE" THEN <<m>> ELSE <<>>) \o f[l[m].prev]]

\* The recursion of ToUndo has a solution, since every record points backwards.
LEMMA ChainExists ==
  ASSUME NEW l, LogOK(l), NEW n \in 0 .. Len(l)
  PROVE  \E f : IsChain(f, l, n)
<1> DEFINE T == {k \in 0 .. n : ~\E f : IsChain(f, l, k)}
           head(m) == IF l[m].type = "UPDATE" THEN <<m>> ELSE <<>>
<1>1. SUFFICES ASSUME T # {} PROVE FALSE
  OBVIOUS
<1>0. T \in SUBSET Nat /\ Len(l) \in Nat
  BY DEF LogOK
<1>2. PICK k \in T : \A y \in T : k <= y
  <2> HIDE DEF T
  <2> QED BY <1>1, <1>0, LeastNat
<1>3. CASE k = 0
  <2>1. IsChain([m \in 0 .. 0 |-> <<>>], l, 0)
    BY DEF IsChain
  <2> QED BY <2>1, <1>2, <1>3
<1>4. CASE k # 0
  <2>1. k - 1 \in 0 .. n /\ k - 1 \notin T
    BY <1>2, <1>4
  <2>2. PICK f : IsChain(f, l, k - 1)
    BY <2>1
  <2>3. \A m \in 0 .. k - 1 : f[m] = IF m = 0 THEN <<>> ELSE head(m) \o f[l[m].prev]
    BY <2>2 DEF IsChain
  <2> DEFINE g == [m \in 0 .. k |-> IF m = k THEN head(k) \o f[l[k].prev] ELSE f[m]]
  <2> HIDE DEF head
  <2>4. ASSUME NEW m \in 0 .. k
        PROVE  g[m] = IF m = 0 THEN <<>> ELSE head(m) \o g[l[m].prev]
    <3>1. CASE m = 0
      BY <3>1, <1>4, <2>3
    <3>2. CASE m # 0
      <4>1. m \in 1 .. Len(l)
        BY <3>2, <1>0, <1>2
      <4>2. l[m].prev \in 0 .. k - 1 /\ l[m].prev \in 0 .. k /\ l[m].prev # k
        BY <4>1, <3>2, <1>2, LogRecord DEF RecordOK
      <4>3. g[l[m].prev] = f[l[m].prev]
        BY <4>2
      <4>4. CASE m = k
        BY <4>3, <4>4, <3>2
      <4>5. CASE m # k
        <5>1. m \in 0 .. k - 1
          BY <4>5, <1>2
        <5> QED BY <5>1, <2>3, <4>3, <4>5, <3>2
      <4> QED BY <4>4, <4>5
    <3> QED BY <3>1, <3>2
  <2>5. IsChain(g, l, k)
    <3>1. g = [m \in 0 .. k |-> IF m = 0 THEN <<>> ELSE head(m) \o g[l[m].prev]]
      BY <2>4
    <3> HIDE DEF g
    <3> QED BY <3>1 DEF IsChain, head
  <2> QED BY <2>5, <1>2
<1> QED BY <1>3, <1>4

\* What the m-th record adds to the list.
UndoHead(l, m) == IF l[m].type = "UPDATE" THEN <<m>> ELSE <<>>

LEMMA ToUndoChain ==
  ASSUME NEW l, LogOK(l), NEW n \in 0 .. Len(l)
  PROVE  \E f : /\ ToUndo(l, n) = f[n] /\ f[0] = <<>>
                /\ \A m \in 1 .. n : f[m] = UndoHead(l, m) \o f[l[m].prev]
<1> DEFINE f == CHOOSE g : IsChain(g, l, n)
<1>1. IsChain(f, l, n)
  BY ChainExists
<1>2. ToUndo(l, n) = f[n]
  BY DEF ToUndo, IsChain
<1> HIDE DEF f
<1>3. f = [m \in 0 .. n |-> IF m = 0 THEN <<>> ELSE UndoHead(l, m) \o f[l[m].prev]]
  BY <1>1 DEF IsChain, UndoHead
<1>4. f[0] = <<>>
  BY <1>3
<1>5. ASSUME NEW m \in 1 .. n PROVE f[m] = UndoHead(l, m) \o f[l[m].prev]
  <2>1. m \in 0 .. n /\ m # 0
    OBVIOUS
  <2> DEFINE g == UndoHead(l, m) \o f[l[m].prev]
  <2>2. f[m] = IF m = 0 THEN <<>> ELSE g
    BY <2>1, <1>3
  <2> HIDE DEF g
  <2>3. f[m] = g
    BY <2>1, <2>2
  <2> QED BY <2>3 DEF g
<1> QED BY <1>2, <1>4, <1>5

\* The numbers from f down to b + 2.
Down(f, b) == [i \in 1 .. f - b - 1 |-> f - i + 1]

LEMMA DownFacts ==
  ASSUME NEW b \in Nat, NEW f \in Nat, b < f
  PROVE  /\ Down(f, b) \in Seq(Nat) /\ Len(Down(f, b)) = f - b - 1
         /\ \A i \in 1 .. f - b - 1 : Down(f, b)[i] = f - i + 1
         /\ <<>> \o Down(f, b) = Down(f, b)
         /\ b + 1 < f => <<f>> \o Down(f - 1, b) = Down(f, b)
         /\ f = b + 1 => Down(f, b) = <<>>
<1>1. \A g \in Nat : b < g => /\ Down(g, b) \in Seq(Nat) /\ Len(Down(g, b)) = g - b - 1
                            /\ \A i \in 1 .. g - b - 1 : Down(g, b)[i] = g - i + 1
  BY DEF Down
<1>2. Down(f, b) \in Seq(Nat)
  BY <1>1
<1>3. <<>> \o Down(f, b) = Down(f, b)
  <2> DEFINE s == Down(f, b)
  <2> HIDE DEF s
  <2>1. s \in Seq(Nat)
    BY <1>2 DEF s
  <2>2. <<>> \o s = s
    BY <2>1
  <2> QED BY <2>2 DEF s
<1>4. ASSUME b + 1 < f PROVE <<f>> \o Down(f - 1, b) = Down(f, b)
  <2> DEFINE s == Down(f - 1, b)
             t == <<f>> \o s
             u == Down(f, b)
  <2>1. s \in Seq(Nat) /\ Len(s) = f - 1 - b - 1 /\ \A i \in 1 .. f - 1 - b - 1 : s[i] = f - 1 - i + 1
    <3>1. f - 1 \in Nat /\ b < f - 1
      BY <1>4
    <3> QED BY <1>1, <3>1
  <2>2. u \in Seq(Nat) /\ Len(u) = f - b - 1 /\ \A i \in 1 .. f - b - 1 : u[i] = f - i + 1
    BY <1>1
  <2> HIDE DEF s, u
  <2>3. t \in Seq(Nat) /\ Len(t) = f - b - 1
    BY <2>1, <1>4
  <2>4. \A i \in 1 .. f - b - 1 : t[i] = f - i + 1
    <3>1. t[1] = f
      BY <2>1
    <3>2. ASSUME NEW i \in 2 .. f - b - 1 PROVE t[i] = f - i + 1
      <4>1. i - 1 \in 1 .. Len(s) /\ t[i] = s[i - 1]
        BY <2>1, <1>4
      <4> QED BY <4>1, <2>1
    <3> HIDE DEF t
    <3>3. \A i \in 1 .. f - b - 1 : i = 1 \/ i \in 2 .. f - b - 1
      OBVIOUS
    <3> QED BY <3>1, <3>2, <3>3
  <2> HIDE DEF t
  <2>5. t = u
    BY <2>2, <2>3, <2>4
  <2> QED BY <2>5 DEF s, t, u
<1>5. f = b + 1 => Down(f, b) = <<>>
  BY <1>1
<1> QED BY <1>1, <1>3, <1>4, <1>5

\* The undo loop meets the UPDATEs of the transaction one by one, from where
\* it starts down to the BEGIN.
LEMMA ToUndoIs ==
  ASSUME NEW l, LogOK(l), NEW n \in 1 .. Len(l), ~Ends(l[n])
  PROVE  ToUndo(l, n) = Down(Frontier(l, n), Base(l, n))
<1> DEFINE e == Frontier(l, n)
           b == Base(l, n)
<1>0. /\ b \in 0 .. n - 1 /\ e \in b + 1 .. n /\ Len(l) \in Nat
      /\ l[b + 1].type = "BEGIN" /\ \A j \in b + 2 .. e : l[j].type = "UPDATE"
  <2>1. ActiveOK(l, n)
    BY ActiveFacts
  <2> QED BY <2>1 DEF ActiveOK, LogOK
<1>1. PICK f : /\ ToUndo(l, n) = f[n] /\ f[0] = <<>>
               /\ \A m \in 1 .. n : f[m] = UndoHead(l, m) \o f[l[m].prev]
  BY ToUndoChain
<1> HIDE DEF e, b
<1>3. f[b + 1] = Down(b + 1, b)
  <2>1. b + 1 \in 1 .. n /\ b + 1 \in 1 .. Len(l) /\ b \in Nat
    BY <1>0
  <2>2. l[b + 1].prev = 0
    BY <2>1, <1>0, LogRecord DEF RecordOK
  <2>3. UndoHead(l, b + 1) = <<>>
    BY <1>0 DEF UndoHead
  <2>4. f[b + 1] = <<>> \o <<>>
    BY <2>1, <2>2, <2>3, <1>1
  <2>5. Down(b + 1, b) = <<>> /\ <<>> \o Down(b + 1, b) = Down(b + 1, b)
    <3> DEFINE c == b + 1
    <3>1. c \in Nat /\ b < c /\ c = b + 1 /\ b \in Nat
      BY <2>1
    <3> HIDE DEF c
    <3>2. Down(c, b) = <<>> /\ <<>> \o Down(c, b) = Down(c, b)
      BY ONLY <3>1, DownFacts
    <3> QED BY <3>2 DEF c
  <2> QED BY <2>4, <2>5
<1> DEFINE T == {m \in b + 1 .. e : f[m] # Down(m, b)}
<1>4. T = {}
  <2>1. SUFFICES ASSUME T # {} PROVE FALSE
    OBVIOUS
  <2>2. T \in SUBSET Nat
    BY <1>0
  <2>3. PICK m \in T : \A y \in T : m <= y
    <3> HIDE DEF T
    <3> QED BY <2>1, <2>2, LeastNat
  <2>4. m \in b + 2 .. e /\ m \in Nat /\ m - 1 \in b + 1 .. e /\ m - 1 \notin T /\ b \in Nat
    BY <2>3, <1>0, <1>3
  <2>5. f[m - 1] = Down(m - 1, b)
    BY <2>4
  <2>6. m \in 1 .. n /\ m \in 1 .. Len(l) /\ l[m].type = "UPDATE"
    BY <2>4, <1>0
  <2>7. l[m].prev = m - 1
    BY <2>6, LogRecord DEF RecordOK
  <2>8. f[m] = <<m>> \o f[m - 1]
    <3>1. UndoHead(l, m) = <<m>>
      BY <2>6 DEF UndoHead
    <3> QED BY <3>1, <2>6, <2>7, <1>1
  <2>9. <<m>> \o Down(m - 1, b) = Down(m, b)
    <3>1. m \in Nat /\ b \in Nat /\ b < m /\ b + 1 < m
      BY <2>4, <1>0
    <3> QED BY ONLY <3>1, DownFacts
  <2> QED BY <2>3, <2>5, <2>8, <2>9
<1>5. f[e] = Down(e, b)
  BY <1>0, <1>4
<1>6. f[n] = f[e]
  <2>1. CASE l[n].type \in {"ABORT", "CLR"}
    <3>1. l[n].prev = e
      BY <2>1 DEF Frontier, e
    <3>2. f[n] = <<>> \o f[e]
      <4>1. UndoHead(l, n) = <<>> /\ n \in 1 .. n
        BY <2>1, <1>0 DEF UndoHead
      <4> QED BY <4>1, <3>1, <1>1
    <3>3. <<>> \o Down(e, b) = Down(e, b)
      BY <1>0, DownFacts
    <3> QED BY <3>2, <3>3, <1>5
  <2>2. CASE l[n].type \notin {"ABORT", "CLR"}
    BY <2>2 DEF Frontier, e
  <2> QED BY <2>1, <2>2
<1> QED BY <1>1, <1>5, <1>6 DEF e, b

-----------------------------------------------------------------------------
(* Undo.                                                                   *)

LEMMA ClrRecordType ==
  ASSUME NEW r \in Rids, NEW c \in Cells, NEW prev \in Nat, NEW rec, rec = Clr(r, c, prev)
  PROVE  /\ rec \in LogRecords /\ IsData(rec) /\ rec.type = "CLR" /\ rec.rid = r
         /\ rec.new = c /\ rec.prev = prev /\ ~Ends(rec)
<1>1. /\ rec.type = "CLR" /\ rec.rid = r /\ rec.old = <<>> /\ rec.new = c /\ rec.key = <<>>
      /\ rec.prev = prev
      /\ rec = [type |-> "CLR", rid |-> r, old |-> <<>>, new |-> c, key |-> <<>>, prev |-> prev]
  BY DEF Clr
<1>2. <<>> \in Cells /\ <<>> \in Keys \cup {<<>>} /\ r \in Rids \cup {NoRid}
  BY DEF Cells
<1>3. rec \in LogRecords
  BY <1>1, <1>2 DEF LogRecords
<1> QED BY <1>1, <1>3 DEF IsData, Ends

\* Undo has come to the UPDATE u of the transaction at the end of the log.
Undoable(l, u) ==
  /\ LogOK(l) /\ Len(l) # 0 /\ ~Ends(l[Len(l)])
  /\ u = Frontier(l, Len(l)) /\ l[u].type = "UPDATE"

IsClr(rec, l, u) == rec = Clr(l[u].rid, l[u].old, l[u].prev)

\* That UPDATE in the log and in the heap.
LEMMA UndoRecord ==
  ASSUME NEW l, NEW u, Undoable(l, u)
  PROVE  /\ Len(l) \in 1 .. Len(l) /\ u \in 1 .. Len(l) /\ u - 1 \in Nat
         /\ UpdateOK(l, u) /\ l[u].prev = u - 1 /\ l[u].rid \in Rids
         /\ l[u].old \in Cells /\ l[u].new \in Cells
         /\ \A r \in Rids : Heap(l, Len(l), r) =
              IF r = l[u].rid THEN l[u].new ELSE Heap(l, u - 1, r)
         /\ l[Len(l)].type \in {"UPDATE", "ABORT", "CLR"}
<1> USE DEF Undoable
<1>0. Len(l) \in Nat
  BY DEF LogOK
<1>1. Len(l) \in 1 .. Len(l)
  BY <1>0
<1>2. /\ u \in 1 .. Len(l) /\ \A r \in Rids : Heap(l, Len(l), r) = Heap(l, u, r)
      /\ UpdateOK(l, u) /\ l[u].prev = u - 1
  BY <1>1, ActiveFront
<1>3. l[u].rid \in Rids
  BY <1>2 DEF UpdateOK
<1>4. l[u].old \in Cells /\ l[u].new \in Cells
  BY <1>2, LogRecord
<1>5. \A r \in Rids : Heap(l, u, r) = IF r = l[u].rid THEN l[u].new ELSE Heap(l, u - 1, r)
  <2>1. u \in Nat /\ u # 0
    BY <1>2
  <2> QED BY <2>1, HeapStep DEF Writes, IsData
<1>6. l[Len(l)].type \in {"UPDATE", "ABORT", "CLR"}
  <2>1. l[Len(l)].type \in {"BEGIN", "UPDATE", "COMMIT", "ABORT", "CLR", "TXN_END"}
    BY <1>1, LogRecord
  <2>2. l[Len(l)].type # "BEGIN"
    BY DEF Frontier
  <2> QED BY <2>1, <2>2 DEF Ends
<1> QED BY <1>1, <1>2, <1>3, <1>4, <1>5, <1>6

\* The CLR in the log.
LEMMA ClrLogged ==
  ASSUME NEW l, NEW u, Undoable(l, u), NEW rec, IsClr(rec, l, u), NEW k, Grown(l, k, rec)
  PROVE  /\ LogOK(k) /\ Extends(k, l) /\ Len(k) = Len(l) + 1 /\ Len(l) \in Nat
         /\ rec \in LogRecords /\ IsData(rec) /\ rec.rid = l[u].rid /\ rec.new = l[u].old
         /\ Base(k, Len(k)) = Base(l, Len(l))
         /\ k[Len(k)] = rec /\ ~Ends(rec)
         /\ Frontier(k, Len(k)) = u - 1
<1>0. /\ LogOK(l) /\ Len(l) # 0 /\ ~Ends(l[Len(l)])
      /\ u = Frontier(l, Len(l)) /\ l[u].type = "UPDATE"
      /\ rec = Clr(l[u].rid, l[u].old, l[u].prev)
  BY DEF Undoable, IsClr
<1>1. /\ Len(l) \in 1 .. Len(l) /\ u \in 1 .. Len(l) /\ u - 1 \in Nat
      /\ l[u].prev = u - 1 /\ l[u].rid \in Rids /\ l[u].old \in Cells
      /\ l[Len(l)].type \in {"UPDATE", "ABORT", "CLR"}
  BY UndoRecord
<1>2. /\ rec \in LogRecords /\ IsData(rec) /\ rec.type = "CLR" /\ rec.rid = l[u].rid
      /\ rec.new = l[u].old /\ rec.prev = u - 1 /\ ~Ends(rec)
  BY <1>0, <1>1, ClrRecordType
<1>3. /\ Len(k) = Len(l) + 1 /\ Len(l) \in Nat /\ Same(k, l, Len(l)) /\ k[Len(l) + 1] = rec
      /\ (RecordOK(k, Len(l) + 1) => LogOK(k))
  BY <1>0, <1>2, Longer
<1>4. k[Len(k)] = rec /\ Len(k) - 1 = Len(l) /\ k[Len(l)] = l[Len(l)] /\ k[u] = l[u]
  BY <1>1, <1>3 DEF Same
<1>5. Frontier(k, Len(l)) = u
  BY <1>0, <1>4 DEF Frontier
<1>6. ClrOK(k, Len(k))
  BY <1>0, <1>1, <1>2, <1>4, <1>5 DEF ClrOK
<1>7. RecordOK(k, Len(k))
  <2>1. k[Len(k)].type = "CLR" /\ k[Len(k)].prev < Len(k)
    BY <1>1, <1>2, <1>3, <1>4
  <2> QED BY <2>1, <1>0, <1>1, <1>4, <1>6 DEF RecordOK
<1>8. LogOK(k)
  BY <1>3, <1>7
<1>9. Base(k, Len(k)) = Base(l, Len(l))
  BY <1>0, <1>2, LongerHeap
<1>10. Frontier(k, Len(k)) = u - 1
  BY <1>2, <1>4 DEF Frontier
<1> QED BY <1>2, <1>3, <1>4, <1>8, <1>9, <1>10 DEF Extends

\* The index follows.
LEMMA UndoIndexOK ==
  ASSUME NEW l, NEW u, Undoable(l, u), NEW rec, IsClr(rec, l, u), NEW k, Grown(l, k, rec),
         NEW ix, IndexOK(ix, l), NEW jx, jx = UndoIndex(ix, l[u])
  PROVE  IndexOK(jx, k)
<1> DEFINE r == l[u].rid
           old == l[u].old
           new == l[u].new
           key == l[u].key
<1>1. /\ u \in 1 .. Len(l) /\ u - 1 \in Nat /\ UpdateOK(l, u) /\ r \in Rids
      /\ \A q \in Rids : Heap(l, Len(l), q) = IF q = r THEN new ELSE Heap(l, u - 1, q)
  BY UndoRecord
<1>2. rec \in LogRecords /\ IsData(rec) /\ rec.rid = r /\ rec.new = old /\ LogOK(l)
  BY ClrLogged DEF Undoable
<1>3. /\ old = Heap(l, u - 1, r)
      /\ \/ old = <<>> /\ new \in RecordSet /\ key = new[1]
         \/ old \in RecordSet /\ new = <<>> /\ key = old[1]
         \/ old \in RecordSet /\ new \in RecordSet /\ old[1] = new[1]
  BY <1>1 DEF UpdateOK
<1>4. jx = IF old = <<>> THEN IndexRemove(ix, key)
           ELSE IF new = <<>> /\ key \notin DOMAIN ix THEN IndexInsert(ix, key, r)
           ELSE ix
  BY DEF UndoIndex
<1>5. Heap(l, Len(l), r) = new
  BY <1>1
<1> HIDE DEF r, old, new, key
<1>6. CASE old = <<>> /\ new \in RecordSet /\ key = new[1]
  <2>1. Heap(l, Len(l), r) # <<>> /\ key = Heap(l, Len(l), r)[1]
    BY <1>5, <1>6, SlotKinds
  <2>2. jx = IndexRemove(ix, key) /\ rec.new = <<>> /\ r = rec.rid
    BY <1>2, <1>4, <1>6
  <2> QED BY <2>1, <2>2, <1>1, <1>2, IndexWithRemove
<1>7. CASE old \in RecordSet /\ new = <<>> /\ key = old[1]
  <2>0. old # <<>>
    BY <1>7, SlotKinds
  <2>1. key \notin DOMAIN ix
    <3>1. SUFFICES ASSUME key \in DOMAIN ix PROVE FALSE
      OBVIOUS
    <3>2. ix[key] \in Rids /\ Heap(l, Len(l), ix[key]) # <<>> /\ Heap(l, Len(l), ix[key])[1] = key
      BY <3>1 DEF IndexOK
    <3>3. ix[key] # r
      BY <3>2, <1>5, <1>7
    <3>4. Heap(l, u - 1, ix[key]) # <<>> /\ Heap(l, u - 1, ix[key])[1] = key
      BY <3>2, <3>3, <1>1
    <3>5. Unique(l, u - 1)
      <4>1. u - 1 \in 0 .. Len(l)
        BY <1>1
      <4> QED BY <4>1, <1>2, UniqueKeys
    <3>6. Heap(l, u - 1, r) # <<>> /\ Heap(l, u - 1, r)[1] = key
      BY <2>0, <1>3, <1>7
    <3> QED BY <3>2, <3>3, <3>4, <3>5, <3>6, <1>1 DEF Unique
  <2>2. jx = IndexInsert(ix, key, r) /\ Heap(l, Len(l), r) = <<>> /\ rec.new \in RecordSet
        /\ key = rec.new[1] /\ r = rec.rid
    BY <2>0, <2>1, <1>2, <1>4, <1>5, <1>7
  <2> QED BY <2>1, <2>2, <1>1, <1>2, IndexWithInsert
<1>8. CASE old \in RecordSet /\ new \in RecordSet /\ old[1] = new[1]
  <2>1. old # <<>> /\ new # <<>>
    BY <1>8, SlotKinds
  <2>2. jx = ix /\ rec.new # <<>> /\ Heap(l, Len(l), r) # <<>> /\ r = rec.rid
        /\ rec.new[1] = Heap(l, Len(l), r)[1]
    BY <2>1, <1>2, <1>4, <1>5, <1>8
  <2>3. IndexOK(ix, k)
    BY <2>2, <1>1, <1>2, IndexWithReplace
  <2> QED BY <2>2, <2>3
<1> QED BY <1>3, <1>6, <1>7, <1>8

NoData(l) == \A i \in 1 .. Len(l) : ~IsData(l[i])

\* The process st after some steps of undo, which go on from the record e.
Undone(tt, st, e) ==
  /\ StoreOK(tt)
  /\ Extends(tt.log, st.log)
  /\ Len(tt.log) # 0 /\ ~Ends(tt.log[Len(tt.log)])
  /\ Base(tt.log, Len(tt.log)) = Base(st.log, Len(st.log))
  /\ Frontier(tt.log, Len(tt.log)) = e
  /\ IndexOK(st.index, st.log) => IndexOK(tt.index, tt.log)
  /\ tt.data_page = st.data_page
  /\ tt.last = st.last
  /\ Len(tt.pages) = Len(st.pages)
  /\ NoData(st.log) => NoData(tt.log)

LEMMA UndoOneIs ==
  ASSUME NEW st, IsProcess(st), NEW u, NEW tt, tt = UndoOne(st, u)
  PROVE  LET rec == st.log[u]
             p == rec.rid[1]
         IN  Process(tt, [st.pages EXCEPT ![p] = [UndoPage(st.pages[p], rec) EXCEPT
                                                    !.lsn = Len(st.log) + 1]],
                     st.data_page, UndoIndex(st.index, rec),
                     Append(st.log, Clr(rec.rid, rec.old, rec.prev)), st.last)
<1> DEFINE rec == st.log[u]
           p == rec.rid[1]
           k == Append(st.log, Clr(rec.rid, rec.old, rec.prev))
           qs == [st.pages EXCEPT ![p] = [UndoPage(st.pages[p], rec) EXCEPT !.lsn = Len(st.log) + 1]]
           ix == UndoIndex(st.index, rec)
           s1 == [st EXCEPT !.log = k]
           s2 == [s1 EXCEPT !.pages = qs]
           s3 == [s2 EXCEPT !.index = ix]
<1>0. Process(st, st.pages, st.data_page, st.index, st.log, st.last)
  BY DEF Process, IsProcess
<1>1. Process(s1, st.pages, st.data_page, st.index, k, st.last)
  <2> HIDE DEF k
  <2> QED BY <1>0 DEF Process
<1>2. tt = s3
  <2>1. tt = [st EXCEPT !.log = k, !.pages = qs, !.index = ix]
    BY DEF UndoOne
  <2> HIDE DEF k, qs, ix
  <2> QED BY <2>1
<1> HIDE DEF s1, qs, ix, k
<1>3. Process(s2, qs, st.data_page, st.index, k, st.last)
  BY <1>1, ProcessPages
<1> HIDE DEF s2
<1>4. Process(s3, qs, st.data_page, ix, k, st.last)
  BY <1>3, ProcessIndex
<1> QED BY <1>2, <1>4 DEF qs, ix, k

LEMMA UndoOneOK ==
  ASSUME NEW st, StoreOK(st), NEW u, Undoable(st.log, u), NEW tt, tt = UndoOne(st, u)
  PROVE  Undone(tt, st, u - 1)
<1> DEFINE l == st.log
           rec == l[u]
           r == rec.rid
           p == st.pages[r[1]]
           clr == Clr(rec.rid, rec.old, rec.prev)
           k == Append(l, clr)
           q == [UndoPage(p, rec) EXCEPT !.lsn = Len(l) + 1]
           qs == [st.pages EXCEPT ![r[1]] = q]
           ix == UndoIndex(st.index, rec)
<1>0. /\ IsProcess(st) /\ LogOK(l) /\ PagesShow(st.pages, l, Len(l)) /\ Latest(st.pages, l)
      /\ st.pages \in Seq(PageSet) /\ Len(st.pages) \in Nat
  BY DEF StoreOK, PagesShow
<1>1. Process(tt, qs, st.data_page, ix, k, st.last)
  BY <1>0, UndoOneIs
<1>2. /\ tt.pages = qs /\ tt.data_page = st.data_page /\ tt.index = ix /\ tt.log = k
      /\ tt.last = st.last /\ IsProcess(tt)
  <2> HIDE DEF qs, ix, k
  <2> QED BY <1>1, ProcessParts
<1>3. IsClr(clr, l, u) /\ Grown(l, k, clr) /\ Undoable(l, u)
  BY DEF IsClr, Grown
<1>4. /\ u \in 1 .. Len(l) /\ r \in Rids /\ rec.old \in Cells /\ rec.type = "UPDATE"
  BY UndoRecord DEF Undoable
<1>5. r[1] \in 1 .. Len(st.pages) /\ r[2] \in 1 .. SlotsPerPage
  <2>1. IsData(l[u])
    BY <1>4 DEF IsData
  <2>2. r[1] \in 1 .. Len(st.pages)
    BY <2>1, <1>0, <1>4 DEF Latest
  <2> QED BY <2>2, <1>4, RidParts
<1>6. p \in PageSet
  BY <1>0, <1>5
<1> HIDE DEF l
<1>7. q = [(IF rec.old = <<>> THEN DeleteRecord(p, r[2]) ELSE SetSlot(p, r[2], rec.old))
             EXCEPT !.lsn = Len(l) + 1]
  BY DEF UndoPage
<1> HIDE DEF rec, r, clr, k, q, p
<1>8. /\ LogOK(k) /\ Extends(k, l) /\ Len(k) = Len(l) + 1 /\ Len(l) \in Nat
      /\ clr \in LogRecords /\ IsData(clr) /\ clr.rid = r /\ clr.new = rec.old
      /\ Base(k, Len(k)) = Base(l, Len(l))
      /\ k[Len(k)] = clr /\ ~Ends(clr)
      /\ Frontier(k, Len(k)) = u - 1
  BY <1>3, ClrLogged DEF rec, r
<1>9. PageChange(qs, st.pages, k, clr)
  <2>1. Len(l) + 1 \in Nat
    BY <1>8
  <2>2. Written(q, p, r[2], rec.old, Len(l) + 1)
    BY <2>1, <1>4, <1>5, <1>6, <1>7, CellWritten
  <2>3. Written(q, p, r[2], rec.old, Len(k))
    BY <2>2, <1>8
  <2> QED BY <2>3, <1>4, <1>5, <1>8 DEF PageChange, p
<1>10. PagesShow(qs, k, Len(k)) /\ Latest(qs, k) /\ Len(qs) = Len(st.pages)
  <2> HIDE DEF qs
  <2> QED BY <1>0, <1>3, <1>8, <1>9, PagesWrite
<1>11. IndexOK(st.index, l) => IndexOK(ix, k)
  <2>1. ix = UndoIndex(st.index, l[u])
    BY DEF rec
  <2> HIDE DEF ix
  <2> QED BY <2>1, <1>3, UndoIndexOK
<1>12. StoreOK(tt)
  BY <1>2, <1>8, <1>10 DEF StoreOK
<1>13. Len(k) # 0 /\ ~Ends(k[Len(k)])
  BY <1>8
<1>14. ~NoData(l)
  BY <1>4 DEF NoData, IsData, rec
<1> HIDE DEF qs, ix
<1> QED BY <1>2, <1>8, <1>10, <1>11, <1>12, <1>13, <1>14 DEF Undone, l

IsUndo(f, st, lsns) ==
  f = [i \in 0 .. Len(lsns) |-> IF i = 0 THEN st ELSE UndoOne(f[i - 1], lsns[i])]

LEMMA UndoExists ==
  ASSUME NEW st, NEW lsns, Len(lsns) \in Nat
  PROVE  \E f : IsUndo(f, st, lsns)
<1> DEFINE n == Len(lsns)
           Sol(f, m) == f = [i \in 0 .. m |-> IF i = 0 THEN st ELSE UndoOne(f[i - 1], lsns[i])]
           T == {m \in 0 .. n : ~\E f : Sol(f, m)}
<1>1. T = {}
  <2>1. SUFFICES ASSUME T # {} PROVE FALSE
    OBVIOUS
  <2>2. T \in SUBSET Nat
    OBVIOUS
  <2>3. PICK m \in T : \A y \in T : m <= y
    <3> HIDE DEF T
    <3> QED BY <2>1, <2>2, LeastNat
  <2>4. CASE m = 0
    <3>1. Sol([i \in 0 .. 0 |-> st], 0)
      OBVIOUS
    <3> QED BY <3>1, <2>3, <2>4
  <2>5. CASE m # 0
    <3>1. m - 1 \in 0 .. n /\ m - 1 \notin T
      <4>1. m \in 0 .. n /\ n \in Nat
        OBVIOUS
      <4> HIDE DEF T, n
      <4> QED BY ONLY <4>1, <2>3, <2>5
    <3>2. PICK f : Sol(f, m - 1)
      BY <3>1
    <3> DEFINE g == [i \in 0 .. m |-> IF i = m THEN UndoOne(f[m - 1], lsns[m]) ELSE f[i]]
    <3>3. ASSUME NEW i \in 0 .. m
          PROVE  g[i] = IF i = 0 THEN st ELSE UndoOne(g[i - 1], lsns[i])
      <4>1. CASE i = 0
        BY <4>1, <2>5, <3>2
      <4>2. CASE i # 0
        <5>1. i - 1 \in 0 .. m /\ i - 1 # m
          BY <4>2, <2>3
        <5>2. g[i - 1] = f[i - 1]
          BY <5>1
        <5>3. CASE i = m
          BY <5>2, <5>3, <4>2
        <5>4. CASE i # m
          <6>1. i \in 0 .. m - 1
            BY <5>4, <2>3
          <6>2. f[i] = UndoOne(f[i - 1], lsns[i])
            BY <6>1, <3>2, <4>2
          <6> QED BY <6>2, <5>2, <5>4, <4>2
        <5> QED BY <5>3, <5>4
      <4> QED BY <4>1, <4>2
    <3>4. Sol(g, m)
      BY <3>3
    <3> QED BY <3>4, <2>3
  <2> QED BY <2>4, <2>5
<1>2. \E f : Sol(f, n)
  BY <1>1
<1> QED BY <1>2 DEF IsUndo

\* f holds the process after each turn of the undo loop.
UndoRun(f, st, lsns) ==
  /\ UndoAll(st, lsns) = f[Len(lsns)] /\ f[0] = st
  /\ \A i \in 1 .. Len(lsns) : f[i] = UndoOne(f[i - 1], lsns[i])

LEMMA UndoAllIs ==
  ASSUME NEW st, NEW lsns, Len(lsns) \in Nat
  PROVE  \E f : UndoRun(f, st, lsns)
<1> DEFINE f == CHOOSE g : IsUndo(g, st, lsns)
<1>1. IsUndo(f, st, lsns)
  BY UndoExists
<1>2. UndoAll(st, lsns) = f[Len(lsns)]
  BY DEF UndoAll, IsUndo
<1> HIDE DEF f
<1>3. f[0] = st
  BY <1>1 DEF IsUndo
<1>4. \A i \in 1 .. Len(lsns) : f[i] = UndoOne(f[i - 1], lsns[i])
  BY <1>1 DEF IsUndo
<1>5. UndoRun(f, st, lsns)
  BY <1>2, <1>3, <1>4 DEF UndoRun
<1> QED BY <1>5

LEMMA StoreFacts ==
  ASSUME NEW st, StoreOK(st)
  PROVE  /\ IsProcess(st) /\ LogOK(st.log) /\ st.log \in Seq(LogRecords) /\ Len(st.log) \in Nat
         /\ st.pages \in Seq(PageSet) /\ Len(st.pages) \in Nat /\ Len(st.pages) <= MaxPages
         /\ PagesShow(st.pages, st.log, Len(st.log)) /\ Latest(st.pages, st.log)
<1>1. st.log \in Seq(LogRecords) /\ st.pages \in Seq(PageSet) /\ Len(st.pages) <= MaxPages
  BY DEF StoreOK, LogOK, PagesShow
<1>2. Len(st.log) \in Nat /\ Len(st.pages) \in Nat
  BY <1>1
<1> QED BY <1>1, <1>2 DEF StoreOK

LEMMA UndoneTrans ==
  ASSUME NEW st, StoreOK(st), NEW tt, NEW e, Undone(tt, st, e), NEW uu, NEW c, Undone(uu, tt, c)
  PROVE  Undone(uu, st, c)
<1>1. Len(st.log) \in Nat /\ Len(tt.log) \in Nat /\ Len(uu.log) \in Nat
  BY StoreFacts DEF Undone
<1>2. Extends(uu.log, st.log)
  BY <1>1, ExtendsTrans DEF Undone
<1> QED BY <1>2 DEF Undone

LEMMA UndoAllOK ==
  ASSUME NEW st, StoreOK(st), Len(st.log) # 0, ~Ends(st.log[Len(st.log)]),
         NEW e, e = Frontier(st.log, Len(st.log)), NEW b, b = Base(st.log, Len(st.log)),
         NEW tt, tt = UndoAll(st, Down(e, b))
  PROVE  Undone(tt, st, b + 1)
<1> DEFINE lsns == Down(e, b)
           m == Len(lsns)
<1>0. LogOK(st.log) /\ Len(st.log) \in Nat
  BY StoreFacts
<1>1. b \in Nat /\ e \in Nat /\ b < e
  <2>1. Len(st.log) \in 1 .. Len(st.log)
    BY <1>0
  <2>2. b \in 0 .. Len(st.log) - 1 /\ e \in b + 1 .. Len(st.log)
    BY <2>1, <1>0, ActiveFront
  <2> QED BY <2>2, <1>0
<1>2. m = e - b - 1 /\ m \in Nat /\ \A i \in 1 .. m : lsns[i] = e - i + 1
  <2>1. Len(Down(e, b)) = e - b - 1 /\ \A i \in 1 .. e - b - 1 : Down(e, b)[i] = e - i + 1
    BY ONLY <1>1, DownFacts
  <2>2. e - b - 1 \in Nat
    BY <1>1
  <2> HIDE DEF lsns
  <2> QED BY <2>1, <2>2 DEF lsns
<1>3. tt = UndoAll(st, lsns)
  OBVIOUS
<1> HIDE DEF lsns
<1>4. PICK f : /\ UndoAll(st, lsns) = f[Len(lsns)] /\ f[0] = st
               /\ \A i \in 1 .. Len(lsns) : f[i] = UndoOne(f[i - 1], lsns[i])
  <2>1. Len(lsns) \in Nat
    BY <1>2
  <2>2. PICK f : UndoRun(f, st, lsns)
    BY ONLY <2>1, UndoAllIs
  <2> QED BY <2>2 DEF UndoRun
<1> DEFINE T == {i \in 0 .. m : ~Undone(f[i], st, e - i)}
<1>5. T = {}
  <2>1. SUFFICES ASSUME T # {} PROVE FALSE
    OBVIOUS
  <2>2. T \in SUBSET Nat
    BY <1>2
  <2>3. PICK i \in T : \A y \in T : i <= y
    <3> HIDE DEF T
    <3> QED BY <2>1, <2>2, LeastNat
  <2>4. CASE i = 0
    <3>1. Extends(st.log, st.log)
      BY <1>0 DEF Extends, Same
    <3>2. Undone(st, st, e)
      BY <3>1 DEF Undone
    <3>3. e - 0 = e
      BY <1>1
    <3> QED BY <3>2, <3>3, <2>3, <2>4, <1>4
  <2>5. CASE i # 0
    <3> DEFINE g == f[i - 1]
               u == e - i + 1
    <3>1. i \in 1 .. m /\ i - 1 \in 0 .. m /\ i - 1 \notin T /\ e - (i - 1) = u /\ u - 1 = e - i
          /\ u > b + 1 /\ u \in Nat
      BY <2>3, <2>5, <1>1, <1>2, SMTT(30)
    <3>2. Undone(g, st, u)
      BY <3>1
    <3>3. f[i] = UndoOne(g, u)
      BY <3>1, <1>2, <1>4
    <3> HIDE DEF g, u
    <3>4. StoreOK(g) /\ LogOK(g.log) /\ Len(g.log) \in Nat /\ Len(g.log) # 0
          /\ ~Ends(g.log[Len(g.log)]) /\ u = Frontier(g.log, Len(g.log))
          /\ b = Base(g.log, Len(g.log))
      BY <3>2, StoreFacts DEF Undone
    <3>5. Undoable(g.log, u)
      <4>1. Len(g.log) \in 1 .. Len(g.log)
        BY <3>4
      <4>2. g.log[u].type \in {"BEGIN", "UPDATE"} /\ (g.log[u].type = "BEGIN" <=> u = b + 1)
        BY <4>1, <3>4, ActiveFront
      <4> QED BY <4>2, <3>1, <3>4, <1>1, SMTT(30) DEF Undoable
    <3>6. Undone(f[i], g, u - 1)
      BY <3>3, <3>4, <3>5, UndoOneOK
    <3>7. Undone(f[i], st, u - 1)
      BY <3>2, <3>6, UndoneTrans
    <3> QED BY <3>1, <3>7, <2>3
  <2> QED BY <2>4, <2>5
<1>6. m \in 0 .. m /\ e - m = b + 1
  BY <1>1, <1>2
<1>7. Undone(f[m], st, e - m)
  BY <1>5, <1>6
<1> QED BY <1>3, <1>4, <1>6, <1>7

\* The TXN_END behind an undo that has come to its BEGIN.
LEMMA EndOK ==
  ASSUME NEW st, StoreOK(st), NEW tt, Undone(tt, st, Base(st.log, Len(st.log)) + 1),
         NEW k, Grown(tt.log, k, Mark("TXN_END", 0))
  PROVE  /\ LogOK(k) /\ Extends(k, st.log) /\ Len(k) = Len(tt.log) + 1
         /\ PagesShow(tt.pages, k, Len(k)) /\ Latest(tt.pages, k)
         /\ IndexOK(st.index, st.log) => IndexOK(tt.index, k)
         /\ Base(k, Len(k)) = Len(k)
         /\ HeapSet(k, Len(k)) = Settled(st.log, Len(st.log))
         /\ Settled(k, Len(k) - 1) = Settled(st.log, Len(st.log))
         /\ NoData(st.log) => NoData(k)
         /\ IsProcess(tt)
         /\ k[Len(k)].type = "TXN_END"
         /\ \A r \in Rids : Heap(k, Len(k), r) = Heap(st.log, Base(st.log, Len(st.log)), r)
<1> DEFINE l == tt.log
           n == Len(l)
           b == Base(l, n)
           rec == Mark("TXN_END", 0)
<1>0. /\ StoreOK(tt) /\ Extends(l, st.log) /\ n # 0 /\ ~Ends(l[n]) /\ b = Base(st.log, Len(st.log))
      /\ Frontier(l, n) = b + 1 /\ (IndexOK(st.index, st.log) => IndexOK(tt.index, l))
      /\ Grown(l, k, rec)
  BY DEF Undone
<1>1. LogOK(l) /\ n \in Nat /\ IsProcess(tt) /\ Len(st.log) \in Nat
  BY <1>0, StoreFacts
<1>2. n \in 1 .. n
  BY <1>0, <1>1
<1>3. /\ rec \in LogRecords /\ ~IsData(rec) /\ rec.type = "TXN_END" /\ rec.prev = 0 /\ Ends(rec)
  BY MarkRecord
<1> HIDE DEF l, n, b, rec
<1>4. /\ l[b + 1].type = "BEGIN" /\ b + 1 \in 1 .. n /\ b \in 0 .. n
      /\ \A r \in Rids : Heap(l, n, r) = Heap(l, b, r)
  <2>1. LET f == Frontier(l, n)
            c == Base(l, n)
        IN  /\ c \in 0 .. n - 1 /\ f \in c + 1 .. n
            /\ l[f].type = "BEGIN" <=> f = c + 1
            /\ \A r \in Rids : l[f].type = "BEGIN" => Heap(l, n, r) = Heap(l, c, r)
    BY <1>0, <1>1, <1>2, ActiveFront DEF n
  <2>2. b \in 0 .. n - 1 /\ b + 1 \in b + 1 .. n /\ b \in Nat
    BY <2>1, <1>1 DEF b
  <2> QED BY <2>1, <2>2, <1>0, <1>1 DEF b
<1>5. /\ Len(k) = n + 1 /\ Same(k, l, n) /\ k[n + 1] = rec
  BY <1>0, <1>1, <1>3, Longer DEF n
<1>6. RecordOK(k, Len(k))
  <2>1. k[n] = l[n] /\ k[b + 1] = l[b + 1] /\ Len(k) - 1 = n /\ k[Len(k)] = rec
    BY <1>1, <1>2, <1>4, <1>5 DEF Same
  <2>2. Frontier(k, n) = b + 1
    BY <2>1, <1>0 DEF Frontier
  <2>3. k[Len(k)].type = "TXN_END" /\ k[Len(k)].prev < Len(k)
    BY <2>1, <1>1, <1>3, <1>5
  <2> QED BY <2>1, <2>2, <2>3, <1>0, <1>4 DEF RecordOK
<1>7. /\ LogOK(k) /\ Extends(k, l) /\ PagesShow(tt.pages, k, Len(k)) /\ Latest(tt.pages, k)
      /\ \A ix : IndexOK(ix, l) => IndexOK(ix, k)
      /\ HeapSet(k, Len(k)) = HeapSet(l, n)
      /\ Base(k, Len(k)) = Len(k)
  BY <1>0, <1>3, <1>6, MarkAppended DEF l, n
<1>8. Extends(k, st.log)
  <2>1. Len(k) \in Nat
    BY <1>1, <1>5
  <2> QED BY <2>1, <1>0, <1>1, <1>7, ExtendsTrans DEF n
<1>9. HeapSet(l, n) = HeapSet(l, b)
  BY <1>4 DEF HeapSet
<1>10. HeapSet(l, b) = Settled(st.log, Len(st.log))
  <2>1. b \in 0 .. Len(st.log)
    BY <1>0, <1>1, BaseExists
  <2>2. HeapSet(l, b) = HeapSet(st.log, b)
    BY <2>1, <1>0, <1>1, SettledExtends
  <2> QED BY <2>2, <1>0 DEF Settled
<1>11. Settled(k, Len(k) - 1) = Settled(st.log, Len(st.log))
  <2>1. Len(k) - 1 = n
    BY <1>1, <1>5
  <2>2. Settled(k, n) = Settled(l, n)
    BY <1>1, <1>5, SettledSame
  <2> QED BY <2>1, <2>2, <1>10 DEF Settled, b
<1>12. NoData(st.log) => NoData(k)
  <2>1. NoData(st.log) => NoData(l)
    BY DEF Undone, l
  <2>2. \A i \in 1 .. Len(k) : i \in 1 .. n \/ i = n + 1
    BY <1>1, <1>5
  <2> QED BY <2>1, <2>2, <1>3, <1>5 DEF NoData, Same, n
<1>13. k[Len(k)].type = "TXN_END"
  BY <1>3, <1>5
<1>14. \A r \in Rids : Heap(k, Len(k), r) = Heap(st.log, Base(st.log, Len(st.log)), r)
  <2>1. \A r : Heap(k, Len(k), r) = Heap(l, n, r)
    BY <1>0, <1>3, <1>6, MarkAppended DEF l, n
  <2>2. b \in 0 .. Len(st.log)
    BY <1>0, <1>1, BaseExists
  <2>3. Same(l, st.log, b) /\ b \in Nat
    BY <2>2, <1>0, <1>1 DEF Extends, Same
  <2>4. \A r : Heap(l, b, r) = Heap(st.log, b, r)
    BY <2>3, HeapSame
  <2> QED BY <2>1, <2>4, <1>0, <1>4
<1> QED BY <1>0, <1>1, <1>5, <1>7, <1>8, <1>9, <1>10, <1>11, <1>12, <1>13, <1>14 DEF l, n

-----------------------------------------------------------------------------
(* abort.                                                                  *)

LEMMA AbortOK ==
  ASSUME NEW st, OpenOK(st), NEW tt, tt = TxnAbort(st)
  PROVE  /\ IdleOK(tt) /\ Extends(tt.log, st.log) /\ Len(tt.log) # 0
         /\ tt.log[Len(tt.log)].type = "TXN_END"
         /\ HeapSet(tt.log, Len(tt.log)) = Settled(st.log, Len(st.log))
         /\ Settled(tt.log, Len(tt.log) - 1) = Settled(st.log, Len(st.log))
         /\ Len(tt.pages) = Len(st.pages)
<1> DEFINE l == st.log
           rec == Mark("ABORT", st.last)
           k == Append(l, rec)
           ab == [st EXCEPT !.log = k]
           lsns == ToUndo(l, st.last)
           un == UndoAll(ab, lsns)
           fin == Append(un.log, Mark("TXN_END", 0))
<1>0. /\ IsProcess(st) /\ LogOK(l) /\ Len(l) \in Nat /\ IndexOK(st.index, l) /\ StoreOK(st)
      /\ st.last = Len(l) /\ st.last # 0 /\ st.last \in Nat /\ l[Len(l)].type \in {"BEGIN", "UPDATE"}
  BY OpenFacts DEF OpenOK
<1>1. tt = [un EXCEPT !.log = fin, !.last = 0]
  BY DEF TxnAbort
<1>2. un = UndoAll(ab, lsns) /\ lsns = ToUndo(l, st.last) /\ Grown(un.log, fin, Mark("TXN_END", 0))
  BY DEF Grown
<1>3. rec \in LogRecords /\ ~IsData(rec) /\ rec.type = "ABORT" /\ rec.prev = st.last /\ ~Ends(rec)
  BY <1>0, MarkRecord
<1>4. Grown(l, k, rec)
  BY DEF Grown
<1> HIDE DEF k, rec
<1>5. Process(ab, st.pages, st.data_page, st.index, k, st.last)
  BY <1>0 DEF Process, IsProcess
<1>6. /\ ab.pages = st.pages /\ ab.data_page = st.data_page /\ ab.index = st.index /\ ab.log = k
      /\ ab.last = st.last /\ IsProcess(ab)
  BY <1>5, ProcessParts
<1> HIDE DEF l, ab, lsns, un, fin
<1>7. Len(k) = Len(l) + 1 /\ Same(k, l, Len(l)) /\ k[Len(l) + 1] = rec
  BY <1>0, <1>3, <1>4, Longer
<1>8. k[Len(k)] = rec /\ Len(k) - 1 = Len(l) /\ k[Len(l)] = l[Len(l)] /\ Len(k) \in Nat /\ Len(k) # 0
  BY <1>0, <1>7 DEF Same
<1>9. RecordOK(k, Len(k))
  <2>1. k[Len(k)].prev < Len(k)
    BY <1>0, <1>3, <1>7, <1>8
  <2> QED BY <2>1, <1>0, <1>3, <1>8 DEF RecordOK
<1>10. /\ LogOK(k) /\ Extends(k, l) /\ PagesShow(st.pages, k, Len(k)) /\ Latest(st.pages, k)
       /\ \A ix : IndexOK(ix, l) => IndexOK(ix, k)
       /\ Base(k, Len(k)) = Base(l, Len(l))
  BY <1>0, <1>3, <1>4, <1>9, MarkAppended DEF l
<1>11. StoreOK(ab) /\ IndexOK(ab.index, ab.log)
  BY <1>0, <1>6, <1>10 DEF StoreOK
<1>12. lsns = Down(Frontier(k, Len(k)), Base(k, Len(k)))
  <2>1. Len(l) \in 1 .. Len(l) /\ ~Ends(l[Len(l)])
    BY <1>0 DEF Ends
  <2>2. lsns = Down(Frontier(l, Len(l)), Base(l, Len(l)))
    BY <2>1, <1>0, <1>2, ToUndoIs
  <2>3. Frontier(l, Len(l)) = Len(l) /\ Frontier(k, Len(k)) = Len(l)
    BY <1>0, <1>3, <1>8 DEF Frontier
  <2> QED BY <2>2, <2>3, <1>10
<1>13. Undone(un, ab, Base(k, Len(k)) + 1)
  <2>1. ~Ends(ab.log[Len(ab.log)]) /\ Len(ab.log) # 0
    BY <1>3, <1>6, <1>8
  <2>2. un = UndoAll(ab, Down(Frontier(ab.log, Len(ab.log)), Base(ab.log, Len(ab.log))))
    BY <1>2, <1>6, <1>12
  <2>3. Undone(un, ab, Base(ab.log, Len(ab.log)) + 1)
    BY <2>1, <2>2, <1>11, UndoAllOK
  <2> QED BY <2>3, <1>6
<1>14. /\ LogOK(fin) /\ Extends(fin, k) /\ Len(fin) = Len(un.log) + 1
       /\ PagesShow(un.pages, fin, Len(fin)) /\ Latest(un.pages, fin)
       /\ IndexOK(un.index, fin)
       /\ Base(fin, Len(fin)) = Len(fin)
       /\ HeapSet(fin, Len(fin)) = Settled(k, Len(k))
       /\ Settled(fin, Len(fin) - 1) = Settled(k, Len(k))
       /\ (NoData(k) => NoData(fin))
       /\ IsProcess(un) /\ fin[Len(fin)].type = "TXN_END"
  <2>1. Undone(un, ab, Base(ab.log, Len(ab.log)) + 1)
    BY <1>6, <1>13
  <2>2. /\ LogOK(fin) /\ Extends(fin, ab.log) /\ Len(fin) = Len(un.log) + 1
        /\ PagesShow(un.pages, fin, Len(fin)) /\ Latest(un.pages, fin)
        /\ IndexOK(un.index, fin)
        /\ Base(fin, Len(fin)) = Len(fin)
        /\ HeapSet(fin, Len(fin)) = Settled(ab.log, Len(ab.log))
        /\ Settled(fin, Len(fin) - 1) = Settled(ab.log, Len(ab.log))
        /\ (NoData(ab.log) => NoData(fin))
        /\ IsProcess(un) /\ fin[Len(fin)].type = "TXN_END"
    BY <2>1, <1>2, <1>11, EndOK
  <2> QED BY <2>2, <1>6
<1>15. /\ tt.pages = un.pages /\ tt.data_page = un.data_page /\ tt.index = un.index
       /\ tt.log = fin /\ tt.last = 0 /\ IsProcess(tt)
  <2>1. Process(un, un.pages, un.data_page, un.index, un.log, un.last)
    BY <1>14 DEF Process, IsProcess
  <2>2. Process(tt, un.pages, un.data_page, un.index, fin, 0)
    <3> DEFINE z == 0
    <3>1. tt = [un EXCEPT !.log = fin, !.last = z]
      BY <1>1
    <3> HIDE DEF z
    <3>2. Process(tt, un.pages, un.data_page, un.index, fin, z)
      BY ONLY <2>1, <3>1, ProcessLog
    <3> QED BY <3>2 DEF z
  <2> QED BY <2>2, ProcessParts
<1>16. un.data_page = st.data_page /\ Len(un.pages) = Len(st.pages)
  BY <1>6, <1>13 DEF Undone
<1>17. DataPageOK(tt)
  <2>1. st.data_page \in 0 .. IndexLeaf /\ (st.data_page = 0 => NoData(l))
    BY DEF OpenOK, DataPageOK, NoData, l
  <2>2. NoData(l) => NoData(k)
    <3>1. \A i \in 1 .. Len(k) : i \in 1 .. Len(l) \/ i = Len(l) + 1
      BY <1>0, <1>7
    <3> QED BY <3>1, <1>3, <1>7 DEF NoData, Same
  <2> QED BY <2>1, <2>2, <1>14, <1>15, <1>16 DEF DataPageOK, NoData
<1>18. Settled(k, Len(k)) = Settled(l, Len(l))
  <2>1. Base(l, Len(l)) \in 0 .. Len(l)
    BY <1>0, BaseExists
  <2>2. HeapSet(k, Base(l, Len(l))) = HeapSet(l, Base(l, Len(l)))
    BY <2>1, <1>0, <1>10, SettledExtends
  <2> QED BY <2>2, <1>10 DEF Settled
<1>19. Extends(fin, l)
  <2>1. Len(fin) \in Nat
    BY <1>14 DEF LogOK
  <2> QED BY <2>1, <1>0, <1>8, <1>10, <1>14, ExtendsTrans
<1>20. Len(fin) # 0
  <2>1. Len(un.log) \in Nat
    BY <1>13, StoreFacts DEF Undone
  <2> QED BY <2>1, <1>14
<1>21. IdleOK(tt)
  BY <1>14, <1>15, <1>17 DEF IdleOK, StoreOK
<1> QED BY <1>14, <1>15, <1>16, <1>18, <1>19, <1>20, <1>21 DEF l

-----------------------------------------------------------------------------
(* Redo.                                                                   *)

\* A record of data names a place of a page.
LEMMA DataRid ==
  ASSUME NEW l, LogOK(l), NEW i \in 1 .. Len(l), IsData(l[i])
  PROVE  l[i].rid \in Rids /\ l[i].new \in Cells
<1>1. RecordOK(l, i) /\ l[i].new \in Cells /\ Len(l) \in Nat
  BY LogRecord
<1>2. CASE l[i].type = "UPDATE"
  BY <1>1, <1>2 DEF RecordOK, UpdateOK
<1>3. CASE l[i].type = "CLR"
  <2> DEFINE u == Frontier(l, i - 1)
  <2>1. u \in 1 .. i - 1 /\ l[u].type = "UPDATE" /\ l[i].rid = l[u].rid
    BY <1>1, <1>3 DEF RecordOK, ClrOK
  <2> HIDE DEF u
  <2>2. u \in 1 .. Len(l)
    BY <2>1, <1>1
  <2>3. RecordOK(l, u)
    BY <2>2, LogRecord
  <2> QED BY <2>1, <2>3, <1>1 DEF RecordOK, UpdateOK
<1> QED BY <1>2, <1>3 DEF IsData

\* The pages have every data record's page, and the first n records are on them.
HasPages(ps, l) == \A i \in 1 .. Len(l) : IsData(l[i]) => l[i].rid[1] \in 1 .. Len(ps)

LatestTo(ps, l, n) ==
  \A i \in 1 .. n : IsData(l[i]) => i <= ps[l[i].rid[1]].lsn

LEMMA RedoOneOK ==
  ASSUME NEW l, LogOK(l), NEW ps, PagesShow(ps, l, Len(l)), HasPages(ps, l),
         NEW n \in 1 .. Len(l), LatestTo(ps, l, n - 1),
         NEW qs, qs = RedoOne(ps, l, n)
  PROVE  /\ PagesShow(qs, l, Len(l)) /\ HasPages(qs, l) /\ LatestTo(qs, l, n)
         /\ Len(qs) = Len(ps)
<1> DEFINE rec == l[n]
           r == rec.rid
           p == ps[r[1]]
           q == [RedoPage(p, rec) EXCEPT !.lsn = n]
<1>0. ps \in Seq(PageSet) /\ Len(ps) \in Nat /\ Len(l) \in Nat /\ n \in Nat /\ n # 0 /\ n - 1 \in Nat
      /\ Len(ps) <= MaxPages
  BY DEF PagesShow, LogOK
<1>1. CASE ~(IsData(rec) /\ p.lsn < n)
  <2>1. qs = ps
    BY <1>1 DEF RedoOne
  <2>2. ASSUME IsData(rec) PROVE n <= p.lsn
    <3>1. r[1] \in 1 .. Len(ps)
      BY <2>2 DEF HasPages
    <3>2. p.lsn \in Nat
      BY <3>1, <1>0, PageSlots
    <3> QED BY <3>2, <1>0, <1>1, <2>2
  <2>3. LatestTo(ps, l, n)
    <3>1. ASSUME NEW i \in 1 .. n, IsData(l[i]) PROVE i <= ps[l[i].rid[1]].lsn
      <4>1. CASE i = n
        BY <4>1, <3>1, <2>2
      <4>2. CASE i # n
        <5>1. i \in 1 .. n - 1
          BY <4>2, <1>0
        <5> QED BY <5>1, <3>1 DEF LatestTo
      <4> QED BY <4>1, <4>2
    <3> QED BY <3>1 DEF LatestTo
  <2> QED BY <2>1, <2>3
<1>2. CASE IsData(rec) /\ p.lsn < n
  <2>1. qs = [ps EXCEPT ![r[1]] = q]
    BY <1>2 DEF RedoOne
  <2>2. r \in Rids /\ rec.new \in Cells
    BY <1>2, DataRid
  <2>3. r[1] \in 1 .. Len(ps) /\ r[2] \in 1 .. SlotsPerPage /\ r = <<r[1], r[2]>>
    BY <2>2, <1>2, RidParts DEF HasPages
  <2>4. p \in PageSet /\ p.lsn \in Nat /\ Shows(p, r[1], l, Len(l))
    BY <2>3, <1>0, PageSlots DEF PagesShow
  <2>5. q = [(IF rec.new = <<>> THEN DeleteRecord(p, r[2]) ELSE SetSlot(p, r[2], rec.new))
               EXCEPT !.lsn = n]
    BY DEF RedoPage
  <2> HIDE DEF q
  <2>6. Written(q, p, r[2], rec.new, n)
    BY <2>2, <2>3, <2>4, <2>5, <1>0, CellWritten
  <2>7. /\ q \in PageSet /\ q.lsn = n
        /\ \A t \in 1 .. SlotsPerPage :
             ReadRecord(q, t) = IF t = r[2] THEN rec.new ELSE ReadRecord(p, t)
    BY <2>6 DEF Written
  <2>8. ASSUME NEW s \in 1 .. SlotsPerPage PROVE ReadRecord(q, s) = Heap(l, n, <<r[1], s>>)
    <3> DEFINE x == <<r[1], s>>
    <3>1. x = r <=> s = r[2]
      BY <2>2, RidParts
    <3>2. Heap(l, n, x) = IF Writes(l, n, x) THEN rec.new ELSE Heap(l, n - 1, x)
      BY <1>0, HeapStep
    <3>3. Writes(l, n, x) <=> x = r
      BY <1>2 DEF Writes
    <3>4. ReadRecord(p, s) = Heap(l, p.lsn, x)
      BY <2>4 DEF Shows
    <3>5. ASSUME NEW j \in p.lsn + 1 .. n - 1 PROVE ~Writes(l, j, x)
      <4>1. SUFFICES ASSUME Writes(l, j, x) PROVE FALSE
        OBVIOUS
      <4>2. IsData(l[j]) /\ l[j].rid[1] = r[1] /\ j \in 1 .. n - 1
        BY <4>1, <2>4, <1>0 DEF Writes
      <4>3. j <= p.lsn
        BY <4>2 DEF LatestTo
      <4> QED BY <4>3, <2>4, <1>0
    <3>6. Heap(l, n - 1, x) = Heap(l, p.lsn, x)
      BY <3>5, <2>4, <1>0, <1>2, HeapKeeps, SMTT(30)
    <3> HIDE DEF x
    <3>7. ReadRecord(q, s) = IF s = r[2] THEN rec.new ELSE ReadRecord(p, s)
      BY <2>7
    <3> QED BY <3>1, <3>2, <3>3, <3>4, <3>6, <3>7 DEF x
  <2>9. Shows(q, r[1], l, Len(l))
    BY <2>7, <2>8, <1>0 DEF Shows
  <2> HIDE DEF p, rec, r
  <2>10. /\ qs \in Seq(PageSet) /\ Len(qs) = Len(ps) /\ qs[r[1]] = q
         /\ \A i \in 1 .. Len(ps) : i # r[1] => qs[i] = ps[i]
    BY <2>1, <2>3, <2>7, <1>0
  <2>11. PagesShow(qs, l, Len(l))
    <3>1. \A i \in 1 .. Len(qs) : Shows(qs[i], i, l, Len(l))
      BY <2>9, <2>10 DEF PagesShow
    <3> QED BY <3>1, <2>10, <1>0 DEF PagesShow
  <2>12. LatestTo(qs, l, n)
    <3>1. ASSUME NEW i \in 1 .. n, IsData(l[i]) PROVE i <= qs[l[i].rid[1]].lsn
      <4>1. CASE l[i].rid[1] = r[1]
        BY <4>1, <2>7, <2>10, <1>0
      <4>2. CASE l[i].rid[1] # r[1]
        <5>1. i \in 1 .. n - 1 /\ i \in 1 .. Len(l)
          BY <4>2, <1>0 DEF r, rec
        <5>2. l[i].rid[1] \in 1 .. Len(ps) /\ i <= ps[l[i].rid[1]].lsn
          BY <5>1, <3>1 DEF LatestTo, HasPages
        <5> QED BY <5>2, <4>2, <2>10
      <4> QED BY <4>1, <4>2
    <3> QED BY <3>1 DEF LatestTo
  <2>13. HasPages(qs, l)
    BY <2>10 DEF HasPages
  <2> QED BY <2>10, <2>11, <2>12, <2>13
<1> QED BY <1>1, <1>2

IsRedo(f, ps, l, n) ==
  f = [i \in 0 .. n |-> IF i = 0 THEN ps ELSE RedoOne(f[i - 1], l, i)]

LEMMA RedoExists ==
  ASSUME NEW ps, NEW l, NEW n \in Nat
  PROVE  \E f : IsRedo(f, ps, l, n)
<1> DEFINE T == {m \in 0 .. n : ~\E f : IsRedo(f, ps, l, m)}
<1>1. T = {}
  <2>1. SUFFICES ASSUME T # {} PROVE FALSE
    OBVIOUS
  <2>2. T \in SUBSET Nat
    OBVIOUS
  <2>3. PICK m \in T : \A y \in T : m <= y
    <3> HIDE DEF T
    <3> QED BY <2>1, <2>2, LeastNat
  <2>4. CASE m = 0
    <3>1. IsRedo([i \in 0 .. 0 |-> ps], ps, l, 0)
      BY DEF IsRedo
    <3> QED BY <3>1, <2>3, <2>4
  <2>5. CASE m # 0
    <3>1. m - 1 \in 0 .. n /\ m - 1 \notin T
      BY <2>3, <2>5
    <3>2. PICK f : IsRedo(f, ps, l, m - 1)
      BY <3>1
    <3> DEFINE g == [i \in 0 .. m |-> IF i = m THEN RedoOne(f[m - 1], l, m) ELSE f[i]]
    <3>3. ASSUME NEW i \in 0 .. m
          PROVE  g[i] = IF i = 0 THEN ps ELSE RedoOne(g[i - 1], l, i)
      <4>1. CASE i = 0
        BY <4>1, <2>5, <3>2 DEF IsRedo
      <4>2. CASE i # 0
        <5>1. i - 1 \in 0 .. m /\ i - 1 # m
          BY <4>2, <2>3
        <5>2. g[i - 1] = f[i - 1]
          BY <5>1
        <5>3. CASE i = m
          BY <5>2, <5>3, <4>2
        <5>4. CASE i # m
          <6>1. i \in 0 .. m - 1
            BY <5>4, <2>3
          <6>2. f[i] = RedoOne(f[i - 1], l, i)
            BY <6>1, <3>2, <4>2 DEF IsRedo
          <6> QED BY <6>2, <5>2, <5>4, <4>2
        <5> QED BY <5>3, <5>4
      <4> QED BY <4>1, <4>2
    <3>4. IsRedo(g, ps, l, m)
      BY <3>3 DEF IsRedo
    <3> QED BY <3>4, <2>3
  <2> QED BY <2>4, <2>5
<1> QED BY <1>1

\* f holds the pages after each record that redo has passed.
RedoRun(f, ps, l, n) ==
  /\ RedoAll(ps, l, n) = f[n] /\ f[0] = ps
  /\ \A i \in 1 .. n : f[i] = RedoOne(f[i - 1], l, i)

LEMMA RedoAllIs ==
  ASSUME NEW ps, NEW l, NEW n \in Nat
  PROVE  \E f : RedoRun(f, ps, l, n)
<1> DEFINE f == CHOOSE g : IsRedo(g, ps, l, n)
<1>1. IsRedo(f, ps, l, n)
  BY RedoExists
<1>2. RedoAll(ps, l, n) = f[n]
  BY DEF RedoAll, IsRedo
<1> HIDE DEF f
<1>3. f[0] = ps
  BY <1>1 DEF IsRedo
<1>4. \A i \in 1 .. n : f[i] = RedoOne(f[i - 1], l, i)
  BY <1>1 DEF IsRedo
<1>5. RedoRun(f, ps, l, n)
  BY <1>2, <1>3, <1>4 DEF RedoRun
<1> QED BY <1>5

\* Redo brings the pages up to date.
LEMMA RedoAllOK ==
  ASSUME NEW l, LogOK(l), NEW ps, PagesShow(ps, l, Len(l)), HasPages(ps, l),
         NEW qs, qs = RedoAll(ps, l, Len(l))
  PROVE  PagesShow(qs, l, Len(l)) /\ Latest(qs, l) /\ Len(qs) = Len(ps)
<1> DEFINE n == Len(l)
<1>0. n \in Nat
  BY DEF LogOK
<1>r. PICK f : RedoRun(f, ps, l, n)
  BY <1>0, RedoAllIs
<1>1. /\ RedoAll(ps, l, n) = f[n] /\ f[0] = ps
      /\ \A i \in 1 .. n : f[i] = RedoOne(f[i - 1], l, i)
  BY <1>r DEF RedoRun
<1> DEFINE Good(i) == /\ PagesShow(f[i], l, n) /\ HasPages(f[i], l) /\ LatestTo(f[i], l, i)
                      /\ Len(f[i]) = Len(ps)
           T == {i \in 0 .. n : ~Good(i)}
<1>2. T = {}
  <2>1. SUFFICES ASSUME T # {} PROVE FALSE
    OBVIOUS
  <2>2. T \in SUBSET Nat
    OBVIOUS
  <2>3. PICK i \in T : \A y \in T : i <= y
    <3> HIDE DEF T
    <3> QED BY <2>1, <2>2, LeastNat
  <2>4. CASE i = 0
    <3>1. LatestTo(ps, l, 0)
      BY DEF LatestTo
    <3> QED BY <3>1, <2>3, <2>4, <1>1
  <2>5. CASE i # 0
    <3>1. i \in 1 .. n /\ i - 1 \in 0 .. n /\ i - 1 \notin T
      BY <2>3, <2>5, <1>0
    <3> DEFINE g == f[i - 1]
    <3>2. /\ PagesShow(g, l, n) /\ HasPages(g, l) /\ LatestTo(g, l, i - 1) /\ Len(g) = Len(ps)
      BY <3>1
    <3>3. f[i] = RedoOne(g, l, i)
      BY <3>1, <1>1
    <3> HIDE DEF g
    <3>4. Good(i)
      BY <3>1, <3>2, <3>3, RedoOneOK
    <3> QED BY <3>4, <2>3
  <2> QED BY <2>4, <2>5
<1>3. Good(n)
  BY <1>0, <1>2
<1>4. Latest(qs, l)
  BY <1>1, <1>3 DEF Latest, LatestTo, HasPages
<1> QED BY <1>1, <1>3, <1>4

\* Redo finds nothing to do on pages that are up to date.
LEMMA RedoNothing ==
  ASSUME NEW l, LogOK(l), NEW ps, PagesShow(ps, l, Len(l)), Latest(ps, l),
         NEW n \in Nat, n <= Len(l)
  PROVE  RedoAll(ps, l, n) = ps
<1>0. n \in Nat /\ Len(l) \in Nat /\ ps \in Seq(PageSet)
  BY DEF LogOK, PagesShow
<1>r. PICK f : RedoRun(f, ps, l, n)
  BY <1>0, RedoAllIs
<1>1. /\ RedoAll(ps, l, n) = f[n] /\ f[0] = ps
      /\ \A i \in 1 .. n : f[i] = RedoOne(f[i - 1], l, i)
  BY <1>r DEF RedoRun
<1> DEFINE T == {i \in 0 .. n : f[i] # ps}
<1>2. T = {}
  <2>1. SUFFICES ASSUME T # {} PROVE FALSE
    OBVIOUS
  <2>2. T \in SUBSET Nat
    OBVIOUS
  <2>3. PICK i \in T : \A y \in T : i <= y
    <3> HIDE DEF T
    <3> QED BY <2>1, <2>2, LeastNat
  <2>4. i # 0
    BY <2>3, <1>1
  <2>5. i \in 1 .. n /\ i \in 1 .. Len(l) /\ i - 1 \in 0 .. n /\ i - 1 \notin T
    BY <2>3, <2>4, <1>0
  <2>6. f[i] = RedoOne(ps, l, i)
    BY <2>5, <1>1
  <2>7. ~(IsData(l[i]) /\ ps[l[i].rid[1]].lsn < i)
    <3>1. SUFFICES ASSUME IsData(l[i]) PROVE ~(ps[l[i].rid[1]].lsn < i)
      OBVIOUS
    <3>2. l[i].rid[1] \in 1 .. Len(ps) /\ i <= ps[l[i].rid[1]].lsn
      BY <3>1, <2>5 DEF Latest
    <3>3. ps[l[i].rid[1]].lsn \in Nat
      BY <3>2, <1>0, PageSlots
    <3> QED BY <3>2, <3>3, <2>5
  <2>8. RedoOne(ps, l, i) = ps
    BY <2>7 DEF RedoOne
  <2> QED BY <2>3, <2>6, <2>8
<1>3. f[n] = ps
  BY <1>0, <1>2
<1> QED BY <1>1, <1>3

\* The file, and zeros for the pages that only the log names.
LEMMA LoadedOK ==
  ASSUME NEW l, LogOK(l), NEW is, PagesShow(is, l, Len(l)), NEW ps, ps = Loaded(is, l)
  PROVE  /\ PagesShow(ps, l, Len(l)) /\ HasPages(ps, l) /\ Len(is) <= Len(ps)
         /\ HasPages(is, l) => ps = is
<1> DEFINE D == DataPages(l) \cup {Len(is)}
           m == Max(D)
           zs == [p \in 1 .. m - Len(is) |-> ZeroPage]
<1>0. is \in Seq(PageSet) /\ Len(is) \in Nat /\ Len(is) <= MaxPages /\ Len(l) \in Nat /\ DOMAIN l = 1 .. Len(l)
  BY DEF PagesShow, LogOK
<1>1. DataPages(l) \subseteq 1 .. MaxPages
  <2>1. ASSUME NEW i \in DOMAIN l, IsData(l[i]) PROVE l[i].rid[1] \in 1 .. MaxPages
    <3>1. l[i].rid \in Rids
      BY <2>1, <1>0, DataRid
    <3> QED BY <3>1, RidParts
  <2> QED BY <2>1 DEF DataPages
<1>2. D \in SUBSET Nat /\ D # {} /\ MaxPages \in Nat /\ \A y \in D : y <= MaxPages
  BY <1>0, <1>1, Bounds
<1> HIDE DEF D
<1>3. m \in D /\ \A y \in D : y <= m
  BY <1>2, MaxIs
<1>4. m \in Nat /\ m <= MaxPages /\ Len(is) <= m
  BY <1>2, <1>3 DEF D
<1> HIDE DEF m
<1>5. zs \in Seq(PageSet) /\ Len(zs) = m - Len(is) /\ \A i \in 1 .. m - Len(is) : zs[i] = ZeroPage
  BY <1>0, <1>4, InitIsPage
<1>6. ps = is \o zs
  BY DEF Loaded, m, D
<1> HIDE DEF zs
<1>7. ps \in Seq(PageSet) /\ Len(ps) = m
      /\ \A i \in 1 .. m : ps[i] = IF i <= Len(is) THEN is[i] ELSE zs[i - Len(is)]
  BY <1>0, <1>4, <1>5, <1>6
<1>8. ASSUME NEW i \in 1 .. m PROVE Shows(ps[i], i, l, Len(l))
  <2>1. CASE i <= Len(is)
    <3>1. ps[i] = is[i] /\ i \in 1 .. Len(is)
      BY <2>1, <1>0, <1>7
    <3> QED BY <3>1 DEF PagesShow
  <2>2. CASE ~(i <= Len(is))
    <3>1. i - Len(is) \in 1 .. m - Len(is)
      BY <2>2, <1>0, <1>4
    <3>2. ps[i] = ZeroPage
      BY <3>1, <2>2, <1>5, <1>7
    <3>3. ZeroPage \in PageSet /\ ZeroPage.lsn = 0 /\ ZeroPage.slots = <<>>
      BY InitIsPage
    <3>4. \A s \in 1 .. SlotsPerPage : ReadRecord(ZeroPage, s) = <<>>
      BY <3>3 DEF ReadRecord
    <3>5. Shows(ZeroPage, i, l, Len(l))
      BY <3>3, <3>4, <1>0, HeapZero DEF Shows
    <3> QED BY <3>2, <3>5
  <2> QED BY <2>1, <2>2
<1>9. HasPages(ps, l)
  <2>1. ASSUME NEW i \in 1 .. Len(l), IsData(l[i]) PROVE l[i].rid[1] \in 1 .. Len(ps)
    <3>1. l[i].rid[1] \in DataPages(l)
      BY <2>1, <1>0 DEF DataPages
    <3> QED BY <3>1, <1>1, <1>3, <1>4, <1>7, Bounds DEF D
  <2> QED BY <2>1 DEF HasPages
<1>10. ASSUME HasPages(is, l) PROVE ps = is
  <2>1. \A y \in D : y <= Len(is)
    BY <1>0, <1>10 DEF D, DataPages, HasPages
  <2>2. m = Len(is)
    BY <2>1, <1>0, <1>3, <1>4
  <2> QED BY <2>2, <1>0, <1>7
<1> QED BY <1>4, <1>7, <1>8, <1>9, <1>10 DEF PagesShow

-----------------------------------------------------------------------------
(* The index that is built from the pages, and what get reads.             *)

\* A place that holds something is on a page the log names.
LEMMA HeldIsNamed ==
  ASSUME NEW l, LogOK(l), NEW n \in 0 .. Len(l), NEW r, Heap(l, n, r) # <<>>
  PROVE  r[1] \in DataPages(l)
<1>1. \E i \in 1 .. n : IsLast(l, n, r, i)
  BY DEF Heap
<1>2. PICK i \in 1 .. n : IsData(l[i]) /\ l[i].rid = r
  BY <1>1 DEF IsLast, Writes
<1>3. DOMAIN l = 1 .. Len(l) /\ Len(l) \in Nat
  BY DEF LogOK
<1>4. i \in DOMAIN l
  BY <1>2, <1>3
<1> QED BY <1>2, <1>4 DEF DataPages

\* What a slot that can be read holds.
LEMMA ReadIsSlot ==
  ASSUME NEW p, NEW s, ReadRecord(p, s) # <<>>
  PROVE  ReadRecord(p, s) = p.slots[s]
BY DEF ReadRecord

\* A rebuild that visits every page that holds a record gives the index.
LEMMA RebuildOK ==
  ASSUME NEW l, LogOK(l), NEW pages, PagesShow(pages, l, Len(l)), Latest(pages, l),
         NEW ps, ps \subseteq 1 .. Len(pages),
         \A r \in Rids : Heap(l, Len(l), r) # <<>> => r[1] \in ps,
         NEW ix, ix = Rebuild(pages, ps)
  PROVE  IndexOK(ix, l)
<1> DEFINE H(r) == Heap(l, Len(l), r)
           rids == {r \in ps \X (1 .. SlotsPerPage) : ReadRecord(pages[r[1]], r[2]) # <<>>}
           key(r) == pages[r[1]].slots[r[2]][1]
           before(r, q) == r[1] < q[1] \/ (r[1] = q[1] /\ r[2] < q[2])
           first(r, k) == key(r) = k /\ \A q \in rids \ {r} : key(q) = k => before(r, q)
<1>0. Len(l) \in Nat /\ Len(l) \in 0 .. Len(l) /\ Len(pages) \in Nat /\ Len(pages) <= MaxPages
      /\ MaxPages \in Nat
  BY Bounds DEF LogOK, PagesShow
<1>1. ASSUME NEW r \in ps \X (1 .. SlotsPerPage)
      PROVE  r \in Rids /\ ReadRecord(pages[r[1]], r[2]) = H(r)
  <2>0. r[1] \in ps /\ r[2] \in 1 .. SlotsPerPage /\ r = <<r[1], r[2]>>
    OBVIOUS
  <2>1. r[1] \in 1 .. Len(pages) /\ r[2] \in 1 .. SlotsPerPage /\ r = <<r[1], r[2]>>
    BY <2>0
  <2>2. r[1] \in 1 .. MaxPages
    BY <2>1, <1>0
  <2>3. <<r[1], r[2]>> \in Rids
    BY <2>1, <2>2, RidMade
  <2>4. ReadRecord(pages[r[1]], r[2]) = Heap(l, Len(l), <<r[1], r[2]>>)
    BY <2>1, PoolIsHeap
  <2> QED BY <2>1, <2>3, <2>4
<1>2. ASSUME NEW r \in rids PROVE r \in Rids /\ H(r) # <<>> /\ key(r) = H(r)[1]
  <2>1. ReadRecord(pages[r[1]], r[2]) = H(r) /\ r \in Rids /\ ReadRecord(pages[r[1]], r[2]) # <<>>
    BY <1>1, <1>2
  <2>2. ReadRecord(pages[r[1]], r[2]) = pages[r[1]].slots[r[2]]
    BY <2>1, ReadIsSlot
  <2> QED BY <2>1, <2>2
<1>3. ASSUME NEW r \in Rids, H(r) # <<>> PROVE r \in rids
  <2>1. r[1] \in ps /\ r[2] \in 1 .. SlotsPerPage /\ r = <<r[1], r[2]>>
    BY <1>3, RidParts
  <2>2. r \in ps \X (1 .. SlotsPerPage)
    BY <2>1
  <2> QED BY <2>2, <1>1, <1>3
<1>4. \A r, q \in Rids : H(r) # <<>> /\ H(q) # <<>> /\ H(r)[1] = H(q)[1] => r = q
  BY <1>0, UniqueKeys DEF Unique
<1>5. \A r, q \in rids : key(r) = key(q) => r = q
  <2> HIDE DEF rids, key, H
  <2> QED BY <1>2, <1>4
<1>6. ix = [k \in {key(r) : r \in rids} |-> CHOOSE r \in rids : first(r, k)]
  BY DEF Rebuild
<1>7. ASSUME NEW r \in rids PROVE (CHOOSE q \in rids : first(q, key(r))) = r
  <2>1. first(r, key(r))
    <3> HIDE DEF rids, key
    <3> QED BY <1>5
  <2> DEFINE c == CHOOSE q \in rids : first(q, key(r))
  <2>2. c \in rids /\ first(c, key(r))
    <3> HIDE DEF rids, first, key
    <3> QED BY <2>1, <1>7
  <2>3. key(c) = key(r)
    BY <2>2
  <2> HIDE DEF rids, key, c
  <2>4. c = r
    BY <2>2, <2>3, <1>5, <1>7
  <2> QED BY <2>4 DEF c
<1> HIDE DEF H, rids, key, first
<1>8. DOMAIN ix = {key(r) : r \in rids} /\ \A r \in rids : ix[key(r)] = r
  BY <1>6, <1>7
<1>9. \A k \in DOMAIN ix : ix[k] \in rids /\ key(ix[k]) = k
  BY <1>8
<1>10. ix \in [DOMAIN ix -> Rids]
  BY <1>2, <1>6, <1>8, <1>9
<1>11. \A k \in DOMAIN ix : H(ix[k]) # <<>> /\ H(ix[k])[1] = k
  BY <1>2, <1>9
<1>12. \A r \in Rids : H(r) # <<>> => H(r)[1] \in DOMAIN ix /\ ix[H(r)[1]] = r
  BY <1>2, <1>3, <1>8
<1> QED BY <1>10, <1>11, <1>12 DEF IndexOK, H

\* get reads the heap.
LEMMA ContentsIs ==
  ASSUME NEW st, StoreOK(st), IndexOK(st.index, st.log)
  PROVE  Contents(st) = HeapSet(st.log, Len(st.log))
<1> DEFINE l == st.log
           ix == st.index
           H(r) == Heap(l, Len(l), r)
           R(k) == ReadRecord(st.pages[ix[k][1]], ix[k][2])
           V(k) == IF R(k) = <<>> THEN "record not found" ELSE R(k)[2]
<1>1. ASSUME NEW k \in DOMAIN ix
      PROVE  ix[k] \in Rids /\ ix[k] # NoRid /\ <<k, V(k)>> = H(ix[k]) /\ H(ix[k]) # <<>>
  <2> DEFINE r == ix[k]
  <2>0. r = st.index[k]
    OBVIOUS
  <2> HIDE DEF r
  <2>1. /\ r \in Rids /\ r[1] # 0 /\ ReadRecord(st.pages[r[1]], r[2]) = H(r)
        /\ H(r) \in RecordSet /\ H(r)[1] = k
    BY <2>0, <1>1, KeyPlace
  <2>2. H(r) # <<>> /\ H(r) = <<H(r)[1], H(r)[2]>>
    BY <2>1, SlotKinds
  <2>3. r # NoRid
    BY <2>1 DEF NoRid
  <2>4. V(k) = H(r)[2]
    BY <2>1, <2>2 DEF r
  <2> QED BY <2>1, <2>2, <2>3, <2>4 DEF r
<1>2. \A r \in Rids : H(r) # <<>> => H(r)[1] \in DOMAIN ix /\ ix[H(r)[1]] = r
  BY DEF IndexOK
<1>3. Contents(st) = {<<k, V(k)>> : k \in {j \in DOMAIN ix : ix[j] # NoRid}}
  BY DEF Contents
<1>4. HeapSet(l, Len(l)) = {H(r) : r \in Rids} \ {<<>>}
  BY DEF HeapSet
<1> HIDE DEF l, ix, H, V, R
<1>5. Contents(st) \subseteq HeapSet(l, Len(l))
  BY <1>1, <1>3, <1>4
<1>6. HeapSet(l, Len(l)) \subseteq Contents(st)
  <2>1. ASSUME NEW r \in Rids, H(r) # <<>> PROVE H(r) \in Contents(st)
    <3> DEFINE k == H(r)[1]
    <3>1. k \in DOMAIN ix /\ ix[k] = r
      BY <1>2, <2>1
    <3> HIDE DEF k
    <3>2. ix[k] # NoRid /\ <<k, V(k)>> = H(r)
      BY <3>1, <1>1
    <3> QED BY <3>1, <3>2, <1>3
  <2> QED BY <2>1, <1>4
<1> QED BY <1>5, <1>6 DEF l

-----------------------------------------------------------------------------
(* Recovery.                                                               *)

\* Undo of nothing.
LEMMA UndoNothing ==
  ASSUME NEW st, NEW lsns, lsns = <<>>
  PROVE  UndoAll(st, lsns) = st
<1>1. Len(lsns) = 0
  OBVIOUS
<1>2. Len(lsns) \in Nat
  BY <1>1
<1>3. PICK f : UndoRun(f, st, lsns)
  BY ONLY <1>2, UndoAllIs
<1>4. UndoAll(st, lsns) = f[Len(lsns)] /\ f[0] = st
  BY <1>3 DEF UndoRun
<1> QED BY ONLY <1>1, <1>4

LEMMA IdleFacts ==
  ASSUME NEW st, IdleOK(st)
  PROVE  /\ StoreOK(st) /\ IsProcess(st) /\ LogOK(st.log) /\ st.log \in Seq(LogRecords)
         /\ Len(st.log) \in Nat
         /\ st.pages \in Seq(PageSet) /\ Len(st.pages) \in Nat /\ Len(st.pages) <= MaxPages
         /\ PagesShow(st.pages, st.log, Len(st.log)) /\ Latest(st.pages, st.log)
         /\ IndexOK(st.index, st.log) /\ DataPageOK(st)
         /\ st.last = 0 /\ Base(st.log, Len(st.log)) = Len(st.log)
         /\ Len(st.log) # 0 => Ends(st.log[Len(st.log)])
<1>1. StoreOK(st) /\ IndexOK(st.index, st.log) /\ DataPageOK(st) /\ st.last = 0
      /\ Base(st.log, Len(st.log)) = Len(st.log)
  BY DEF IdleOK
<1>2. /\ IsProcess(st) /\ LogOK(st.log) /\ st.log \in Seq(LogRecords) /\ Len(st.log) \in Nat
      /\ st.pages \in Seq(PageSet) /\ Len(st.pages) \in Nat /\ Len(st.pages) <= MaxPages
      /\ PagesShow(st.pages, st.log, Len(st.log)) /\ Latest(st.pages, st.log)
  BY <1>1, StoreFacts
<1>3. Len(st.log) # 0 => Ends(st.log[Len(st.log)])
  BY <1>1, <1>2, BaseExists DEF IsBase
<1> QED BY <1>1, <1>2, <1>3

\* The recover command with no open transaction: nothing to redo or to undo.
\* A TXN_END that is not durable makes its transaction a loser, whose undo
\* finds itself at the BEGIN and writes another TXN_END.
LEMMA RecoverIdle ==
  ASSUME NEW st, IdleOK(st), NEW n \in Nat, FlushedToEnd(st.log, n),
         NEW tt, tt = RecoverPages(st, n)
  PROVE  \/ tt = st
         \/ Len(st.log) # 0 /\ tt = [st EXCEPT !.log = Append(st.log, Mark("TXN_END", 0))]
<1> DEFINE l == st.log
           redone == [st EXCEPT !.pages = RedoAll(st.pages, l, n)]
           loser == n # 0 /\ l[n].type \notin {"COMMIT", "TXN_END"}
           undone == UndoAll(redone, ToUndo(l, n))
<1>0. /\ IsProcess(st) /\ LogOK(l) /\ Len(l) \in Nat /\ PagesShow(st.pages, l, Len(l))
      /\ Latest(st.pages, l) /\ (Len(l) # 0 => Ends(l[Len(l)]))
  BY IdleFacts
<1>1. n <= Len(l)
  BY <1>0 DEF FlushedToEnd
<1>2. redone = st
  <2>1. RedoAll(st.pages, l, n) = st.pages
    BY <1>0, <1>1, RedoNothing
  <2> QED BY <2>1, <1>0 DEF IsProcess
<1>3. tt = IF loser THEN [undone EXCEPT !.log = Append(@, Mark("TXN_END", 0))] ELSE redone
  BY DEF RecoverPages
<1>4. ASSUME loser PROVE undone = st /\ Len(l) # 0
  <2>1. n # Len(l)
    BY <1>0, <1>4 DEF Ends
  <2>2. Len(l) # 0 /\ n = Len(l) - 1 /\ l[Len(l)].type = "TXN_END"
    BY <2>1 DEF FlushedToEnd
  <2>3. Len(l) \in 1 .. Len(l) /\ n \in 1 .. Len(l) /\ ~Ends(l[n])
    <3>1. ~Ends(l[n]) /\ n # 0
      BY <1>4 DEF Ends
    <3>2. Len(l) \in 1 .. Len(l) /\ n \in 1 .. Len(l)
      <4> DEFINE m == Len(l)
      <4>1. m \in Nat /\ m # 0 /\ n <= m /\ n \in Nat
        BY <2>2, <1>0, <1>1
      <4> HIDE DEF m
      <4>2. m \in 1 .. m /\ n \in 1 .. m
        BY ONLY <4>1, <3>1
      <4> QED BY <4>2 DEF m
    <3> QED BY <3>1, <3>2
  <2>4. RecordOK(l, Len(l))
    BY <2>3, <1>0 DEF LogOK
  <2>5. l[Frontier(l, n)].type = "BEGIN"
    BY <2>2, <2>3, <2>4, <1>0 DEF RecordOK
  <2>6. LET f == Frontier(l, n)
            b == Base(l, n)
        IN  /\ b \in 0 .. n - 1 /\ f \in b + 1 .. n
            /\ l[f].type = "BEGIN" <=> f = b + 1
    BY <2>3, <1>0, ActiveFront
  <2>7. Frontier(l, n) = Base(l, n) + 1 /\ Base(l, n) \in Nat
    BY <2>5, <2>6
  <2>8. Down(Frontier(l, n), Base(l, n)) = <<>>
    <3> DEFINE b == Base(l, n)
               f == Frontier(l, n)
    <3>1. b \in Nat /\ f \in Nat /\ b < f /\ f = b + 1
      BY <2>7
    <3> HIDE DEF b, f
    <3>2. Down(f, b) = <<>>
      BY <3>1, DownFacts
    <3> QED BY <3>2 DEF b, f
  <2>9. ToUndo(l, n) = <<>>
    BY <2>3, <2>8, <1>0, ToUndoIs
  <2>10. undone = redone
    <3> DEFINE e == <<>>
               r == redone
    <3>1. ToUndo(l, n) = e
      BY <2>9
    <3>2. UndoAll(r, e) = r
      <4> HIDE DEF r
      <4> QED BY UndoNothing
    <3> HIDE DEF e
    <3> QED BY <3>1, <3>2
  <2> QED BY <2>2, <2>10, <1>2
<1> HIDE DEF redone, undone
<1>5. CASE loser
  <2>1. tt = [undone EXCEPT !.log = Append(@, Mark("TXN_END", 0))]
    BY <1>3, <1>5
  <2>2. tt = [st EXCEPT !.log = Append(st.log, Mark("TXN_END", 0))]
    BY <2>1, <1>4, <1>5
  <2> QED BY <2>2, <1>4, <1>5
<1>6. CASE ~loser
  BY <1>2, <1>3, <1>6
<1> QED BY <1>5, <1>6

\* The process that the recover command leaves.
Reindexed(tt, rp) ==
  tt = [rp EXCEPT !.index = Rebuild(rp.pages, DOMAIN rp.pages), !.data_page = IndexLeaf]

LEMMA RecoverCmdOK ==
  ASSUME NEW st, IdleOK(st), NEW n \in Nat, FlushedToEnd(st.log, n),
         NEW rp, rp = RecoverPages(st, n),
         NEW tt, Reindexed(tt, rp)
  PROVE  /\ IdleOK(tt) /\ Extends(tt.log, st.log) /\ tt.log = rp.log
         /\ tt.pages = st.pages /\ rp.pages = st.pages
         /\ HeapSet(tt.log, Len(tt.log)) = HeapSet(st.log, Len(st.log))
<1> DEFINE l == st.log
           k == rp.log
<1>0. /\ IsProcess(st) /\ LogOK(l) /\ Len(l) \in Nat /\ PagesShow(st.pages, l, Len(l))
      /\ Latest(st.pages, l) /\ StoreOK(st) /\ st.last = 0 /\ Base(l, Len(l)) = Len(l)
      /\ (Len(l) # 0 => Ends(l[Len(l)])) /\ Len(st.pages) \in Nat
      /\ DOMAIN st.pages = 1 .. Len(st.pages)
  BY IdleFacts
<1>1. /\ Process(rp, st.pages, st.data_page, st.index, k, 0)
      /\ LogOK(k) /\ Len(k) \in Nat /\ Extends(k, l)
      /\ PagesShow(st.pages, k, Len(k)) /\ Latest(st.pages, k)
      /\ HeapSet(k, Len(k)) = HeapSet(l, Len(l))
      /\ Base(k, Len(k)) = Len(k)
  <2>1. CASE rp = st
    <3>1. Extends(l, l)
      BY <1>0 DEF Extends, Same
    <3> QED BY <3>1, <2>1, <1>0 DEF Process, IsProcess
  <2>2. CASE Len(l) # 0 /\ rp = [st EXCEPT !.log = Append(st.log, Mark("TXN_END", 0))]
    <3> DEFINE rec == Mark("TXN_END", 0)
               j == Append(l, rec)
    <3>1. Process(rp, st.pages, st.data_page, st.index, j, 0)
      BY <2>2, <1>0 DEF Process, IsProcess
    <3>2. rp.log = j
      <4> HIDE DEF j
      <4> QED BY <3>1 DEF Process
    <3>3. Grown(l, j, rec)
      BY DEF Grown
    <3>4. rec \in LogRecords /\ ~IsData(rec) /\ rec.type = "TXN_END" /\ rec.prev = 0 /\ Ends(rec)
      BY MarkRecord
    <3> HIDE DEF rec, j
    <3>5. Len(j) = Len(l) + 1 /\ Same(j, l, Len(l)) /\ j[Len(l) + 1] = rec
      BY <3>3, <3>4, <1>0, Longer
    <3>6. RecordOK(j, Len(j))
      <4>1. j[Len(l)] = l[Len(l)] /\ Len(j) - 1 = Len(l) /\ j[Len(j)] = rec /\ Ends(l[Len(l)])
        BY <3>5, <2>2, <1>0 DEF Same
      <4>2. j[Len(j)].type = "TXN_END" /\ j[Len(j)].prev < Len(j)
        BY <4>1, <3>4, <3>5, <1>0
      <4> QED BY <4>1, <4>2, <2>2 DEF RecordOK
    <3>7. /\ LogOK(j) /\ Extends(j, l) /\ PagesShow(st.pages, j, Len(j)) /\ Latest(st.pages, j)
          /\ HeapSet(j, Len(j)) = HeapSet(l, Len(l))
          /\ Base(j, Len(j)) = Len(j)
      BY <3>3, <3>4, <3>6, <1>0, MarkAppended
    <3>8. Len(j) \in Nat
      BY <3>5, <1>0
    <3> QED BY <3>1, <3>2, <3>7, <3>8
  <2> QED BY <2>1, <2>2, RecoverIdle
<1> HIDE DEF k
<1> DEFINE ix == Rebuild(rp.pages, DOMAIN rp.pages)
<1>2. rp.pages = st.pages /\ IsProcess(rp)
  BY <1>1, ProcessParts
<1>3. ix = Rebuild(st.pages, 1 .. Len(st.pages))
  BY <1>0, <1>2
<1>4. IndexOK(ix, k)
  <2>1. ASSUME NEW r \in Rids, Heap(k, Len(k), r) # <<>> PROVE r[1] \in 1 .. Len(st.pages)
    <3>1. Len(k) \in 0 .. Len(k)
      BY <1>1
    <3> QED BY <3>1, <2>1, <1>1, NoPageNoRecord
  <2> DEFINE ps == 1 .. Len(st.pages)
  <2>2. ps \subseteq 1 .. Len(st.pages) /\ ix = Rebuild(st.pages, ps)
        /\ \A r \in Rids : Heap(k, Len(k), r) # <<>> => r[1] \in ps
    BY <2>1, <1>3
  <2> HIDE DEF ps, ix
  <2> QED BY ONLY <2>2, <1>1, RebuildOK
<1>a. tt = [rp EXCEPT !.index = ix, !.data_page = IndexLeaf]
  BY DEF Reindexed
<1> HIDE DEF ix
<1>5. Process(tt, st.pages, IndexLeaf, ix, k, 0)
  BY ONLY <1>1, <1>a DEF Process
<1>6. /\ tt.pages = st.pages /\ tt.data_page = IndexLeaf /\ tt.index = ix /\ tt.log = k
      /\ tt.last = 0 /\ IsProcess(tt)
  <2> DEFINE z == 0
             d == IndexLeaf
  <2>1. Process(tt, st.pages, d, ix, k, z)
    BY <1>5
  <2> HIDE DEF z, d
  <2>2. /\ tt.pages = st.pages /\ tt.data_page = d /\ tt.index = ix /\ tt.log = k
        /\ tt.last = z /\ IsProcess(tt)
    BY ONLY <2>1, ProcessParts
  <2> QED BY <2>2 DEF z, d
<1>7. DataPageOK(tt)
  BY <1>6, Bounds DEF DataPageOK, IndexLeaf
<1>8. IdleOK(tt)
  BY <1>1, <1>4, <1>6, <1>7 DEF IdleOK, StoreOK
<1> QED BY <1>1, <1>2, <1>6, <1>8 DEF k

\* What recovery at a start leaves, the index aside.
Recovered(rp, ps, l) ==
  /\ IsProcess(rp) /\ rp.last = 0
  /\ LogOK(rp.log) /\ Extends(rp.log, l)
  /\ PagesShow(rp.pages, rp.log, Len(rp.log)) /\ Latest(rp.pages, rp.log)
  /\ Len(rp.pages) = Len(ps)
  /\ Base(rp.log, Len(rp.log)) = Len(rp.log)
  /\ HeapSet(rp.log, Len(rp.log)) = Settled(l, Len(l))
  /\ \A r \in Rids : Heap(rp.log, Len(rp.log), r) = Heap(l, Base(l, Len(l)), r)
  /\ NoData(l) => NoData(rp.log)
  /\ Latest(ps, l) /\ Base(l, Len(l)) = Len(l) => rp.pages = ps /\ rp.log = l

LEMMA RecoveredOK ==
  ASSUME NEW l, LogOK(l), Len(l) # 0, NEW ps, PagesShow(ps, l, Len(l)), HasPages(ps, l),
         NEW found, Process(found, ps, 0, <<>>, l, 0),
         NEW rp, rp = RecoverPages(found, Len(l))
  PROVE  Recovered(rp, ps, l)
<1> DEFINE n == Len(l)
           qs == RedoAll(ps, l, n)
           redone == [found EXCEPT !.pages = RedoAll(found.pages, found.log, n)]
           loser == n # 0 /\ found.log[n].type \notin {"COMMIT", "TXN_END"}
           undone == UndoAll(redone, ToUndo(found.log, n))
           z == 0
           ix == <<>>
<1>0. n \in Nat /\ n \in 1 .. n /\ n # 0
  BY DEF LogOK
<1>1. Process(found, ps, z, ix, l, z)
  OBVIOUS
<1>2. rp = IF loser THEN [undone EXCEPT !.log = Append(@, Mark("TXN_END", 0))] ELSE redone
  BY DEF RecoverPages
<1> HIDE DEF z, ix, redone, undone
<1>3. found.pages = ps /\ found.log = l
  BY <1>1, ProcessParts
<1>4. redone = [found EXCEPT !.pages = qs]
  BY <1>3 DEF redone
<1>5. PagesShow(qs, l, n) /\ Latest(qs, l) /\ Len(qs) = Len(ps)
  BY RedoAllOK
<1>6. Latest(ps, l) => qs = ps
  BY <1>0, RedoNothing
<1> HIDE DEF qs
<1>7. Process(redone, qs, z, ix, l, z)
  BY ONLY <1>1, <1>4, ProcessPages
<1>8. /\ redone.pages = qs /\ redone.log = l /\ redone.last = z /\ IsProcess(redone)
  BY ONLY <1>7, ProcessParts
<1>9. StoreOK(redone)
  BY <1>5, <1>8 DEF StoreOK
<1>10. CASE Ends(l[n])
  <2>1. rp = redone
    BY <1>2, <1>3, <1>10 DEF Ends
  <2>2. Base(l, n) = n
    BY <1>0, <1>10, BaseStep
  <2>3. Extends(l, l)
    BY <1>0 DEF Extends, Same
  <2>4. HeapSet(l, n) = Settled(l, n)
    BY <2>2 DEF Settled
  <2> QED BY <2>1, <2>2, <2>3, <2>4, <1>5, <1>6, <1>8 DEF Recovered, z
<1>11. CASE ~Ends(l[n])
  <2> DEFINE fin == Append(undone.log, Mark("TXN_END", 0))
  <2>1. rp = [undone EXCEPT !.log = fin]
    BY <1>0, <1>2, <1>3, <1>11 DEF Ends
  <2>2. ToUndo(l, n) = Down(Frontier(l, n), Base(l, n))
    BY <1>0, <1>11, ToUndoIs
  <2>3. Undone(undone, redone, Base(l, n) + 1)
    <3>1. Len(redone.log) # 0 /\ ~Ends(redone.log[Len(redone.log)])
      BY <1>0, <1>8, <1>11
    <3>2. undone = UndoAll(redone, Down(Frontier(redone.log, Len(redone.log)),
                                        Base(redone.log, Len(redone.log))))
      BY <2>2, <1>3, <1>8 DEF undone
    <3>3. Undone(undone, redone, Base(redone.log, Len(redone.log)) + 1)
      BY <3>1, <3>2, <1>9, UndoAllOK
    <3> QED BY <3>3, <1>8
  <2>4. Grown(undone.log, fin, Mark("TXN_END", 0))
    BY DEF Grown
  <2> HIDE DEF fin
  <2>5. /\ LogOK(fin) /\ Extends(fin, l)
        /\ PagesShow(undone.pages, fin, Len(fin)) /\ Latest(undone.pages, fin)
        /\ Base(fin, Len(fin)) = Len(fin)
        /\ HeapSet(fin, Len(fin)) = Settled(l, n)
        /\ (NoData(l) => NoData(fin))
        /\ IsProcess(undone)
        /\ \A r \in Rids : Heap(fin, Len(fin), r) = Heap(l, Base(l, n), r)
    <3>1. Undone(undone, redone, Base(redone.log, Len(redone.log)) + 1)
      BY <2>3, <1>8
    <3>2. /\ LogOK(fin) /\ Extends(fin, redone.log)
          /\ PagesShow(undone.pages, fin, Len(fin)) /\ Latest(undone.pages, fin)
          /\ Base(fin, Len(fin)) = Len(fin)
          /\ HeapSet(fin, Len(fin)) = Settled(redone.log, Len(redone.log))
          /\ (NoData(redone.log) => NoData(fin))
          /\ IsProcess(undone)
          /\ \A r \in Rids : Heap(fin, Len(fin), r)
                               = Heap(redone.log, Base(redone.log, Len(redone.log)), r)
      BY <3>1, <2>4, <1>9, EndOK
    <3> QED BY <3>2, <1>8
  <2>6. /\ rp.pages = undone.pages /\ rp.log = fin /\ rp.last = undone.last /\ IsProcess(rp)
    <3>1. Process(rp, undone.pages, undone.data_page, undone.index, fin, undone.last)
      BY <2>1, <2>5 DEF Process, IsProcess
    <3> QED BY <3>1, ProcessParts
  <2>7. undone.last = 0 /\ Len(undone.pages) = Len(ps)
    BY <2>3, <1>5, <1>8 DEF Undone, z
  <2>8. Base(l, n) # n
    BY <1>0, <1>11, BaseExists DEF IsBase
  <2> QED BY <2>5, <2>6, <2>7, <2>8 DEF Recovered
<1> QED BY <1>10, <1>11

\* The process after a start that finds a log.
LEMMA StartedOK ==
  ASSUME NEW l, LogOK(l), l # <<>>, NEW is, PagesShow(is, l, Len(l)), NEW tt, tt = Started(is, l)
  PROVE  /\ IdleOK(tt) /\ Extends(tt.log, l)
         /\ HeapSet(tt.log, Len(tt.log)) = Settled(l, Len(l))
         /\ Len(is) <= Len(tt.pages)
         /\ Latest(is, l) /\ Base(l, Len(l)) = Len(l) => tt.pages = is /\ tt.log = l
<1> DEFINE ps == Loaded(is, l)
           found == [Stopped(l) EXCEPT !.pages = ps]
           rp == RecoverPages(found, Len(l))
           recovered == [rp EXCEPT !.index = <<>>]
           ix == Rebuild(recovered.pages, DataPages(l))
           d == Max(DataPages(l) \cup {0})
<1>0. Len(l) \in Nat /\ Len(l) # 0 /\ DOMAIN l = 1 .. Len(l)
  BY DEF LogOK
<1>1. tt = [recovered EXCEPT !.index = ix, !.data_page = d]
  BY DEF Started
<1>2. PagesShow(ps, l, Len(l)) /\ HasPages(ps, l) /\ Len(is) <= Len(ps)
      /\ (HasPages(is, l) => ps = is)
  BY LoadedOK
<1>3. Process(found, ps, 0, <<>>, l, 0)
  <2> HIDE DEF ps
  <2> QED BY DEF Stopped, Process
<1> HIDE DEF ps, found, ix, d
<1>4. Recovered(rp, ps, l)
  BY <1>0, <1>2, <1>3, RecoveredOK
<1> HIDE DEF rp
<1>5. Process(recovered, rp.pages, rp.data_page, <<>>, rp.log, 0)
  BY <1>4 DEF Recovered, IsProcess, Process
<1>6. recovered.pages = rp.pages
  BY <1>5 DEF Process
<1>7. Process(tt, rp.pages, d, ix, rp.log, 0)
  <2> HIDE DEF recovered
  <2> QED BY ONLY <1>1, <1>5 DEF Process
<1>8. /\ tt.pages = rp.pages /\ tt.data_page = d /\ tt.index = ix /\ tt.log = rp.log
      /\ tt.last = 0 /\ IsProcess(tt)
  BY <1>7 DEF Process, IsProcess
<1>9. DataPages(l) \subseteq 1 .. Len(ps) /\ Len(ps) \in Nat /\ Len(ps) <= MaxPages
  BY <1>0, <1>2 DEF DataPages, HasPages, PagesShow
<1>10. IndexOK(ix, rp.log)
  <2>1. ASSUME NEW r \in Rids, Heap(rp.log, Len(rp.log), r) # <<>> PROVE r[1] \in DataPages(l)
    <3>1. Heap(l, Base(l, Len(l)), r) # <<>>
      BY <2>1, <1>4 DEF Recovered
    <3>2. Base(l, Len(l)) \in 0 .. Len(l)
      BY <1>0, BaseExists
    <3> QED BY <3>1, <3>2, HeldIsNamed
  <2>2. ix = Rebuild(rp.pages, DataPages(l))
    BY <1>6 DEF ix
  <2>3. DataPages(l) \subseteq 1 .. Len(rp.pages)
    BY <1>4, <1>9 DEF Recovered
  <2>4. LogOK(rp.log) /\ PagesShow(rp.pages, rp.log, Len(rp.log)) /\ Latest(rp.pages, rp.log)
    BY <1>4 DEF Recovered
  <2> QED BY ONLY <2>1, <2>2, <2>3, <2>4, RebuildOK
<1>11. DataPageOK(tt)
  <2> DEFINE D == DataPages(l) \cup {0}
  <2>1. D \in SUBSET Nat /\ D # {} /\ MaxPages \in Nat /\ \A y \in D : y <= MaxPages
    BY <1>9, Bounds
  <2>2. d = Max(D)
    BY DEF d
  <2> HIDE DEF D
  <2>3. d \in D /\ \A y \in D : y <= d
    BY <2>1, <2>2, MaxIs
  <2>4. d \in 0 .. IndexLeaf
    BY <2>1, <2>3 DEF IndexLeaf
  <2>5. ASSUME d = 0 PROVE NoData(rp.log)
    <3>1. DataPages(l) = {}
      BY <2>3, <2>5, <1>9 DEF D
    <3>2. NoData(l)
      BY <3>1, <1>0 DEF DataPages, NoData
    <3> QED BY <3>2, <1>4 DEF Recovered
  <2> QED BY <2>4, <2>5, <1>8 DEF DataPageOK, NoData
<1>12. IdleOK(tt)
  BY <1>4, <1>8, <1>10, <1>11 DEF IdleOK, StoreOK, Recovered
<1>13. ASSUME Latest(is, l), Base(l, Len(l)) = Len(l) PROVE tt.pages = is /\ tt.log = l
  <2>1. HasPages(is, l)
    BY <1>13 DEF Latest, HasPages
  <2>2. ps = is
    BY <2>1, <1>2
  <2> QED BY <2>2, <1>4, <1>8, <1>13 DEF Recovered
<1>14. Extends(tt.log, l) /\ HeapSet(tt.log, Len(tt.log)) = Settled(l, Len(l))
       /\ Len(is) <= Len(tt.pages)
  BY <1>2, <1>4, <1>8 DEF Recovered
<1> QED BY <1>12, <1>13, <1>14

\* The empty log.
LEMMA EmptyLog ==
  /\ LogOK(<<>>) /\ Len(<<>>) = 0 /\ DataPages(<<>>) = {}
  /\ \A n \in Nat : Same(<<>>, <<>>, n)
  /\ HeapSet(<<>>, 0) = {} /\ Base(<<>>, 0) = 0
<1>1. <<>> \in Seq(LogRecords) /\ Len(<<>>) = 0 /\ DOMAIN <<>> = {}
  OBVIOUS
<1>2. LogOK(<<>>)
  BY <1>1 DEF LogOK
<1>3. DataPages(<<>>) = {}
  BY <1>1 DEF DataPages
<1>4. HeapSet(<<>>, 0) = {}
  BY HeapZero DEF HeapSet
<1>5. \A n \in Nat : Same(<<>>, <<>>, n)
  BY DEF Same
<1> QED BY <1>1, <1>2, <1>3, <1>4, <1>5, BaseZero

LEMMA StartedFresh ==
  ASSUME NEW is, NEW tt, tt = Started(is, <<>>)
  PROVE  Process(tt, Append(Loaded(is, <<>>), InitPage), Len(Loaded(is, <<>>)) + 1, <<>>, <<>>, 0)
<1> DEFINE ps == Loaded(is, <<>>)
           found == [Stopped(<<>>) EXCEPT !.pages = ps]
<1>1. tt = [found EXCEPT !.pages = Append(@, InitPage), !.data_page = Len(found.pages) + 1]
  BY DEF Started
<1> HIDE DEF ps
<1>2. found = [pages |-> ps, data_page |-> 0, index |-> <<>>, log |-> <<>>, last |-> 0]
  BY DEF Stopped
<1> HIDE DEF found
<1>3. found.pages = ps
  BY <1>2
<1>4. tt = [pages |-> Append(ps, InitPage), data_page |-> Len(ps) + 1, index |-> <<>>,
            log |-> <<>>, last |-> 0]
  BY ONLY <1>1, <1>2, <1>3
<1> QED BY <1>4 DEF Process, ps

\* The process after a start that finds no log.
LEMMA StartedEmpty ==
  ASSUME NEW l, l = <<>>, NEW is, PagesShow(is, l, Len(l)), Len(is) < MaxPages,
         NEW tt, tt = Started(is, l)
  PROVE  /\ IdleOK(tt) /\ tt.log = l /\ HeapSet(tt.log, Len(tt.log)) = {}
         /\ Len(is) <= Len(tt.pages)
<1>0. LogOK(l) /\ Len(l) = 0
  BY EmptyLog
<1>1. HasPages(is, l) /\ Latest(is, l)
  BY <1>0 DEF HasPages, Latest
<1>2. Loaded(is, l) = is
  BY <1>0, <1>1, LoadedOK
<1> DEFINE qs == Append(is, InitPage)
<1>3. Process(tt, qs, Len(is) + 1, <<>>, l, 0)
  BY <1>2, StartedFresh
<1>4. PagesShow(qs, l, Len(l)) /\ Latest(qs, l) /\ Len(qs) = Len(is) + 1
  BY <1>0, <1>1, PagesFresh
<1>5. Len(is) \in Nat /\ MaxPages \in Nat
  BY Bounds DEF PagesShow
<1> HIDE DEF qs
<1>6. /\ tt.pages = qs /\ tt.data_page = Len(is) + 1 /\ tt.index = <<>> /\ tt.log = l
      /\ tt.last = 0 /\ IsProcess(tt)
  BY <1>3 DEF Process, IsProcess
<1>7. IndexOK(tt.index, l)
  <2>1. \A r : Heap(l, Len(l), r) = <<>>
    BY <1>0, HeapZero
  <2>2. DOMAIN tt.index = {} /\ tt.index \in [DOMAIN tt.index -> Rids]
    <3> DEFINE e == <<>>
    <3>1. e \in Seq(Rids) /\ Len(e) = 0
      OBVIOUS
    <3>2. e \in [1 .. Len(e) -> Rids]
      <4> HIDE DEF e
      <4> QED BY <3>1
    <3>3. 1 .. Len(e) = {}
      BY <3>1
    <3>4. e \in [{} -> Rids]
      BY <3>2, <3>3
    <3>5. DOMAIN e = {}
      <4> HIDE DEF e
      <4> QED BY <3>4
    <3> QED BY <3>4, <3>5, <1>6
  <2> QED BY <2>1, <2>2 DEF IndexOK
<1>8. DataPageOK(tt)
  BY <1>5, <1>6 DEF DataPageOK, IndexLeaf
<1>9. Base(l, Len(l)) = Len(l) /\ HeapSet(l, Len(l)) = {}
  BY <1>0, EmptyLog
<1>10. IdleOK(tt)
  BY <1>0, <1>4, <1>6, <1>7, <1>8, <1>9 DEF IdleOK, StoreOK
<1> QED BY <1>4, <1>5, <1>6, <1>9, <1>10

-----------------------------------------------------------------------------
(* Steps of the running process.                                           *)

LEMMA UpFacts ==
  ASSUME NEW st, NEW images, NEW n, NEW contents, NEW safe, UpOK(st, images, n, contents, safe)
  PROVE  /\ StoreOK(st) /\ IsProcess(st) /\ LogOK(st.log) /\ Len(st.log) \in Nat
         /\ st.pages \in Seq(PageSet) /\ Len(st.pages) \in Nat /\ Len(st.pages) <= MaxPages
         /\ PagesShow(st.pages, st.log, Len(st.log)) /\ Latest(st.pages, st.log)
         /\ IndexOK(st.index, st.log)
         /\ DataPageOK(st) /\ st.data_page \in Nat
         /\ n \in Nat /\ n <= Len(st.log)
         /\ images \in Seq(PageSet) /\ Len(images) \in Nat /\ Len(images) <= Len(st.pages)
         /\ st.last = 0 => IdleOK(st)
         /\ st.last # 0 => OpenOK(st)
<1>1. StoreOK(st) /\ IndexOK(st.index, st.log) /\ DataPageOK(st)
      /\ (st.last = 0 => IdleOK(st)) /\ (st.last # 0 => OpenOK(st))
  BY DEF UpOK, IdleOK, OpenOK
<1>2. /\ IsProcess(st) /\ LogOK(st.log) /\ Len(st.log) \in Nat
      /\ st.pages \in Seq(PageSet) /\ Len(st.pages) \in Nat /\ Len(st.pages) <= MaxPages
      /\ PagesShow(st.pages, st.log, Len(st.log)) /\ Latest(st.pages, st.log)
  BY <1>1, StoreFacts
<1>3. n \in Nat /\ n <= Len(st.log)
  BY <1>2 DEF UpOK
<1>4. images \in Seq(PageSet) /\ Len(images) \in Nat /\ Len(images) <= Len(st.pages)
  BY DEF UpOK, PagesShow
<1>5. st.data_page \in Nat
  BY <1>1 DEF DataPageOK
<1> QED BY <1>1, <1>2, <1>3, <1>4, <1>5

\* The file shows a log that has grown.
LEMMA FileKept ==
  ASSUME NEW l, NEW k, Extends(k, l), Len(l) \in Nat, NEW n \in Nat, n <= Len(l),
         NEW m \in Nat, n <= m, NEW images, PagesShow(images, l, n)
  PROVE  PagesShow(images, k, m)
<1>1. Same(k, l, n)
  BY DEF Extends, Same
<1> QED BY <1>1, ShowsSame

\* What is committed is, in a log that has grown and ended no transaction.
LEMMA SafeKept ==
  ASSUME NEW l, NEW k, Extends(k, l), Len(l) \in Nat, Len(k) \in Nat,
         Base(k, Len(k)) = Base(l, Len(l))
  PROVE  Settled(k, Len(k)) = Settled(l, Len(l))
<1>1. Base(l, Len(l)) \in 0 .. Len(l)
  BY BaseExists
<1>2. HeapSet(k, Base(l, Len(l))) = HeapSet(l, Base(l, Len(l)))
  BY <1>1, SettledExtends
<1> QED BY <1>2 DEF Settled

\* The transaction that a command changes the store in.
LEMMA OpenedOK ==
  ASSUME NEW st, NEW images, NEW n, NEW contents, NEW safe, UpOK(st, images, n, contents, safe),
         NEW op, op = IF st.last = 0 THEN TxnBegin(st) ELSE st
  PROVE  /\ OpenOK(op) /\ Extends(op.log, st.log)
         /\ Base(op.log, Len(op.log)) = Base(st.log, Len(st.log))
         /\ HeapSet(op.log, Len(op.log)) = contents
         /\ op.pages = st.pages /\ op.index = st.index /\ op.data_page = st.data_page
<1>1. CASE st.last = 0
  <2>1. IdleOK(st) /\ op = TxnBegin(st)
    BY <1>1, UpFacts
  <2>2. contents = HeapSet(st.log, Len(st.log))
    BY DEF UpOK
  <2> QED BY <2>1, <2>2, BeginOK
<1>2. CASE st.last # 0
  <2>1. OpenOK(st) /\ op = st /\ Len(st.log) \in Nat
    BY <1>2, UpFacts
  <2>2. contents = HeapSet(st.log, Len(st.log))
    BY DEF UpOK
  <2> QED BY <2>1, <2>2 DEF Extends, Same
<1> QED BY <1>1, <1>2

\* How far a command has come inside its transaction.
Ahead(tt, st) ==
  /\ OpenOK(tt)
  /\ Extends(tt.log, st.log)
  /\ Base(tt.log, Len(tt.log)) = Base(st.log, Len(st.log))
  /\ Len(st.pages) <= Len(tt.pages)

LEMMA AheadOK ==
  ASSUME NEW st, Len(st.log) \in Nat, NEW op, OpenOK(op), Extends(op.log, st.log),
         Base(op.log, Len(op.log)) = Base(st.log, Len(st.log)),
         NEW tt, Changed(tt, op), Len(st.pages) <= Len(tt.pages)
  PROVE  Ahead(tt, st)
<1>1. Len(op.log) \in Nat
  BY OpenFacts
<1>2. OpenOK(tt) /\ Extends(tt.log, op.log) /\ Base(tt.log, Len(tt.log)) = Base(op.log, Len(op.log))
  BY DEF Changed
<1>3. Len(tt.log) \in Nat
  BY <1>2, OpenFacts
<1>4. Extends(tt.log, st.log)
  BY <1>1, <1>2, <1>3, ExtendsTrans
<1> QED BY <1>2, <1>4 DEF Ahead

\* The transaction stays open.
LEMMA StayOpen ==
  ASSUME NEW st, NEW images, NEW n, NEW contents, NEW safe, UpOK(st, images, n, contents, safe),
         NEW tt, Ahead(tt, st), NEW m, m = n \/ m = Len(tt.log),
         NEW new, new = HeapSet(tt.log, Len(tt.log))
  PROVE  UpOK(tt, images, m, new, safe)
<1>0. /\ Len(st.log) \in Nat /\ n \in Nat /\ n <= Len(st.log) /\ Len(images) \in Nat
      /\ Len(images) <= Len(st.pages) /\ Len(st.pages) \in Nat
      /\ PagesShow(images, st.log, n) /\ safe = Settled(st.log, n)
      /\ safe = Settled(st.log, Len(st.log))
  BY UpFacts DEF UpOK
<1>1. /\ OpenOK(tt) /\ Extends(tt.log, st.log)
      /\ Base(tt.log, Len(tt.log)) = Base(st.log, Len(st.log)) /\ Len(st.pages) <= Len(tt.pages)
  BY DEF Ahead
<1>2. Len(tt.log) \in Nat /\ tt.last # 0 /\ Len(tt.pages) \in Nat
  BY <1>1, OpenFacts
<1>3. Len(st.log) <= Len(tt.log)
  BY <1>1 DEF Extends
<1>4. m \in Nat /\ n <= m /\ m \in 0 .. Len(tt.log)
  BY <1>0, <1>2, <1>3
<1>5. PagesShow(images, tt.log, m)
  BY <1>0, <1>1, <1>4, FileKept
<1>6. safe = Settled(tt.log, Len(tt.log))
  BY <1>0, <1>1, <1>2, SafeKept
<1>7. safe = Settled(tt.log, n)
  <2>1. n \in 0 .. Len(st.log)
    BY <1>0
  <2> QED BY <2>1, <1>0, <1>1, SettledExtends
<1>8. safe = Settled(tt.log, m)
  BY <1>6, <1>7
<1>9. Len(images) <= Len(tt.pages)
  BY <1>0, <1>1, <1>2
<1> QED BY <1>1, <1>2, <1>4, <1>5, <1>6, <1>8, <1>9 DEF UpOK

\* It commits, which makes the COMMIT durable.
LEMMA CommitsUp ==
  ASSUME NEW st, NEW images, NEW n, NEW contents, NEW safe, UpOK(st, images, n, contents, safe),
         NEW uu, Ahead(uu, st), NEW tt, tt = TxnCommit(uu),
         NEW m, m = Len(uu.log) + 1,
         NEW new, new = HeapSet(uu.log, Len(uu.log))
  PROVE  UpOK(tt, images, m, new, new)
<1>0. /\ Len(st.log) \in Nat /\ n \in Nat /\ n <= Len(st.log) /\ Len(images) \in Nat
      /\ Len(images) <= Len(st.pages) /\ Len(st.pages) \in Nat
      /\ PagesShow(images, st.log, n)
  BY UpFacts DEF UpOK
<1>1. OpenOK(uu) /\ Extends(uu.log, st.log) /\ Len(st.pages) <= Len(uu.pages)
  BY DEF Ahead
<1>2. Len(uu.log) \in Nat /\ Len(uu.pages) \in Nat
  BY <1>1, OpenFacts
<1>3. /\ IdleOK(tt) /\ Extends(tt.log, uu.log) /\ Len(tt.log) = Len(uu.log) + 2
      /\ tt.pages = uu.pages /\ tt.log[Len(tt.log)].type = "TXN_END"
      /\ HeapSet(tt.log, Len(tt.log)) = new
      /\ Settled(tt.log, Len(uu.log) + 1) = new
  BY <1>1, CommitOK
<1>4. Len(tt.log) \in Nat /\ Len(tt.log) # 0 /\ m = Len(tt.log) - 1 /\ m \in Nat /\ n <= m
      /\ m \in 0 .. Len(tt.log)
  BY <1>0, <1>1, <1>2, <1>3 DEF Extends
<1>5. Extends(tt.log, st.log)
  BY <1>0, <1>1, <1>2, <1>3, <1>4, ExtendsTrans
<1>6. PagesShow(images, tt.log, m)
  BY <1>0, <1>4, <1>5, FileKept
<1>7. FlushedToEnd(tt.log, m)
  BY <1>3, <1>4 DEF FlushedToEnd
<1>8. new = Settled(tt.log, Len(tt.log))
  BY <1>3 DEF IdleOK, Settled
<1>9. Len(images) <= Len(tt.pages)
  BY <1>0, <1>1, <1>2, <1>3
<1> QED BY <1>3, <1>4, <1>6, <1>7, <1>8, <1>9 DEF UpOK

\* abort leaves a store with no open transaction.
LEMMA AbortedUp ==
  ASSUME NEW st, NEW images, NEW n, NEW contents, NEW safe, UpOK(st, images, n, contents, safe),
         st.last # 0, NEW tt, tt = TxnAbort(st)
  PROVE  /\ UpOK(tt, images, Len(tt.log) - 1, safe, safe)
         /\ IdleOK(tt) /\ safe = Settled(tt.log, Len(tt.log))
<1>0. /\ Len(st.log) \in Nat /\ n \in Nat /\ n <= Len(st.log) /\ Len(images) \in Nat
      /\ Len(images) <= Len(st.pages) /\ Len(st.pages) \in Nat
      /\ PagesShow(images, st.log, n) /\ safe = Settled(st.log, Len(st.log)) /\ OpenOK(st)
  BY UpFacts DEF UpOK
<1>1. /\ IdleOK(tt) /\ Extends(tt.log, st.log) /\ Len(tt.log) # 0
      /\ tt.log[Len(tt.log)].type = "TXN_END"
      /\ HeapSet(tt.log, Len(tt.log)) = safe
      /\ Settled(tt.log, Len(tt.log) - 1) = safe
      /\ Len(tt.pages) = Len(st.pages)
  BY <1>0, AbortOK
<1> DEFINE m == Len(tt.log) - 1
<1>2. Len(tt.log) \in Nat
  BY <1>1, IdleFacts
<1>3. Len(tt.log) # Len(st.log)
  <2>1. st.log[Len(st.log)].type \in {"BEGIN", "UPDATE"} /\ Len(st.log) # 0
    BY <1>0 DEF OpenOK
  <2>2. tt.log[Len(st.log)] = st.log[Len(st.log)]
    BY <2>1, <1>0, <1>1 DEF Extends, Same
  <2> QED BY <2>1, <2>2, <1>1
<1>4. m \in Nat /\ n <= m /\ m \in 0 .. Len(tt.log)
  BY <1>0, <1>1, <1>2, <1>3 DEF Extends
<1>5. FlushedToEnd(tt.log, m)
  BY <1>1 DEF FlushedToEnd
<1>6. Settled(tt.log, m) = safe
  BY <1>1
<1> HIDE DEF m
<1>7. PagesShow(images, tt.log, m)
  BY <1>0, <1>1, <1>4, FileKept
<1>8. safe = Settled(tt.log, Len(tt.log))
  BY <1>1 DEF IdleOK, Settled
<1>9. Len(images) <= Len(tt.pages)
  BY <1>0, <1>1
<1>10. UpOK(tt, images, m, safe, safe)
  BY <1>1, <1>4, <1>5, <1>6, <1>7, <1>8, <1>9 DEF UpOK
<1> QED BY <1>1, <1>8, <1>10 DEF m

\* Pages are written out, behind the log.
LEMMA WrittenUp ==
  ASSUME NEW st, NEW images, NEW n, NEW contents, NEW safe, UpOK(st, images, n, contents, safe),
         NEW m, m = n \/ m = Len(st.log),
         NEW others, PagesShow(others, st.log, m), Len(others) <= Len(st.pages)
  PROVE  UpOK(st, others, m, contents, safe)
<1>1. Len(st.log) \in Nat /\ n \in Nat /\ n <= Len(st.log)
  BY UpFacts
<1>2. m \in 0 .. Len(st.log)
  BY <1>1
<1>3. st.last = 0 => FlushedToEnd(st.log, m)
  BY DEF UpOK, FlushedToEnd
<1>4. safe = Settled(st.log, m)
  BY DEF UpOK
<1> QED BY <1>2, <1>3, <1>4 DEF UpOK

LEMMA CommitPages ==
  ASSUME NEW st, IsProcess(st)
  PROVE  TxnCommit(st).pages = st.pages
BY DEF TxnCommit, IsProcess

\* The page that is evicted, the file as it was, and zeros between them.
LEMMA EvictedFile ==
  ASSUME NEW st, NEW images, NEW n, NEW contents, NEW safe, UpOK(st, images, n, contents, safe),
         NEW p \in 1 .. Len(st.pages),
         NEW m, m = IF st.pages[p].lsn > n THEN Len(st.log) ELSE n,
         NEW others,
         others = [q \in 1 .. Max({p, Len(images)}) |->
                     IF q = p THEN st.pages[p]
                     ELSE IF q <= Len(images) THEN images[q] ELSE ZeroPage]
  PROVE  PagesShow(others, st.log, m) /\ Len(others) <= Len(st.pages)
<1> DEFINE l == st.log
           T == {p, Len(images)}
           w == Max(T)
<1>0. /\ Len(l) \in Nat /\ n \in Nat /\ n <= Len(l) /\ Len(images) \in Nat
      /\ Len(images) <= Len(st.pages) /\ Len(st.pages) \in Nat /\ Len(st.pages) <= MaxPages
      /\ PagesShow(images, l, n) /\ PagesShow(st.pages, l, Len(l)) /\ st.pages \in Seq(PageSet)
  BY UpFacts DEF UpOK
<1>1. T \in SUBSET Nat /\ T # {} /\ \A y \in T : y <= Len(st.pages)
  BY <1>0
<1>2. w \in T /\ \A y \in T : y <= w
  <2> HIDE DEF T
  <2> QED BY <1>0, <1>1, MaxIs
<1>3. w \in Nat /\ w <= Len(st.pages) /\ p <= w /\ w <= MaxPages
  BY <1>0, <1>2, Bounds
<1>4. st.pages[p] \in PageSet /\ st.pages[p].lsn \in Nat
  BY <1>0, PageSlots
<1>5. m \in Nat /\ n <= m
  BY <1>0
<1>6. Shows(st.pages[p], p, l, m)
  <2>1. Shows(st.pages[p], p, l, Len(l))
    BY <1>0 DEF PagesShow
  <2>2. st.pages[p].lsn <= m
    BY <2>1, <1>0, <1>4 DEF Shows
  <2> QED BY <2>1, <2>2 DEF Shows
<1>7. PagesShow(images, l, m)
  <2>1. Extends(l, l)
    BY <1>0 DEF Extends, Same
  <2> QED BY <2>1, <1>0, <1>5, FileKept
<1>8. \A q : Shows(ZeroPage, q, l, m)
  <2>1. ZeroPage \in PageSet /\ ZeroPage.lsn = 0 /\ ZeroPage.slots = <<>>
    BY InitIsPage
  <2>2. \A s \in 1 .. SlotsPerPage : ReadRecord(ZeroPage, s) = <<>>
    BY <2>1 DEF ReadRecord
  <2> QED BY <2>1, <2>2, <1>5, HeapZero DEF Shows
<1> DEFINE E(q) == IF q = p THEN st.pages[p]
                   ELSE IF q <= Len(images) THEN images[q] ELSE ZeroPage
<1>9. ASSUME NEW q \in 1 .. w PROVE Shows(E(q), q, l, m)
  <2>1. CASE q = p
    BY <2>1, <1>6
  <2>2. CASE q # p /\ q <= Len(images)
    <3>1. q \in 1 .. Len(images)
      BY <2>2, <1>0, <1>3
    <3>2. Shows(images[q], q, l, m)
      BY <3>1, <1>7 DEF PagesShow
    <3> QED BY <3>2, <2>2
  <2>3. CASE q # p /\ ~(q <= Len(images))
    BY <2>3, <1>8
  <2> QED BY <2>1, <2>2, <2>3
<1>10. \A q \in 1 .. w : E(q) \in PageSet
  BY <1>9 DEF Shows
<1>11. others = [q \in 1 .. w |-> E(q)]
  OBVIOUS
<1> HIDE DEF E, w
<1>12. others \in Seq(PageSet) /\ Len(others) = w /\ \A q \in 1 .. w : others[q] = E(q)
  BY ONLY <1>3, <1>10, <1>11
<1> QED BY <1>3, <1>9, <1>12 DEF PagesShow

-----------------------------------------------------------------------------
(* Every command keeps the invariant.                                      *)

\* The end of put, del and update.
LEMMA FinishKeeps ==
  ASSUME IInv, status = "up", shell.data_page # 0, NEW st, Ahead(st, shell),
         NEW contents, contents = HeapSet(st.log, Len(st.log)), Finish(st, contents)
  PROVE  IInv'
<1>0. UpOK(shell, disk, flushed, view, committed)
  BY DEF IInv
<1>1. OpenOK(st) /\ st.last = Len(st.log)
  BY OpenFacts DEF Ahead
<1>2. status' = "up" /\ disk' = disk /\ view' = contents
  BY DEF Finish, StatusAfterStore
<1>3. CASE shell.last = 0
  <2>1. shell' = TxnCommit(st) /\ flushed' = Len(st.log) + 1 /\ committed' = contents
    BY <1>1, <1>3 DEF Finish
  <2>2. UpOK(shell', disk, flushed', contents, contents)
    BY <2>1, <1>0, CommitsUp
  <2> QED BY <2>1, <2>2, <1>2 DEF IInv
<1>4. CASE shell.last # 0
  <2>1. shell' = st /\ flushed' = Len(st.log) /\ committed' = committed
    BY <1>1, <1>4 DEF Finish
  <2>2. UpOK(st, disk, flushed', contents, committed)
    BY <2>1, <1>0, StayOpen
  <2> QED BY <2>1, <2>2, <1>2 DEF IInv
<1> QED BY <1>3, <1>4

\* The bound on the pages is one on the pages before the commit.
LEMMA FinishPages ==
  ASSUME NEW st, IsProcess(st), NEW contents, Finish(st, contents)
  PROVE  Len(st.pages) <= MaxPages
<1>1. shell'.pages = st.pages
  BY CommitPages DEF Finish
<1>2. Len(shell'.pages) <= MaxPages
  BY DEF Finish, Bounded
<1> QED BY <1>1, <1>2

LEMMA PutKeeps ==
  ASSUME Allowed = {}, IInv, NEW k \in Keys, NEW v \in Vals, NEW fits, Put(k, v, fits)
  PROVE  IInv'
<1> DEFINE op == Opened
           st == PutRecord(op, k, v, fits)
<1>0. UpOK(shell, disk, flushed, view, committed) /\ status = "up" /\ shell.data_page # 0
      /\ k \notin DOMAIN shell.index /\ Finish(st, view \cup {<<k, v>>})
  BY DEF IInv, Put, CanStore
<1>1. op = IF shell.last = 0 THEN TxnBegin(shell) ELSE shell
  BY DEF Opened
<1> HIDE DEF op
<1>2. /\ OpenOK(op) /\ Extends(op.log, shell.log)
      /\ Base(op.log, Len(op.log)) = Base(shell.log, Len(shell.log))
      /\ HeapSet(op.log, Len(op.log)) = view
      /\ op.pages = shell.pages /\ op.index = shell.index /\ op.data_page = shell.data_page
  BY <1>0, <1>1, OpenedOK
<1>3. IsProcess(op) /\ op.pages \in Seq(PageSet) /\ op.data_page \in Nat \ {0} /\ Len(shell.log) \in Nat
  BY <1>0, <1>2, OpenFacts, UpFacts
<1>4. IsProcess(st)
  BY <1>0, <1>2, <1>3, PutGrows
<1>5. Len(st.pages) <= MaxPages
  <2> HIDE DEF st
  <2> QED BY <1>0, <1>4, FinishPages
<1>6. /\ Changed(st, op)
      /\ HeapSet(st.log, Len(st.log)) = view \cup {<<k, v>>}
      /\ Len(shell.pages) <= Len(st.pages)
  BY <1>0, <1>2, <1>5, PutOK
<1> HIDE DEF st
<1>7. Ahead(st, shell)
  BY <1>2, <1>3, <1>6, AheadOK
<1> QED BY <1>0, <1>6, <1>7, FinishKeeps

LEMMA DelKeeps ==
  ASSUME IInv, NEW k \in Keys, Del(k)
  PROVE  IInv'
<1> DEFINE op == Opened
           st == DelRecord(op, k)
<1>0. UpOK(shell, disk, flushed, view, committed) /\ status = "up"
      /\ k \in DOMAIN shell.index /\ Finish(st, Without(view, k))
  BY DEF IInv, Del
<1>1. op = IF shell.last = 0 THEN TxnBegin(shell) ELSE shell
  BY DEF Opened
<1> HIDE DEF op
<1>2. /\ OpenOK(op) /\ Extends(op.log, shell.log)
      /\ Base(op.log, Len(op.log)) = Base(shell.log, Len(shell.log))
      /\ HeapSet(op.log, Len(op.log)) = view
      /\ op.pages = shell.pages /\ op.index = shell.index /\ op.data_page = shell.data_page
  BY <1>0, <1>1, OpenedOK
<1>3. Len(shell.log) \in Nat /\ Len(shell.pages) \in Nat /\ k \in DOMAIN op.index
  BY <1>0, <1>2, UpFacts
<1>4. op.data_page \in 1 .. IndexLeaf
  <2> DEFINE r == op.index[k]
  <2>1. r = op.index[k]
    OBVIOUS
  <2> HIDE DEF r
  <2> QED BY <2>1, <1>2, <1>3, KeyFacts
<1>5. shell.data_page # 0
  BY <1>2, <1>4
<1>6. /\ Changed(st, op)
      /\ HeapSet(st.log, Len(st.log)) = Without(view, k)
      /\ Len(st.pages) = Len(shell.pages)
  BY <1>2, <1>3, DelOK
<1> HIDE DEF st
<1>7. Ahead(st, shell)
  <2>1. Len(shell.pages) <= Len(st.pages)
    BY <1>3, <1>6
  <2> QED BY <2>1, <1>2, <1>3, <1>6, AheadOK
<1> QED BY <1>0, <1>5, <1>6, <1>7, FinishKeeps

LEMMA UpdateKeeps ==
  ASSUME Allowed = {}, IInv, NEW k \in Keys, NEW v \in Vals, NEW fits, UpdateCmd(k, v, fits)
  PROVE  IInv'
<1> DEFINE op == Opened
           st == UpdateRecord(op, k, v, fits)
<1>0. UpOK(shell, disk, flushed, view, committed) /\ status = "up"
      /\ k \in DOMAIN shell.index /\ Finish(st, Without(view, k) \cup {<<k, v>>})
      /\ st.index[k] = shell.index[k]
  BY DEF IInv, UpdateCmd
<1>1. op = IF shell.last = 0 THEN TxnBegin(shell) ELSE shell
  BY DEF Opened
<1> HIDE DEF op
<1>2. /\ OpenOK(op) /\ Extends(op.log, shell.log)
      /\ Base(op.log, Len(op.log)) = Base(shell.log, Len(shell.log))
      /\ HeapSet(op.log, Len(op.log)) = view
      /\ op.pages = shell.pages /\ op.index = shell.index /\ op.data_page = shell.data_page
  BY <1>0, <1>1, OpenedOK
<1>3. Len(shell.log) \in Nat /\ Len(shell.pages) \in Nat /\ k \in DOMAIN op.index
  BY <1>0, <1>2, UpFacts
<1>4. op.data_page \in 1 .. IndexLeaf
  <2> DEFINE r == op.index[k]
  <2>1. r = op.index[k]
    OBVIOUS
  <2> HIDE DEF r
  <2> QED BY <2>1, <1>2, <1>3, KeyFacts
<1>5. shell.data_page # 0
  BY <1>2, <1>4
<1>6. /\ Changed(st, op)
      /\ HeapSet(st.log, Len(st.log)) = Without(view, k) \cup {<<k, v>>}
      /\ Len(st.pages) = Len(shell.pages)
  BY <1>0, <1>2, <1>3, UpdateCmdOK
<1> HIDE DEF st
<1>7. Ahead(st, shell)
  <2>1. Len(shell.pages) <= Len(st.pages)
    BY <1>3, <1>6
  <2> QED BY <2>1, <1>2, <1>3, <1>6, AheadOK
<1> QED BY <1>0, <1>5, <1>6, <1>7, FinishKeeps

\* Both records of fill are new, and the pages stay within their bound
\* between them because they do at the end.
LEMMA FillKeeps ==
  ASSUME Allowed = {}, IInv, NEW k1 \in Keys, NEW k2 \in Keys, NEW v \in Vals,
         NEW fits1, NEW fits2, Fill(k1, k2, v, fits1, fits2)
  PROVE  IInv'
<1> DEFINE op == Opened
           mid == PutRecord(op, k1, v, fits1)
           st == PutRecord(mid, k2, v, fits2)
           new == {<<k, v>> : k \in {k1, k2} \ DOMAIN shell.index}
<1>0. /\ UpOK(shell, disk, flushed, view, committed) /\ status = "up" /\ shell.data_page # 0
      /\ k1 # k2 /\ k1 \notin DOMAIN shell.index /\ k2 \notin DOMAIN shell.index
      /\ shell' = (IF shell.last = 0 THEN TxnCommit(st) ELSE st)
      /\ flushed' = (IF shell.last = 0 THEN Len(shell'.log) - 1 ELSE flushed)
      /\ view' = view \cup new
      /\ committed' = (IF shell.last = 0 THEN view' ELSE committed)
      /\ Bounded(shell')
  BY DEF IInv, Fill, CanStore
<1>a. status' = "up" /\ disk' = disk
  BY <1>0 DEF Fill, StatusAfterStore
<1>1. op = IF shell.last = 0 THEN TxnBegin(shell) ELSE shell
  BY DEF Opened
<1> HIDE DEF op
<1>2. /\ OpenOK(op) /\ Extends(op.log, shell.log)
      /\ Base(op.log, Len(op.log)) = Base(shell.log, Len(shell.log))
      /\ HeapSet(op.log, Len(op.log)) = view
      /\ op.pages = shell.pages /\ op.index = shell.index /\ op.data_page = shell.data_page
  BY <1>0, <1>1, OpenedOK
<1>3. /\ IsProcess(op) /\ op.pages \in Seq(PageSet) /\ op.data_page \in Nat \ {0}
      /\ Len(shell.log) \in Nat /\ Len(op.log) \in Nat /\ k1 \notin DOMAIN op.index
      /\ Len(op.pages) \in Nat
  BY <1>0, <1>2, OpenFacts, UpFacts
<1>4. /\ IsProcess(mid) /\ mid.data_page \in Nat \ {0} /\ mid.pages \in Seq(PageSet)
      /\ DOMAIN mid.index = DOMAIN op.index \cup {k1}
      /\ Len(op.pages) <= Len(mid.pages)
  BY <1>3, PutGrows
<1>5. k2 \notin DOMAIN mid.index
  BY <1>0, <1>2, <1>4
<1>6. mid = PutRecord(op, k1, v, fits1)
  OBVIOUS
<1> HIDE DEF mid
<1>7. IsProcess(st) /\ Len(mid.pages) <= Len(st.pages)
  BY <1>4, <1>5, PutGrows
<1>8. st = PutRecord(mid, k2, v, fits2)
  OBVIOUS
<1> HIDE DEF st
<1>9. Len(st.pages) <= MaxPages
  <2>1. shell'.pages = st.pages
    BY <1>0, <1>7, CommitPages
  <2> QED BY <2>1, <1>0 DEF Bounded
<1>10. /\ Changed(mid, op)
       /\ HeapSet(mid.log, Len(mid.log)) = view \cup {<<k1, v>>}
       /\ mid.data_page # 0
  <2>2. Len(mid.pages) <= MaxPages
    BY <1>4, <1>7, <1>9, Bounds
  <2> QED BY <2>2, <1>0, <1>2, <1>3, <1>6, PutOK
<1>11. Ahead(mid, shell) /\ OpenOK(mid) /\ Len(mid.log) \in Nat /\ Len(mid.pages) \in Nat
  <2>1. Len(shell.pages) <= Len(mid.pages)
    BY <1>2, <1>4
  <2>2. Ahead(mid, shell)
    BY <2>1, <1>2, <1>3, <1>10, AheadOK
  <2>3. OpenOK(mid)
    BY <2>2 DEF Ahead
  <2> QED BY <2>2, <2>3, OpenFacts
<1>12. /\ Changed(st, mid)
       /\ HeapSet(st.log, Len(st.log)) = HeapSet(mid.log, Len(mid.log)) \cup {<<k2, v>>}
  BY <1>5, <1>8, <1>9, <1>10, <1>11, PutOK
<1>13. Ahead(st, shell)
  <2>1. OpenOK(st)
    BY <1>12 DEF Changed
  <2>2. Len(st.pages) \in Nat
    BY <2>1, OpenFacts
  <2>3. Len(shell.pages) <= Len(st.pages)
    BY <2>2, <1>2, <1>3, <1>4, <1>7, <1>11
  <2>4. Extends(mid.log, shell.log) /\ Base(mid.log, Len(mid.log)) = Base(shell.log, Len(shell.log))
    BY <1>11 DEF Ahead
  <2> QED BY <2>3, <2>4, <1>3, <1>11, <1>12, AheadOK
<1>14. HeapSet(st.log, Len(st.log)) = view \cup new
  <2>1. new = {<<k1, v>>, <<k2, v>>}
    BY <1>0
  <2> QED BY <2>1, <1>10, <1>12
<1> HIDE DEF new
<1>15. CASE shell.last = 0
  <2>1. shell' = TxnCommit(st) /\ flushed' = Len(shell'.log) - 1 /\ committed' = view'
    BY <1>0, <1>15
  <2>2. OpenOK(st)
    BY <1>13 DEF Ahead
  <2>3. Len(shell'.log) = Len(st.log) + 2 /\ Len(st.log) \in Nat
    BY <2>1, <2>2, CommitOK, OpenFacts
  <2>4. flushed' = Len(st.log) + 1
    BY <2>1, <2>3
  <2>5. UpOK(shell', disk, flushed', view', view')
    BY <2>1, <2>4, <1>0, <1>13, <1>14, CommitsUp
  <2> QED BY <2>1, <2>5, <1>a DEF IInv
<1>16. CASE shell.last # 0
  <2>1. shell' = st /\ flushed' = flushed /\ committed' = committed
    BY <1>0, <1>16
  <2>2. UpOK(st, disk, flushed, view', committed)
    BY <1>0, <1>13, <1>14, StayOpen
  <2> QED BY <2>1, <2>2, <1>a DEF IInv
<1> QED BY <1>15, <1>16

LEMMA BeginKeeps ==
  ASSUME IInv, Begin
  PROVE  IInv'
<1>0. /\ UpOK(shell, disk, flushed, view, committed) /\ status = "up" /\ shell.last = 0
      /\ shell' = TxnBegin(shell) /\ UNCHANGED <<disk, flushed, status, view, committed>>
  BY DEF IInv, Begin
<1>1. IdleOK(shell) /\ Len(shell.pages) \in Nat
  BY <1>0, UpFacts
<1> DEFINE tt == shell'
<1>2. tt = TxnBegin(shell)
  BY <1>0
<1> HIDE DEF tt
<1>3. /\ OpenOK(tt) /\ Extends(tt.log, shell.log)
      /\ HeapSet(tt.log, Len(tt.log)) = HeapSet(shell.log, Len(shell.log))
      /\ Base(tt.log, Len(tt.log)) = Base(shell.log, Len(shell.log))
      /\ tt.pages = shell.pages
  BY <1>1, <1>2, BeginOK
<1>4. Ahead(tt, shell)
  BY <1>1, <1>3 DEF Ahead
<1>5. view = HeapSet(tt.log, Len(tt.log))
  BY <1>0, <1>3 DEF UpOK
<1>6. UpOK(tt, disk, flushed, view, committed)
  BY <1>0, <1>4, <1>5, StayOpen
<1> QED BY <1>0, <1>6 DEF IInv, tt

LEMMA CommitKeeps ==
  ASSUME IInv, Commit
  PROVE  IInv'
<1>0. /\ UpOK(shell, disk, flushed, view, committed) /\ status = "up" /\ shell.last # 0
      /\ shell' = TxnCommit(shell) /\ flushed' = Len(shell'.log) - 1 /\ committed' = view
      /\ UNCHANGED <<disk, status, view>>
  BY DEF IInv, Commit
<1>1. OpenOK(shell) /\ Len(shell.pages) \in Nat /\ Len(shell.log) \in Nat
  BY <1>0, UpFacts
<1>2. Ahead(shell, shell)
  BY <1>1 DEF Ahead, Extends, Same
<1>3. Len(shell'.log) = Len(shell.log) + 2
  BY <1>0, <1>1, CommitOK
<1>4. flushed' = Len(shell.log) + 1
  BY <1>0, <1>1, <1>3
<1>5. view = HeapSet(shell.log, Len(shell.log))
  BY <1>0 DEF UpOK
<1>6. UpOK(shell', disk, flushed', view, view)
  BY <1>0, <1>2, <1>4, <1>5, CommitsUp
<1> QED BY <1>0, <1>6 DEF IInv

LEMMA AbortKeeps ==
  ASSUME IInv, Abort
  PROVE  IInv'
<1>0. /\ UpOK(shell, disk, flushed, view, committed) /\ status = "up" /\ shell.last # 0
      /\ shell' = TxnAbort(shell) /\ flushed' = Len(shell'.log) - 1 /\ view' = committed
      /\ UNCHANGED <<disk, status, committed>>
  BY DEF IInv, Abort
<1>1. UpOK(shell', disk, Len(shell'.log) - 1, committed, committed)
  BY <1>0, AbortedUp
<1> QED BY <1>0, <1>1 DEF IInv

LEMMA EvictKeeps ==
  ASSUME IInv, NEW p \in 1 .. MaxPages, Evict(p)
  PROVE  IInv'
<1>0. /\ UpOK(shell, disk, flushed, view, committed) /\ status = "up"
      /\ p \in DOMAIN shell.pages /\ UNCHANGED <<shell, status, view, committed>>
      /\ flushed' = IF shell.pages[p].lsn > flushed THEN Len(shell.log) ELSE flushed
      /\ disk' = [q \in 1 .. Max({p, Len(disk)}) |->
                     IF q = p THEN shell.pages[p]
                     ELSE IF q <= Len(disk) THEN disk[q] ELSE ZeroPage]
  BY DEF IInv, Evict
<1>1. p \in 1 .. Len(shell.pages)
  BY <1>0, UpFacts
<1>2. PagesShow(disk', shell.log, flushed') /\ Len(disk') <= Len(shell.pages)
  BY <1>0, <1>1, EvictedFile
<1>3. flushed' = flushed \/ flushed' = Len(shell.log)
  BY <1>0
<1>4. UpOK(shell, disk', flushed', view, committed)
  <2>1. UpOK(shell, disk, flushed, view, committed)
    BY <1>0
  <2> QED BY ONLY <2>1, <1>2, <1>3, WrittenUp
<1> QED BY <1>0, <1>4 DEF IInv

LEMMA FlushAllKeeps ==
  ASSUME IInv, FlushAll
  PROVE  IInv'
<1>0. /\ UpOK(shell, disk, flushed, view, committed) /\ status = "up"
      /\ UNCHANGED <<shell, status, view, committed>> /\ disk' = shell.pages
      /\ flushed' = IF \E p \in DOMAIN shell.pages : shell.pages[p].lsn > flushed
                    THEN Len(shell.log) ELSE flushed
  BY DEF IInv, FlushAll
<1>1. /\ PagesShow(shell.pages, shell.log, Len(shell.log)) /\ Len(shell.pages) \in Nat
      /\ shell.pages \in Seq(PageSet) /\ flushed \in Nat
  BY <1>0, UpFacts
<1>2. PagesShow(shell.pages, shell.log, flushed')
  <2>1. CASE \E p \in DOMAIN shell.pages : shell.pages[p].lsn > flushed
    BY <2>1, <1>0, <1>1
  <2>2. CASE ~\E p \in DOMAIN shell.pages : shell.pages[p].lsn > flushed
    <3>1. ASSUME NEW p \in 1 .. Len(shell.pages) PROVE Shows(shell.pages[p], p, shell.log, flushed)
      <4>1. Shows(shell.pages[p], p, shell.log, Len(shell.log))
        BY <1>1 DEF PagesShow
      <4>2. shell.pages[p] \in PageSet
        BY <1>1
      <4>3. shell.pages[p].lsn \in Nat /\ ~(shell.pages[p].lsn > flushed)
        BY <4>2, <2>2, <1>1, PageSlots
      <4>4. shell.pages[p].lsn <= flushed
        BY <4>3, <1>1
      <4> QED BY <4>1, <4>4 DEF Shows
    <3>2. flushed' = flushed
      BY <2>2, <1>0
    <3> QED BY <3>1, <3>2, <1>1 DEF PagesShow
  <2> QED BY <2>1, <2>2
<1>3. flushed' = flushed \/ flushed' = Len(shell.log)
  BY <1>0
<1>4. UpOK(shell, disk', flushed', view, committed)
  <2>1. PagesShow(disk', shell.log, flushed') /\ Len(disk') <= Len(shell.pages)
    BY <1>0, <1>1, <1>2
  <2> QED BY <2>1, <1>0, <1>3, WrittenUp
<1> QED BY <1>0, <1>4 DEF IInv

LEMMA RecoverKeeps ==
  ASSUME Allowed = {}, IInv, Recover
  PROVE  IInv'
<1> DEFINE rp == RecoverPages(shell, flushed)
           typed == {p \in DOMAIN rp.pages : rp.pages[p].type = "DATA"}
<1>0. /\ UpOK(shell, disk, flushed, view, committed) /\ status = "up" /\ shell.last = 0
      /\ typed = DOMAIN rp.pages
      /\ shell' = [rp EXCEPT !.index = Rebuild(rp.pages, typed), !.data_page = IndexLeaf]
      /\ disk' = rp.pages /\ flushed' = Len(rp.log) /\ UNCHANGED <<status, view, committed>>
  BY DEF IInv, Recover
<1> HIDE DEF typed
<1>1. /\ IdleOK(shell) /\ flushed \in Nat /\ FlushedToEnd(shell.log, flushed)
      /\ view = HeapSet(shell.log, Len(shell.log))
      /\ committed = Settled(shell.log, Len(shell.log))
  BY <1>0, UpFacts DEF UpOK
<1> DEFINE tt == shell'
<1>2. Reindexed(tt, rp)
  BY <1>0 DEF Reindexed
<1>3. rp = RecoverPages(shell, flushed)
  OBVIOUS
<1> HIDE DEF tt, rp
<1>4. /\ IdleOK(tt) /\ tt.log = rp.log /\ tt.pages = shell.pages /\ rp.pages = shell.pages
      /\ HeapSet(tt.log, Len(tt.log)) = HeapSet(shell.log, Len(shell.log))
  BY <1>1, <1>2, <1>3, RecoverCmdOK
<1>5. /\ PagesShow(tt.pages, tt.log, Len(tt.log)) /\ Len(tt.log) \in Nat /\ Len(tt.pages) \in Nat
      /\ Base(tt.log, Len(tt.log)) = Len(tt.log)
  BY <1>4, IdleFacts
<1>6. committed = HeapSet(shell.log, Len(shell.log))
  BY <1>1 DEF IdleOK, Settled
<1>7. UpOK(tt, tt.pages, Len(tt.log), view, committed)
  BY <1>1, <1>4, <1>5, <1>6 DEF UpOK, FlushedToEnd, Settled
<1>8. disk' = tt.pages /\ flushed' = Len(tt.log)
  BY <1>0, <1>4
<1> QED BY <1>0, <1>7, <1>8 DEF IInv, tt

LEMMA StoppedLog ==
  ASSUME NEW l, NEW st, st = Stopped(l)
  PROVE  st.log = l /\ st = Stopped(st.log) /\ st.pages = <<>> /\ st.data_page = 0
         /\ st.index = <<>> /\ st.last = 0
BY DEF Stopped

LEMMA ExitKeeps ==
  ASSUME IInv, Exit
  PROVE  IInv'
<1> DEFINE st == IF shell.last # 0 THEN TxnAbort(shell) ELSE shell
<1>0. /\ UpOK(shell, disk, flushed, view, committed) /\ status = "up"
      /\ shell' = Stopped(st.log) /\ disk' = st.pages /\ flushed' = Len(st.log)
      /\ PageLeft(disk', shell'.log) /\ status' = "exited" /\ view' = committed
      /\ committed' = committed
  BY DEF IInv, Exit
<1>1. IdleOK(st) /\ committed = Settled(st.log, Len(st.log))
  <2>1. CASE shell.last # 0
    BY <2>1, <1>0, AbortedUp
  <2>2. CASE shell.last = 0
    BY <2>2, <1>0, UpFacts DEF UpOK
  <2> QED BY <2>1, <2>2
<1> HIDE DEF st
<1>2. /\ LogOK(st.log) /\ PagesShow(st.pages, st.log, Len(st.log)) /\ Latest(st.pages, st.log)
      /\ Base(st.log, Len(st.log)) = Len(st.log)
  BY <1>1, IdleFacts
<1>3. shell'.log = st.log /\ shell' = Stopped(shell'.log)
  BY <1>0, StoppedLog
<1>4. shell'.log = <<>> => Len(disk') < MaxPages
  BY <1>0 DEF PageLeft
<1>5. DownOK(shell', disk', flushed', view', committed')
  BY <1>0, <1>1, <1>2, <1>3, <1>4 DEF DownOK
<1>6. CleanOK(shell'.log, disk')
  BY <1>0, <1>2, <1>3 DEF CleanOK
<1> QED BY <1>0, <1>5, <1>6 DEF IInv

LEMMA CrashKeeps ==
  ASSUME IInv, Crash
  PROVE  IInv'
<1> DEFINE k == SubSeq(shell.log, 1, flushed)
<1>0. /\ UpOK(shell, disk, flushed, view, committed) /\ status = "up" /\ status' = "crashed"
      /\ shell' = Stopped(k) /\ PageLeft(disk, shell'.log) /\ view' = committed
      /\ UNCHANGED <<disk, flushed, committed>>
  BY DEF IInv, Crash
<1>1. LogOK(shell.log) /\ flushed \in 0 .. Len(shell.log) /\ flushed \in Nat
      /\ PagesShow(disk, shell.log, flushed) /\ committed = Settled(shell.log, flushed)
  BY <1>0, UpFacts DEF UpOK
<1>2. LogOK(k) /\ Len(k) = flushed /\ Same(k, shell.log, flushed)
  BY <1>1, Prefix
<1> HIDE DEF k
<1>3. PagesShow(disk, k, flushed)
  BY <1>1, <1>2, ShowsSame
<1>4. committed = Settled(k, flushed)
  BY <1>1, <1>2, SettledSame
<1>5. shell'.log = k /\ shell' = Stopped(shell'.log)
  BY <1>0, StoppedLog
<1>6. shell'.log = <<>> => Len(disk) < MaxPages
  BY <1>0 DEF PageLeft
<1>7. DownOK(shell', disk, flushed, committed, committed)
  BY <1>2, <1>3, <1>4, <1>5, <1>6 DEF DownOK
<1> QED BY <1>0, <1>7 DEF IInv

LEMMA RestartKeeps ==
  ASSUME IInv, Restart
  PROVE  IInv'
<1> DEFINE l == shell.log
           tt == shell'
<1>0. /\ DownOK(shell, disk, flushed, view, committed) /\ tt = Started(disk, l)
      /\ disk' = (IF l = <<>> THEN disk ELSE tt.pages) /\ flushed' = Len(tt.log)
      /\ status' = "up" /\ UNCHANGED <<view, committed>>
  BY DEF IInv, Restart
<1>1. /\ LogOK(l) /\ PagesShow(disk, l, Len(l)) /\ (l = <<>> => Len(disk) < MaxPages)
      /\ committed = Settled(l, Len(l)) /\ view = committed
  BY <1>0 DEF DownOK
<1> HIDE DEF l, tt
<1>2. CASE l = <<>>
  <2>1. /\ IdleOK(tt) /\ tt.log = l /\ HeapSet(tt.log, Len(tt.log)) = {}
        /\ Len(disk) <= Len(tt.pages)
    BY <1>0, <1>1, <1>2, StartedEmpty
  <2>2. Base(tt.log, Len(tt.log)) = Len(tt.log) /\ Len(tt.log) \in Nat
    BY <2>1, IdleFacts
  <2>3. committed = HeapSet(tt.log, Len(tt.log))
    BY <2>1, <2>2, <1>1 DEF Settled
  <2>4. disk' = disk
    BY <1>0, <1>2
  <2>5. PagesShow(disk, tt.log, Len(tt.log))
    BY <2>1, <1>1
  <2>6. UpOK(tt, disk, Len(tt.log), view, committed)
    BY <2>1, <2>2, <2>3, <2>5, <1>1 DEF UpOK, FlushedToEnd, Settled
  <2> QED BY <2>4, <2>6, <1>0 DEF IInv, tt
<1>3. CASE l # <<>>
  <2>1. IdleOK(tt) /\ HeapSet(tt.log, Len(tt.log)) = Settled(l, Len(l))
    BY <1>0, <1>1, <1>3, StartedOK
  <2>2. /\ Base(tt.log, Len(tt.log)) = Len(tt.log) /\ Len(tt.log) \in Nat
        /\ PagesShow(tt.pages, tt.log, Len(tt.log)) /\ Len(tt.pages) \in Nat
    BY <2>1, IdleFacts
  <2>3. disk' = tt.pages
    BY <1>0, <1>3
  <2>4. UpOK(tt, tt.pages, Len(tt.log), view, committed)
    BY <2>1, <2>2, <1>1 DEF UpOK, FlushedToEnd, Settled
  <2> QED BY <2>3, <2>4, <1>0 DEF IInv, tt
<1> QED BY <1>2, <1>3

LEMMA IInvInit ==
  ASSUME Init
  PROVE  IInv
<1> DEFINE e == <<>>
           tt == shell
<1>0. /\ tt = Started(e, e) /\ disk = e /\ flushed = 0 /\ status = "up" /\ view = {}
      /\ committed = {}
  BY DEF Init
<1>1. LogOK(e) /\ Len(e) = 0 /\ HeapSet(e, 0) = {} /\ Base(e, 0) = 0 /\ e = <<>>
  BY EmptyLog
<1>2. e \in Seq(PageSet)
  OBVIOUS
<1> HIDE DEF e, tt
<1>3. PagesShow(e, e, Len(e)) /\ Len(e) < MaxPages
  BY <1>1, <1>2, Bounds DEF PagesShow
<1>4. /\ IdleOK(tt) /\ tt.log = e /\ Len(e) <= Len(tt.pages)
  BY <1>0, <1>1, <1>3, StartedEmpty
<1>5. UpOK(tt, e, 0, {}, {})
  BY <1>1, <1>3, <1>4 DEF UpOK, FlushedToEnd, Settled
<1> QED BY <1>0, <1>5 DEF IInv, tt

LEMMA IInvNext ==
  ASSUME Allowed = {}, IInv, [Next]_vars
  PROVE  IInv'
<1>1. CASE \E k \in Keys, v \in Vals, fits \in BOOLEAN : Put(k, v, fits)
  BY <1>1, PutKeeps
<1>2. CASE \E k \in Keys : Del(k)
  BY <1>2, DelKeeps
<1>3. CASE \E k \in Keys, v \in Vals, fits \in BOOLEAN : UpdateCmd(k, v, fits)
  BY <1>3, UpdateKeeps
<1>4. CASE \E k1, k2 \in Keys, v \in Vals, fits1, fits2 \in BOOLEAN : Fill(k1, k2, v, fits1, fits2)
  BY <1>4, FillKeeps
<1>5. CASE Begin
  BY <1>5, BeginKeeps
<1>6. CASE Commit
  BY <1>6, CommitKeeps
<1>7. CASE Abort
  BY <1>7, AbortKeeps
<1>8. CASE \E p \in 1 .. MaxPages : Evict(p)
  BY <1>8, EvictKeeps
<1>9. CASE FlushAll
  BY <1>9, FlushAllKeeps
<1>10. CASE Recover
  BY <1>10, RecoverKeeps
<1>11. CASE Exit
  BY <1>11, ExitKeeps
<1>12. CASE Crash
  BY <1>12, CrashKeeps
<1>13. CASE Restart
  BY <1>13, RestartKeeps
<1>14. CASE UNCHANGED vars
  BY <1>14 DEF IInv, vars
<1> QED BY <1>1, <1>2, <1>3, <1>4, <1>5, <1>6, <1>7, <1>8, <1>9, <1>10, <1>11, <1>12, <1>13,
           <1>14 DEF Next

LEMMA IInvHolds ==
  ASSUME Allowed = {}
  PROVE  Spec => []IInv
<1>1. Init => IInv
  BY IInvInit
<1>2. IInv /\ [Next]_vars => IInv'
  BY IInvNext
<1> QED BY <1>1, <1>2, PTL DEF Spec

-----------------------------------------------------------------------------
(* What the invariant gives.                                               *)

\* In every state the file shows the durable part of the log, and what is
\* committed is settled in it.
LEMMA FileFacts ==
  ASSUME IInv
  PROVE  /\ LogOK(shell.log) /\ Len(shell.log) \in Nat /\ flushed \in 0 .. Len(shell.log)
         /\ PagesShow(disk, shell.log, flushed) /\ committed = Settled(shell.log, flushed)
<1>1. CASE status = "up"
  <2>1. UpOK(shell, disk, flushed, view, committed)
    BY <1>1 DEF IInv
  <2> QED BY <2>1, UpFacts DEF UpOK
<1>2. CASE status # "up"
  BY <1>2 DEF IInv, DownOK, LogOK
<1> QED BY <1>1, <1>2

\* The heap is made of records.
LEMMA HeapRecords ==
  ASSUME NEW l, LogOK(l), NEW n \in 0 .. Len(l)
  PROVE  HeapSet(l, n) \subseteq RecordSet /\ Settled(l, n) \subseteq RecordSet
<1>1. l \in Seq(LogRecords) /\ Len(l) \in Nat /\ n \in Nat
  BY DEF LogOK
<1>2. ASSUME NEW m \in 0 .. Len(l) PROVE HeapSet(l, m) \subseteq RecordSet
  <2>1. \A r : Heap(l, m, r) \in Cells
    BY <1>1, HeapType
  <2> QED BY <2>1 DEF HeapSet, Cells
<1>3. Base(l, n) \in 0 .. Len(l)
  BY <1>1, BaseExists
<1> QED BY <1>2, <1>3 DEF Settled

LEMMA TypeOfState ==
  ASSUME IInv
  PROVE  TypeOK
<1>0. /\ LogOK(shell.log) /\ Len(shell.log) \in Nat /\ flushed \in 0 .. Len(shell.log)
      /\ PagesShow(disk, shell.log, flushed) /\ committed = Settled(shell.log, flushed)
  BY FileFacts
<1>1. committed \subseteq RecordSet
  BY <1>0, HeapRecords
<1>2. \A p \in DOMAIN disk : disk[p] \in PageSet
  BY <1>0 DEF PagesShow
<1>3. status \in {"up", "crashed", "exited"}
  BY DEF IInv
<1>4. CASE status = "up"
  <2>1. UpOK(shell, disk, flushed, view, committed)
    BY <1>4 DEF IInv
  <2>2. /\ StoreOK(shell) /\ IndexOK(shell.index, shell.log) /\ DataPageOK(shell)
        /\ shell.pages \in Seq(PageSet) /\ Len(shell.pages) <= MaxPages
        /\ (shell.last = 0 => IdleOK(shell)) /\ (shell.last # 0 => OpenOK(shell))
    BY <2>1, UpFacts
  <2>3. \A p \in DOMAIN shell.pages : shell.pages[p] \in PageSet
    BY <2>2
  <2>4. DOMAIN shell.index \subseteq Keys
    <3>1. ASSUME NEW k \in DOMAIN shell.index PROVE k \in Keys
      <4> DEFINE r == shell.index[k]
      <4>1. r = shell.index[k]
        OBVIOUS
      <4> HIDE DEF r
      <4> QED BY <4>1, <3>1, <2>2, KeyPlace
    <3> QED BY <3>1
  <2>5. shell.last \in 0 .. Len(shell.log)
    BY <2>2, <1>0 DEF OpenOK
  <2>6. view \subseteq RecordSet
    <3>1. view = HeapSet(shell.log, Len(shell.log)) /\ Len(shell.log) \in 0 .. Len(shell.log)
      BY <2>1, <1>0 DEF UpOK
    <3> QED BY <3>1, <1>0, HeapRecords
  <2>7. shell.data_page \in 0 .. IndexLeaf
    BY <2>2 DEF DataPageOK
  <2> QED BY <2>2, <2>3, <2>4, <2>5, <2>6, <2>7, <1>0, <1>1, <1>2, <1>3 DEF TypeOK
<1>5. CASE status # "up"
  <2>1. DownOK(shell, disk, flushed, view, committed)
    BY <1>5 DEF IInv
  <2>2. /\ shell.pages = <<>> /\ shell.data_page = 0 /\ shell.index = <<>> /\ shell.last = 0
        /\ view = committed
    BY <2>1, StoppedLog DEF DownOK
  <2>3. Len(shell.pages) = 0 /\ DOMAIN shell.pages = {} /\ DOMAIN shell.index = {}
    BY <2>2
  <2>4. shell.data_page \in 0 .. IndexLeaf /\ Len(shell.pages) <= MaxPages
        /\ shell.last \in 0 .. Len(shell.log)
    BY <2>2, <2>3, <1>0, Bounds DEF IndexLeaf
  <2> QED BY <2>2, <2>3, <2>4, <1>0, <1>1, <1>2, <1>3 DEF TypeOK
<1> QED BY <1>4, <1>5

LEMMA GetOfState ==
  ASSUME IInv
  PROVE  GetAgrees
<1>1. SUFFICES ASSUME status = "up" PROVE Contents(shell) = view
  BY DEF GetAgrees, IInv
<1>2. UpOK(shell, disk, flushed, view, committed)
  BY <1>1 DEF IInv
<1>3. StoreOK(shell) /\ IndexOK(shell.index, shell.log)
  BY <1>2, UpFacts
<1>4. Contents(shell) = HeapSet(shell.log, Len(shell.log))
  BY <1>3, ContentsIs
<1> QED BY <1>2, <1>4 DEF UpOK

LEMMA MatchOfState ==
  ASSUME IInv
  PROVE  HeapMatchesIndex
<1>1. SUFFICES ASSUME status = "up", NEW p \in DOMAIN shell.pages,
                      NEW s \in DOMAIN shell.pages[p].slots, IsRecord(shell.pages[p].slots[s])
               PROVE  /\ shell.pages[p].slots[s][1] \in DOMAIN shell.index
                      /\ shell.index[shell.pages[p].slots[s][1]] = <<p, s>>
  BY DEF HeapMatchesIndex
<1> DEFINE rec == shell.pages[p].slots[s]
           l == shell.log
<1>2. UpOK(shell, disk, flushed, view, committed)
  BY <1>1 DEF IInv
<1>3. /\ LogOK(l) /\ PagesShow(shell.pages, l, Len(l)) /\ Latest(shell.pages, l)
      /\ IndexOK(shell.index, l) /\ shell.pages \in Seq(PageSet)
      /\ Len(shell.pages) \in Nat /\ Len(shell.pages) <= MaxPages
  BY <1>2, UpFacts
<1>4. p \in 1 .. Len(shell.pages) /\ p \in 1 .. MaxPages /\ shell.pages[p] \in PageSet
  BY <1>3, Bounds
<1>5. s \in 1 .. SlotsPerPage
  BY <1>4, PageSlots, Bounds
<1>6. ReadRecord(shell.pages[p], s) = rec
  BY <1>1 DEF ReadRecord
<1>7. rec # <<>>
  BY <1>1 DEF IsRecord
<1>8. ReadRecord(shell.pages[p], s) = Heap(l, Len(l), <<p, s>>)
  BY <1>3, <1>4, <1>5, PoolIsHeap
<1>9. <<p, s>> \in Rids
  BY <1>4, <1>5, RidMade
<1> HIDE DEF rec, l
<1>10. rec[1] \in DOMAIN shell.index /\ shell.index[rec[1]] = <<p, s>>
  BY <1>3, <1>6, <1>7, <1>8, <1>9 DEF IndexOK
<1> QED BY <1>10 DEF rec

LEMMA RecoverableOfState ==
  ASSUME IInv
  PROVE  Recoverable
<1> DEFINE l == shell.log
           k == SubSeq(l, 1, flushed)
           tt == Started(disk, k)
<1>0. /\ LogOK(l) /\ Len(l) \in Nat /\ flushed \in 0 .. Len(l) /\ flushed \in Nat
      /\ PagesShow(disk, l, flushed) /\ committed = Settled(l, flushed)
  BY FileFacts
<1>1. LogOK(k) /\ Len(k) = flushed /\ Same(k, l, flushed)
  BY <1>0, Prefix
<1>2. tt = Started(disk, k)
  OBVIOUS
<1> HIDE DEF l, k, tt
<1>3. PagesShow(disk, k, Len(k))
  BY <1>0, <1>1, ShowsSame
<1>4. committed = Settled(k, Len(k))
  BY <1>0, <1>1, SettledSame
<1>5. CASE k = <<>>
  <2>1. tt.index = <<>>
    BY <1>2, <1>5, StartedFresh DEF Process
  <2>2. Contents(tt) = {}
    BY <2>1 DEF Contents
  <2>3. committed = {}
    BY <1>4, <1>5, EmptyLog DEF Settled
  <2> QED BY <2>2, <2>3 DEF Recoverable, tt, k, l
<1>6. CASE k # <<>>
  <2>1. IdleOK(tt) /\ HeapSet(tt.log, Len(tt.log)) = Settled(k, Len(k))
    BY <1>1, <1>2, <1>3, <1>6, StartedOK
  <2>2. StoreOK(tt) /\ IndexOK(tt.index, tt.log)
    BY <2>1 DEF IdleOK
  <2>3. Contents(tt) = committed
    BY <2>1, <2>2, <1>4, ContentsIs
  <2> QED BY <2>3 DEF Recoverable, tt, k, l
<1> QED BY <1>5, <1>6

-----------------------------------------------------------------------------
(* Theorems.                                                               *)

\* Type correctness of the shell's store: no page gets more slots than it
\* has (Page::insert_record, redo_insert), data_page_id_ names a page or the
\* leaf that recover leaves there, the open transaction's last LSN and the
\* durable part of the log lie within the log.
THEOREM TypeCorrect ==
  ASSUME Allowed = {}
  PROVE  Spec => []TypeOK
BY IInvHolds, TypeOfState, PTL

\* get answers what the user stored, in every state the commands, aborts,
\* crashes, restarts and rebuilds of the index lead to (cmd_get).
THEOREM GetIsRight ==
  ASSUME Allowed = {}
  PROVE  Spec => []GetAgrees
BY IInvHolds, GetOfState, PTL

\* Every record on a page is the one the index names for its key: no command
\* and no recovery leaves a record behind that a rebuild of the index would
\* bring back (cmd_recover, init_storage).
THEOREM HeapAndIndexAgree ==
  ASSUME Allowed = {}
  PROVE  Spec => []HeapMatchesIndex
BY IInvHolds, MatchOfState, PTL

\* Atomicity and durability: whenever the process dies, init_storage finds
\* the committed contents, all of them and nothing else, in the file and the
\* durable log.
THEOREM CommittedIsRecoverable ==
  ASSUME Allowed = {}
  PROVE  Spec => []Recoverable
BY IInvHolds, RecoverableOfState, PTL

\* A restart after exit changes no page and appends nothing to the log
\* (recovery is a no-op after a clean shutdown).
THEOREM CleanRestart ==
  ASSUME Allowed = {}
  PROVE  Spec => CleanRestartIsNoop
<1> DEFINE Quiet == status = "exited" /\ status' = "up" /\ shell.log # <<>>
                      => shell'.pages = disk /\ shell'.log = shell.log
<1>1. ASSUME IInv, [Next]_vars PROVE Quiet
  <2>1. SUFFICES ASSUME status = "exited", status' = "up", shell.log # <<>>
                 PROVE  shell'.pages = disk /\ shell'.log = shell.log
    OBVIOUS
  <2>2. Restart
    BY <1>1, <2>1 DEF Next, vars, Put, Del, UpdateCmd, Fill, Begin, Commit, Abort, Evict, FlushAll,
       Recover, Exit, Crash
  <2>3. DownOK(shell, disk, flushed, view, committed) /\ CleanOK(shell.log, disk)
    BY <1>1, <2>1 DEF IInv
  <2> DEFINE l == shell.log
             tt == shell'
  <2>4. LogOK(l) /\ PagesShow(disk, l, Len(l)) /\ Latest(disk, l) /\ Base(l, Len(l)) = Len(l)
        /\ l # <<>> /\ tt = Started(disk, l)
    BY <2>1, <2>2, <2>3 DEF DownOK, CleanOK, Restart
  <2> HIDE DEF l, tt
  <2>5. tt.pages = disk /\ tt.log = l
    BY <2>4, StartedOK
  <2> QED BY <2>5 DEF l, tt
<1>2. IInv /\ [Next]_vars => [Quiet]_vars
  BY <1>1
<1> HIDE DEF Quiet
<1>3. Spec => [][Quiet]_vars
  BY <1>2, IInvHolds, PTL DEF Spec
<1> QED BY <1>3 DEF Quiet, CleanRestartIsNoop
=============================================================================
