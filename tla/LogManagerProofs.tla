-------------------------- MODULE LogManagerProofs --------------------------
(***************************************************************************)
(* Proofs about LogManager: where its records lie, that an LSN is never    *)
(* handed out twice, that flushed_lsn_ and the offset index tell the       *)
(* truth, and that it implements DurableLog.                               *)
(***************************************************************************)
EXTENDS LogManager, TLAPS, SequenceTheorems

USE SizeAssumption, MaxRecordsAssumption

-----------------------------------------------------------------------------
(* The operators that the actions are built from.                          *)

\* Max returns an upper bound that belongs to the set.
LEMMA MaxOf ==
  ASSUME NEW S, NEW m \in S, S \subseteq Int, \A x \in S : x <= m
  PROVE  Max(S) = m
<1>1. \A y \in S : (\A x \in S : y >= x) => y = m
  OBVIOUS
<1>2. \A x \in S : m >= x
  OBVIOUS
<1> QED BY <1>1, <1>2 DEF Max

\* The file has a size.
LEMMA FileSizeType ==
  ASSUME NEW f \in Seq(Segment)
  PROVE  FileSize(f) \in Nat
<1>1. CASE f = <<>>
  BY <1>1 DEF FileSize
<1>2. CASE f # <<>>
  <2>1. Len(f) \in 1..Len(f)
    BY <1>2
  <2>2. f[Len(f)] \in Segment
    BY <2>1
  <2>3. SegmentBytes(f[Len(f)]) \in Nat
    BY <2>2 DEF SegmentBytes, Segment
  <2> QED BY <1>2, <2>2, <2>3 DEF FileSize, Segment
<1> QED BY <1>1, <1>2

\* The size of the first k buffered records in bytes.
PrefixSize(k) == IF k = 0 THEN 0 ELSE buffer[k].pos + Size[buffer[k].data]

\* Writing the first k buffered records appends exactly them to the file.
LEMMA PlacedType ==
  ASSUME TypeOK, NEW k \in 0..Len(buffer)
  PROVE  /\ Placed(k) \in Seq(Segment)
         /\ Len(Placed(k)) = k
         /\ \A i \in 1..k : Placed(k)[i] = [lsn |-> buffer[i].lsn, data |-> buffer[i].data,
                              at |-> FileSize(file) + buffer[i].pos, torn |-> 0]
<1>1. FileSize(file) \in Nat
  BY FileSizeType DEF TypeOK
<1>2. ASSUME NEW i \in 1..k
      PROVE  [lsn |-> buffer[i].lsn, data |-> buffer[i].data,
              at |-> FileSize(file) + buffer[i].pos, torn |-> 0] \in Segment
  <2>1. buffer[i] \in Buffered
    BY DEF TypeOK
  <2> QED BY <2>1, <1>1 DEF Segment, Buffered
<1> QED BY <1>2 DEF Placed

\* The file with k buffered records written: its length and its records.
LEMMA WrittenShape ==
  ASSUME TypeOK, NEW k \in 0..Len(buffer)
  PROVE  /\ Written(k) \in Seq(Segment)
         /\ Len(Written(k)) = Len(file) + k
         /\ \A i \in 1..Len(file) : Written(k)[i] = file[i]
         /\ \A i \in (Len(file) + 1)..(Len(file) + k) :
              /\ i - Len(file) \in 1..k
              /\ Written(k)[i].lsn = buffer[i - Len(file)].lsn
              /\ Written(k)[i].data = buffer[i - Len(file)].data
              /\ Written(k)[i].at = FileSize(file) + buffer[i - Len(file)].pos
              /\ Written(k)[i].torn = 0
<1>1. file \in Seq(Segment)
  BY DEF TypeOK
<1>2. Placed(k) \in Seq(Segment) /\ Len(Placed(k)) = k
  BY PlacedType
<1>3. ASSUME NEW i \in (Len(file) + 1)..(Len(file) + k)
      PROVE  i - Len(file) \in 1..k /\ Written(k)[i] = Placed(k)[i - Len(file)]
  BY <1>1, <1>2 DEF Written
<1>4. /\ Written(k) \in Seq(Segment)
      /\ Len(Written(k)) = Len(file) + k
      /\ \A i \in 1..Len(file) : Written(k)[i] = file[i]
  BY <1>1, <1>2 DEF Written
<1>5. ASSUME NEW i \in (Len(file) + 1)..(Len(file) + k)
      PROVE  /\ i - Len(file) \in 1..k
             /\ Written(k)[i].lsn = buffer[i - Len(file)].lsn
             /\ Written(k)[i].data = buffer[i - Len(file)].data
             /\ Written(k)[i].at = FileSize(file) + buffer[i - Len(file)].pos
             /\ Written(k)[i].torn = 0
  <2>1. i - Len(file) \in 1..k
    BY <1>3
  <2>2. Placed(k)[i - Len(file)] =
          [lsn |-> buffer[i - Len(file)].lsn, data |-> buffer[i - Len(file)].data,
           at |-> FileSize(file) + buffer[i - Len(file)].pos, torn |-> 0]
    BY <2>1, PlacedType
  <2> QED BY <1>3, <2>1, <2>2
<1> QED BY <1>4, <1>5

\* Written records lie one behind the other, in the order of their LSNs.
LEMMA WrittenLayout ==
  ASSUME TypeOK, FileLayout, BufferLayout, NEW k \in 0..Len(buffer)
  PROVE  /\ LaidOut(Written(k))
         /\ FileSize(Written(k)) = FileSize(file) + PrefixSize(k)
<1> DEFINE W == Written(k)
           n == Len(file)
<1>0. /\ n \in Nat
      /\ Len(buffer) \in Nat
      /\ file \in Seq(Segment)
      /\ \A i \in 1..Len(buffer) : buffer[i] \in Buffered
      /\ \A i \in 1..n : file[i] \in Segment
  BY DEF TypeOK
<1>1. /\ W \in Seq(Segment)
      /\ Len(W) = n + k
      /\ \A i \in 1..n : W[i] = file[i]
      /\ \A i \in (n + 1)..(n + k) :
           /\ i - n \in 1..k
           /\ W[i].lsn = buffer[i - n].lsn
           /\ W[i].data = buffer[i - n].data
           /\ W[i].at = FileSize(file) + buffer[i - n].pos
           /\ W[i].torn = 0
  BY WrittenShape
<1>2. FileSize(file) = (IF n = 0 THEN 0 ELSE file[n].at + Size[file[n].data])
  BY <1>0 DEF FileSize, SegmentBytes, FileLayout, LaidOut
<1>x. FileSize(file) \in Nat
  BY <1>0, FileSizeType
<1> HIDE DEF W
<1>3. ASSUME NEW i \in 1..n
      PROVE  W[i].lsn = i - 1 /\ W[i].torn = 0 /\ W[i].at = ScanOffset(W, i)
  <2>1. file[i].lsn = i - 1 /\ file[i].torn = 0 /\ file[i].at = ScanOffset(file, i)
    BY DEF FileLayout, LaidOut
  <2>2. W[i] = file[i] /\ (i # 1 => W[i - 1] = file[i - 1])
    BY <1>0, <1>1
  <2> QED BY <2>1, <2>2 DEF ScanOffset
<1>4. ASSUME NEW i \in (n + 1)..(n + k)
      PROVE  W[i].lsn = i - 1 /\ W[i].torn = 0 /\ W[i].at = ScanOffset(W, i)
  <2> DEFINE j == i - n
  <2>1. /\ j \in 1..k
        /\ W[i].lsn = buffer[j].lsn
        /\ W[i].torn = 0
        /\ W[i].at = FileSize(file) + buffer[j].pos
    BY <1>1
  <2>i. i = n + j /\ i \in Int /\ j \in Int
    BY <1>0
  <2> HIDE DEF j
  <2>2. /\ buffer[j].lsn = n + j - 1
        /\ buffer[j].pos = IF j = 1 THEN 0 ELSE buffer[j - 1].pos + Size[buffer[j - 1].data]
    BY <1>0, <2>1 DEF BufferLayout
  <2>3. W[i].lsn = i - 1
    BY <2>1, <2>2, <2>i, <1>0
  <2>4. CASE j = 1
    <3>1. i = n + 1 /\ W[i].at = FileSize(file)
      BY <2>1, <2>2, <2>4, <2>i, <1>0, <1>x
    <3>2. CASE n = 0
      <4>1. i = 1 /\ FileSize(file) = 0
        BY <3>1, <3>2, <1>2
      <4> QED BY <3>1, <4>1, <2>1, <2>3 DEF ScanOffset
    <3>3. CASE n # 0
      <4>1. W[n] = file[n] /\ i - 1 = n /\ i # 1
        BY <1>0, <1>1, <2>i, <3>1, <3>3
      <4> QED BY <2>1, <2>3, <3>1, <3>3, <4>1, <1>2 DEF ScanOffset
    <3> QED BY <3>2, <3>3
  <2>5. CASE j # 1
    <3>1. i - 1 \in (n + 1)..(n + k) /\ (i - 1) - n = j - 1 /\ i # 1 /\ j - 1 \in 1..Len(buffer)
      BY <1>0, <2>1, <2>5, <2>i
    <3>2. /\ W[i - 1].at = FileSize(file) + buffer[j - 1].pos
          /\ W[i - 1].data = buffer[j - 1].data
      BY <1>1, <3>1
    <3>3. /\ buffer[j - 1].pos \in Nat
          /\ Size[buffer[j - 1].data] \in Nat
      BY <1>0, <3>1 DEF Buffered
    <3> QED BY <2>1, <2>2, <2>3, <2>5, <3>1, <3>2, <3>3, <1>x, <2>i, <1>0, SMTT(30) DEF ScanOffset
  <2> QED BY <2>4, <2>5
<1>5. ASSUME NEW i \in 1..Len(W)
      PROVE  W[i].lsn = i - 1 /\ W[i].torn = 0 /\ W[i].at = ScanOffset(W, i)
  <2>1. i \in 1..n \/ i \in (n + 1)..(n + k)
    BY <1>0, <1>1
  <2> QED BY <2>1, <1>3, <1>4
<1>6. FileSize(W) = FileSize(file) + PrefixSize(k)
  <2>1. CASE k = 0
    <3>1. Len(W) = n /\ (n # 0 => W[n] = file[n])
      BY <1>0, <1>1, <2>1
    <3>2. FileSize(W) = FileSize(file)
      BY <1>0, <1>1, <3>1 DEF FileSize
    <3> QED BY <3>2, <1>x, <2>1 DEF PrefixSize
  <2>2. CASE k # 0
    <3>1. /\ Len(W) = n + k /\ n + k # 0 /\ k \in 1..Len(buffer)
          /\ n + k \in (n + 1)..(n + k) /\ (n + k) - n = k
      BY <1>0, <1>1, <2>2
    <3>2. /\ W[n + k].at = FileSize(file) + buffer[k].pos
          /\ W[n + k].data = buffer[k].data
          /\ W[n + k].torn = 0
      BY <1>1, <3>1
    <3>3. FileSize(W) = W[n + k].at + Size[W[n + k].data]
      BY <1>1, <3>1, <3>2 DEF FileSize, SegmentBytes
    <3>4. buffer[k].pos \in Nat /\ Size[buffer[k].data] \in Nat
      BY <1>0, <3>1 DEF Buffered
    <3> QED BY <3>2, <3>3, <3>4, <1>x, <2>2 DEF PrefixSize
  <2> QED BY <2>1, <2>2
<1> QED BY <1>5, <1>6 DEF W, LaidOut

-----------------------------------------------------------------------------
(* What a scan of a whole file rebuilds.                                   *)

\* A file without torn records is read to its end.
LEMMA ReadableAll ==
  ASSUME NEW f \in Seq(Segment), LaidOut(f)
  PROVE  Readable(f) = 1..Len(f)
BY DEF Readable, LaidOut

\* read_log leaves next_lsn_ behind the last record of the file.
LEMMA ScannedNextLsnValue ==
  ASSUME NEW f \in Seq(Segment), LaidOut(f), NEW n \in Nat, n >= Len(f) \/ n = 0
  PROVE  ScannedNextLsn(f, n) = IF n >= Len(f) THEN n ELSE Len(f)
<1> DEFINE S == {n} \cup {f[i].lsn + 1 : i \in Readable(f)}
           m == IF n >= Len(f) THEN n ELSE Len(f)
<1>1. S = {n} \cup {f[i].lsn + 1 : i \in 1..Len(f)}
  BY ReadableAll
<1>2. \A i \in 1..Len(f) : f[i].lsn + 1 = i
  BY DEF LaidOut
<1>3. S = {n} \cup 1..Len(f)
  <2>1. {f[i].lsn + 1 : i \in 1..Len(f)} = {i : i \in 1..Len(f)}
    BY <1>2
  <2> QED BY <1>1, <2>1
<1>4. m \in S /\ S \subseteq Int /\ \A x \in S : x <= m
  <2>1. Len(f) \in Nat /\ m \in Nat
    OBVIOUS
  <2>2. m \in {n} \cup 1..Len(f)
    BY <2>1
  <2>3. \A x \in {n} \cup 1..Len(f) : x \in Int /\ x <= m
    BY <2>1
  <2> HIDE DEF S, m
  <2> QED BY <1>3, <2>2, <2>3
<1>5. Max(S) = m
  <2> HIDE DEF S, m
  <2> QED BY <1>4, MaxOf
<1> QED BY <1>5 DEF ScannedNextLsn

\* read_log enters the place of every record of the file.
LEMMA ScannedIndexValue ==
  ASSUME NEW f \in Seq(Segment), LaidOut(f), NEW index
  PROVE  ScannedIndex(f, index) =
           [l \in DOMAIN index \cup 0..(Len(f) - 1) |->
              IF l \in 0..(Len(f) - 1) THEN f[l + 1].at ELSE index[l]]
<1> DEFINE lsns == {f[i].lsn : i \in Readable(f)}
<1>1. lsns = 0..(Len(f) - 1)
  <2>1. lsns = {f[i].lsn : i \in 1..Len(f)}
    BY ReadableAll
  <2>2. \A i \in 1..Len(f) : f[i].lsn = i - 1
    BY DEF LaidOut
  <2>3. lsns = {i - 1 : i \in 1..Len(f)}
    BY <2>1, <2>2
  <2>4. \A l \in 0..(Len(f) - 1) : l + 1 \in 1..Len(f) /\ l = (l + 1) - 1
    OBVIOUS
  <2>5. \A l \in 0..(Len(f) - 1) : l \in {i - 1 : i \in 1..Len(f)}
    BY <2>4
  <2>6. \A i \in 1..Len(f) : i - 1 \in 0..(Len(f) - 1)
    OBVIOUS
  <2>7. \A x : x \in {i - 1 : i \in 1..Len(f)} => x \in 0..(Len(f) - 1)
    BY <2>6
  <2> QED BY <2>3, <2>5, <2>7
<1>2. ASSUME NEW l \in 0..(Len(f) - 1)
      PROVE  ScanOffset(f, Max({i \in Readable(f) : f[i].lsn = l})) = f[l + 1].at
  <2> DEFINE T == {i \in Readable(f) : f[i].lsn = l}
  <2>1. T = {l + 1}
    BY ReadableAll DEF LaidOut
  <2>2. Max(T) = l + 1
    <3>1. l + 1 \in T /\ T \subseteq Int /\ \A x \in T : x <= l + 1
      BY <2>1
    <3> HIDE DEF T
    <3> QED BY <3>1, MaxOf
  <2>3. f[l + 1].at = ScanOffset(f, l + 1)
    BY DEF LaidOut
  <2> QED BY <2>2, <2>3
<1>3. ScannedIndex(f, index) =
        [l \in DOMAIN index \cup lsns |->
           IF l \in lsns THEN ScanOffset(f, Max({i \in Readable(f) : f[i].lsn = l}))
           ELSE index[l]]
  BY DEF ScannedIndex
<1> HIDE DEF lsns
<1> QED BY <1>1, <1>2, <1>3

\* Once the file has been scanned, scanning it again changes nothing.
LEMMA RescanIdle ==
  ASSUME NEW f \in Seq(Segment), LaidOut(f), NEW n \in Nat, n >= Len(f),
         NEW index, index \in [0..(n - 1) -> Nat],
         \A i \in 1..Len(f) : index[i - 1] = f[i].at
  PROVE  ScannedIndex(f, index) = index /\ ScannedNextLsn(f, n) = n
<1>1. ScannedNextLsn(f, n) = n
  BY ScannedNextLsnValue
<1>2. 0..(n - 1) \cup 0..(Len(f) - 1) = 0..(n - 1)
  OBVIOUS
<1>3. \A l \in 0..(Len(f) - 1) : f[l + 1].at = index[l]
  <2>1. ASSUME NEW l \in 0..(Len(f) - 1)
        PROVE  f[l + 1].at = index[l]
    <3>1. l + 1 \in 1..Len(f) /\ (l + 1) - 1 = l
      OBVIOUS
    <3> QED BY <3>1
  <2> QED BY <2>1
<1>4. ScannedIndex(f, index) = [l \in 0..(n - 1) |-> index[l]]
  <2>1. DOMAIN index = 0..(n - 1)
    OBVIOUS
  <2>2. ScannedIndex(f, index) =
          [l \in 0..(n - 1) |->
             IF l \in 0..(Len(f) - 1) THEN f[l + 1].at ELSE index[l]]
    <3>1. DOMAIN index \cup 0..(Len(f) - 1) = 0..(n - 1)
      BY <1>2, <2>1
    <3>2. ScannedIndex(f, index) =
            [l \in DOMAIN index \cup 0..(Len(f) - 1) |->
               IF l \in 0..(Len(f) - 1) THEN f[l + 1].at ELSE index[l]]
      BY ScannedIndexValue
    <3> QED BY <3>1, <3>2
  <2> QED BY <2>2, <1>3
<1> QED BY <1>1, <1>4

-----------------------------------------------------------------------------
(* The inductive invariant.                                                *)

\* A fresh log satisfies the invariant.
LEMMA InitIInv == Init => IInv
BY DEF Init, IInv, TypeOK, FileLayout, LaidOut, BufferLayout, Counters, IndexLayout,
       FileSize, NoLsn

\* append puts its record behind the others and notes the place it will have.
LEMMA AppendIInv ==
  ASSUME IInv, NEW d \in Data, append(d)
  PROVE  IInv'
<1> DEFINE n == Len(file)
           b == Len(buffer)
           r == [lsn |-> next_lsn, data |-> d, pos |-> BufferSize(buffer)]
<1>1. /\ TypeOK /\ FileLayout /\ BufferLayout /\ Counters /\ IndexLayout
      /\ open /\ n \in Nat /\ b \in Nat
      /\ write_offset = FileSize(file) /\ write_offset \in Nat
      /\ next_lsn = n + b
      /\ flushed_lsn \in {NoLsn, n - 1}
  BY DEF IInv, TypeOK, Counters, append
<1>2. BufferSize(buffer) = (IF b = 0 THEN 0 ELSE buffer[b].pos + Size[buffer[b].data])
  BY <1>1 DEF BufferSize, TypeOK
<1>3. BufferSize(buffer) \in Nat
  <2>1. CASE b = 0
    BY <1>2, <2>1
  <2>2. CASE b # 0
    <3>1. buffer[b] \in Buffered
      BY <1>1, <2>2 DEF TypeOK
    <3> QED BY <1>2, <2>2, <3>1 DEF Buffered
  <2> QED BY <2>1, <2>2
<1>4. r \in Buffered
  BY <1>1, <1>3 DEF Buffered
<1>5. /\ buffer' = Append(buffer, r)
      /\ next_lsn' = n + b + 1
      /\ UNCHANGED <<file, write_offset, flushed_lsn, open>>
      /\ lsn_index' = [l \in DOMAIN lsn_index \cup {next_lsn} |->
                         IF l = next_lsn THEN write_offset + BufferSize(buffer)
                         ELSE lsn_index[l]]
  BY <1>1 DEF append
<1> HIDE DEF r
<1>6. /\ buffer' \in Seq(Buffered)
      /\ Len(buffer') = b + 1
      /\ \A i \in 1..b : buffer'[i] = buffer[i]
      /\ buffer'[b + 1] = r
  BY <1>1, <1>4, <1>5 DEF TypeOK
<1>7. /\ DOMAIN lsn_index' = 0..(n + b)
      /\ \A l \in 0..(n + b - 1) : lsn_index'[l] = lsn_index[l]
      /\ lsn_index'[n + b] = FileSize(file) + BufferSize(buffer)
      /\ lsn_index' \in [0..(n + b) -> Nat]
  <2>1. DOMAIN lsn_index = 0..(n + b - 1) /\ lsn_index \in [DOMAIN lsn_index -> Nat]
    BY <1>1 DEF IndexLayout, TypeOK
  <2>2. DOMAIN lsn_index \cup {next_lsn} = 0..(n + b)
    BY <1>1, <2>1
  <2>3. lsn_index' = [l \in 0..(n + b) |->
                         IF l = n + b THEN FileSize(file) + BufferSize(buffer)
                         ELSE lsn_index[l]]
    BY <1>1, <1>5, <2>2
  <2>4. \A l \in 0..(n + b) : l # n + b => lsn_index[l] \in Nat
    BY <1>1, <2>1
  <2> QED BY <1>1, <1>3, <2>3, <2>4
<1>8. TypeOK'
  BY <1>1, <1>5, <1>6, <1>7 DEF TypeOK
<1>9. FileLayout'
  BY <1>1, <1>5 DEF FileLayout
<1>10. BufferLayout'
  <2> SUFFICES ASSUME NEW i \in 1..(b + 1)
               PROVE  /\ buffer'[i].lsn = n + i - 1
                      /\ buffer'[i].pos = IF i = 1 THEN 0
                                          ELSE buffer'[i - 1].pos + Size[buffer'[i - 1].data]
    BY <1>5, <1>6 DEF BufferLayout
  <2>1. CASE i \in 1..b
    <3>1. buffer'[i] = buffer[i] /\ (i # 1 => buffer'[i - 1] = buffer[i - 1])
      BY <1>1, <1>6, <2>1
    <3> QED BY <1>1, <2>1, <3>1 DEF BufferLayout
  <2>2. CASE i = b + 1
    <3>1. buffer'[i].lsn = n + b /\ buffer'[i].pos = BufferSize(buffer)
      BY <1>1, <1>6, <2>2 DEF r
    <3>2. b # 0 => buffer'[i - 1] = buffer[b] /\ i # 1
      BY <1>1, <1>6, <2>2
    <3> QED BY <1>1, <1>2, <2>2, <3>1, <3>2
  <2> QED BY <1>1, <2>1, <2>2
<1>11. Counters'
  BY <1>1, <1>5, <1>6 DEF Counters
<1>12. IndexLayout'
  <2>1. DOMAIN lsn_index' = 0..(next_lsn' - 1)
    BY <1>1, <1>5, <1>7
  <2>2. ASSUME NEW i \in 1..n
        PROVE  lsn_index'[i - 1] = file[i].at
    <3>1. i - 1 \in 0..(n + b - 1)
      BY <1>1
    <3> QED BY <1>1, <1>7, <3>1 DEF IndexLayout
  <2>3. ASSUME NEW i \in 1..(b + 1)
        PROVE  lsn_index'[n + i - 1] = FileSize(file) + buffer'[i].pos
    <3>1. CASE i \in 1..b
      <4>1. n + i - 1 \in 0..(n + b - 1) /\ buffer'[i] = buffer[i]
        BY <1>1, <1>6, <3>1
      <4> QED BY <1>1, <1>7, <3>1, <4>1 DEF IndexLayout
    <3>2. CASE i = b + 1
      <4>1. n + i - 1 = n + b /\ buffer'[i].pos = BufferSize(buffer)
        BY <1>1, <1>6, <3>2 DEF r
      <4> QED BY <1>7, <4>1
    <3> QED BY <1>1, <3>1, <3>2
  <2> QED BY <1>5, <1>6, <2>1, <2>2, <2>3 DEF IndexLayout
<1> QED BY <1>8, <1>9, <1>10, <1>11, <1>12 DEF IInv

\* Writing the buffer moves every record to the place noted for it.
LEMMA FlushFacts ==
  ASSUME IInv, open, flush_all_unlocked
  PROVE  /\ file' \in Seq(Segment)
         /\ LaidOut(file')
         /\ buffer' = <<>>
         /\ write_offset' = FileSize(file')
         /\ next_lsn = Len(file')
         /\ flushed_lsn' \in {NoLsn, Len(file') - 1}
         /\ \A i \in 1..Len(file') : lsn_index[i - 1] = file'[i].at
<1> DEFINE n == Len(file)
           b == Len(buffer)
           W == Written(b)
<1>1. /\ TypeOK /\ FileLayout /\ BufferLayout /\ Counters /\ IndexLayout
      /\ file \in Seq(Segment) /\ buffer \in Seq(Buffered)
      /\ n \in Nat /\ b \in Nat
      /\ write_offset = FileSize(file)
      /\ next_lsn = n + b
      /\ flushed_lsn \in {NoLsn, n - 1}
  BY DEF IInv, TypeOK, Counters
<1>2. CASE buffer = <<>>
  <2>1. UNCHANGED <<file, buffer, write_offset, flushed_lsn>> /\ b = 0
    BY <1>2 DEF flush_all_unlocked
  <2> QED BY <1>1, <1>2, <2>1 DEF FileLayout, IndexLayout
<1>3. CASE buffer # <<>>
  <2>1. /\ file' = W
        /\ flushed_lsn' = next_lsn - 1
        /\ write_offset' = write_offset + BufferSize(buffer)
        /\ buffer' = <<>>
    BY <1>3 DEF flush_all_unlocked
  <2>2. b \in 0..Len(buffer) /\ b # 0
    BY <1>1, <1>3
  <2>3. LaidOut(W) /\ FileSize(W) = FileSize(file) + PrefixSize(b)
    BY <1>1, <2>2, WrittenLayout
  <2>4. BufferSize(buffer) = PrefixSize(b)
    BY <1>3, <2>2 DEF BufferSize, PrefixSize
  <2>5. /\ W \in Seq(Segment)
        /\ Len(W) = n + b
        /\ \A i \in 1..n : W[i] = file[i]
        /\ \A i \in (n + 1)..(n + b) :
             /\ i - n \in 1..b
             /\ W[i].at = FileSize(file) + buffer[i - n].pos
    BY <1>1, <2>2, WrittenShape
  <2> HIDE DEF W
  <2>6. ASSUME NEW i \in 1..Len(W)
        PROVE  lsn_index[i - 1] = W[i].at
    <3>1. CASE i \in 1..n
      BY <1>1, <2>5, <3>1 DEF IndexLayout
    <3>2. CASE i \in (n + 1)..(n + b)
      <4> DEFINE j == i - n
      <4>1. j \in 1..b /\ W[i].at = FileSize(file) + buffer[j].pos
        BY <2>5, <3>2
      <4>2. n + j - 1 = i - 1
        BY <1>1, <3>2
      <4> HIDE DEF j
      <4>3. lsn_index[n + j - 1] = FileSize(file) + buffer[j].pos
        BY <1>1, <4>1 DEF IndexLayout
      <4> QED BY <4>1, <4>2, <4>3
    <3> QED BY <1>1, <2>5, <3>1, <3>2
  <2> QED BY <1>1, <2>1, <2>3, <2>4, <2>5, <2>6
<1> QED BY <1>2, <1>3

\* A flush that leaves the index and next_lsn_ alone keeps the invariant.
LEMMA FlushIInv ==
  ASSUME IInv, open, flush_all_unlocked, UNCHANGED <<lsn_index, next_lsn, open>>
  PROVE  IInv'
<1>1. /\ file' \in Seq(Segment)
      /\ LaidOut(file')
      /\ buffer' = <<>>
      /\ write_offset' = FileSize(file')
      /\ next_lsn = Len(file')
      /\ flushed_lsn' \in {NoLsn, Len(file') - 1}
      /\ \A i \in 1..Len(file') : lsn_index[i - 1] = file'[i].at
  BY FlushFacts
<1>2. TypeOK /\ IndexLayout
  BY DEF IInv
<1>3. FileSize(file') \in Nat
  BY <1>1, FileSizeType
<1>4. TypeOK'
  BY <1>1, <1>2, <1>3 DEF TypeOK, NoLsn
<1>5. FileLayout' /\ BufferLayout'
  BY <1>1 DEF FileLayout, BufferLayout
<1>6. Counters' /\ IndexLayout'
  BY <1>1, <1>2 DEF Counters, IndexLayout
<1> QED BY <1>4, <1>5, <1>6 DEF IInv

\* A second read_log finds nothing the object does not know already.
LEMMA ReadLogIdle ==
  ASSUME IInv, open
  PROVE  ScannedIndex(file, lsn_index) = lsn_index /\ ScannedNextLsn(file, next_lsn) = next_lsn
<1>1. /\ file \in Seq(Segment) /\ LaidOut(file)
      /\ next_lsn \in Nat /\ next_lsn >= Len(file)
      /\ \A i \in 1..Len(file) : lsn_index[i - 1] = file[i].at
  BY DEF IInv, TypeOK, FileLayout, Counters, IndexLayout
<1>2. lsn_index \in [0..(next_lsn - 1) -> Nat]
  BY DEF IInv, TypeOK, IndexLayout
<1> QED BY <1>1, <1>2, RescanIdle

\* read_record_at_lsn preserves the invariant: a flush, and a scan that finds nothing new.
LEMMA ReadRecordIInv ==
  ASSUME IInv, NEW l \in Nat, read_record_at_lsn(l)
  PROVE  IInv'
<1>1. open /\ flush_all_unlocked /\ UNCHANGED open
  BY DEF read_record_at_lsn
<1>2. UNCHANGED <<lsn_index, next_lsn>>
  <2>1. /\ file' \in Seq(Segment) /\ LaidOut(file')
        /\ next_lsn = Len(file')
        /\ \A i \in 1..Len(file') : lsn_index[i - 1] = file'[i].at
    BY <1>1, FlushFacts
  <2>2. next_lsn \in Nat /\ next_lsn >= Len(file')
    BY <2>1 DEF IInv, TypeOK
  <2>3. lsn_index \in [0..(next_lsn - 1) -> Nat]
    BY <1>1 DEF IInv, TypeOK, IndexLayout
  <2>4. ScannedIndex(file', lsn_index) = lsn_index /\ ScannedNextLsn(file', next_lsn) = next_lsn
    BY <2>1, <2>2, <2>3, RescanIdle
  <2> QED BY <2>4 DEF read_record_at_lsn
<1> QED BY <1>1, <1>2, FlushIInv

\* When the object goes, a file with whole records in LSN order is left.
LEMMA EndIInv ==
  ASSUME IInv, open, NEW k \in 0..Len(buffer), file' = Written(k), ForgetMemory
  PROVE  IInv'
<1>1. TypeOK /\ FileLayout /\ BufferLayout
  BY DEF IInv
<1>2. file' \in Seq(Segment) /\ LaidOut(file')
  BY <1>1, WrittenShape, WrittenLayout
<1>3. TypeOK'
  <2>1. buffer' \in Seq(Buffered) /\ lsn_index' = <<>>
    BY DEF ForgetMemory
  <2>2. DOMAIN lsn_index' \subseteq Nat /\ lsn_index' \in [DOMAIN lsn_index' -> Nat]
    BY <2>1
  <2>3. write_offset' \in Nat /\ next_lsn' \in Nat /\ open' \in BOOLEAN
        /\ flushed_lsn' \in Nat \cup {NoLsn}
    BY DEF ForgetMemory
  <2> QED BY <1>2, <2>1, <2>2, <2>3 DEF TypeOK
<1>4. FileLayout' /\ BufferLayout' /\ Counters' /\ IndexLayout'
  BY <1>2 DEF FileLayout, BufferLayout, Counters, IndexLayout, ForgetMemory
<1> QED BY <1>3, <1>4 DEF IInv

\* The constructor and its read_log rebuild offsets and counters.
LEMMA OpenIInv ==
  ASSUME IInv, Open
  PROVE  IInv'
<1>1. /\ file \in Seq(Segment) /\ LaidOut(file)
      /\ buffer = <<>> /\ lsn_index = <<>> /\ next_lsn = 0 /\ flushed_lsn = NoLsn
      /\ \A i \in 1..Len(file) : file[i] \in Segment
  BY DEF IInv, TypeOK, FileLayout, Counters, Open
<1>2. next_lsn' = Len(file)
  BY <1>1, ScannedNextLsnValue DEF Open
<1>3. lsn_index' = [l \in 0..(Len(file) - 1) |-> file[l + 1].at]
  <2>1. DOMAIN lsn_index = {}
    BY <1>1
  <2>2. DOMAIN lsn_index \cup 0..(Len(file) - 1) = 0..(Len(file) - 1)
    BY <2>1
  <2>3. ScannedIndex(file, lsn_index) =
          [l \in DOMAIN lsn_index \cup 0..(Len(file) - 1) |->
             IF l \in 0..(Len(file) - 1) THEN file[l + 1].at ELSE lsn_index[l]]
    <3>1. file \in Seq(Segment) /\ LaidOut(file)
      BY <1>1
    <3> QED BY ONLY <3>1, ScannedIndexValue
  <2>4. lsn_index' = ScannedIndex(file, lsn_index)
    BY DEF Open
  <2> QED BY <2>2, <2>3, <2>4
<1>4. /\ write_offset' = FileSize(file) /\ FileSize(file) \in Nat
      /\ open' = TRUE
      /\ UNCHANGED <<file, buffer, flushed_lsn>>
  BY <1>1, FileSizeType DEF Open
<1>5. lsn_index' \in [0..(Len(file) - 1) -> Nat] /\ DOMAIN lsn_index' = 0..(Len(file) - 1)
  <2>1. \A l \in 0..(Len(file) - 1) : file[l + 1].at \in Nat
    BY <1>1 DEF Segment
  <2> QED BY <1>3, <2>1
<1>6. TypeOK'
  BY <1>1, <1>2, <1>4, <1>5 DEF TypeOK
<1>7. FileLayout' /\ BufferLayout' /\ Counters'
  BY <1>1, <1>2, <1>4 DEF FileLayout, BufferLayout, Counters
<1>8. IndexLayout'
  <2>1. ASSUME NEW i \in 1..Len(file)
        PROVE  lsn_index'[i - 1] = file[i].at
    <3>1. i - 1 \in 0..(Len(file) - 1) /\ (i - 1) + 1 = i
      BY <1>1
    <3> QED BY <1>3, <3>1
  <2> QED BY <1>1, <1>2, <1>4, <1>5, <2>1 DEF IndexLayout
<1> QED BY <1>6, <1>7, <1>8 DEF IInv

\* Every step preserves the invariant.
LEMMA NextIInv == IInv /\ [Next]_vars => IInv'
<1> SUFFICES ASSUME IInv, [Next]_vars
             PROVE  IInv'
  OBVIOUS
<1>1. ASSUME NEW d \in Data, append(d)
      PROVE  IInv'
  BY <1>1, AppendIInv
<1>2. ASSUME NEW l \in 0..MaxRecords, flush(l)
      PROVE  IInv'
  <2>1. CASE flush_all_unlocked
    BY <1>2, <2>1, FlushIInv DEF flush
  <2>2. CASE UNCHANGED <<file, buffer, write_offset, flushed_lsn>>
    BY <1>2, <2>2 DEF flush, IInv, TypeOK, FileLayout, BufferLayout, Counters, IndexLayout
  <2> QED BY <1>2, <2>1, <2>2 DEF flush
<1>3. CASE flush_all
  BY <1>3, FlushIInv DEF flush_all
<1>4. CASE read_log
  <2>1. UNCHANGED vars
    BY <1>4, ReadLogIdle DEF read_log, vars
  <2> QED BY <2>1 DEF vars, IInv, TypeOK, FileLayout, BufferLayout, Counters, IndexLayout
<1>5. ASSUME NEW l \in 0..MaxRecords, read_record_at_lsn(l)
      PROVE  IInv'
  BY <1>5, ReadRecordIInv
<1>6. CASE Close
  <2>1. Len(buffer) \in 0..Len(buffer)
    BY DEF IInv, TypeOK
  <2> QED BY <1>6, <2>1, EndIInv DEF Close
<1>7. CASE Crash
  BY <1>7, EndIInv DEF Crash
<1>8. CASE Open
  BY <1>8, OpenIInv
<1>9. CASE UNCHANGED vars
  BY <1>9 DEF vars, IInv, TypeOK, FileLayout, BufferLayout, Counters, IndexLayout
<1> QED BY <1>1, <1>2, <1>3, <1>4, <1>5, <1>6, <1>7, <1>8, <1>9 DEF Next

\* Whatever the calls, crashes and restarts, the records lie in LSN order and
\* the counters agree with them.
THEOREM Invariance == Spec => []IInv
BY InitIInv, NextIInv, PTL DEF Spec

-----------------------------------------------------------------------------
(* What follows from it.                                                   *)

\* Offsets, LSNs and the index keep their types; write_offset_ never underflows.
THEOREM TypeCorrect == Spec => []TypeOK
<1>1. IInv => TypeOK
  BY DEF IInv
<1> QED BY <1>1, Invariance, PTL

\* An LSN is the position of its record: append never hands one out twice.
THEOREM LsnsArePositions == Spec => []LsnIsPosition
<1>1. IInv => LsnIsPosition
  <2> SUFFICES ASSUME IInv PROVE LsnIsPosition
    OBVIOUS
  <2>1. Len(buffer) \in 0..Len(buffer) /\ TypeOK /\ FileLayout /\ BufferLayout
    BY DEF IInv, TypeOK
  <2>2. LaidOut(Written(Len(buffer)))
    BY <2>1, WrittenLayout
  <2> QED BY <2>2 DEF LsnIsPosition, LaidOut
<1> QED BY <1>1, Invariance, PTL

\* Every record up to flushed_lsn_ is in the file, in front of any torn record.
THEOREM FlushedRecordsAreDurable == Spec => []FlushedIsDurable
<1>1. IInv => FlushedIsDurable
  <2> SUFFICES ASSUME IInv, flushed_lsn # NoLsn, NEW l \in 0..flushed_lsn
               PROVE  \E i \in Readable(file) : file[i].lsn = l
    BY DEF FlushedIsDurable
  <2>1. file \in Seq(Segment) /\ LaidOut(file) /\ flushed_lsn = Len(file) - 1
    BY DEF IInv, TypeOK, FileLayout, Counters
  <2>2. Readable(file) = 1..Len(file)
    BY <2>1, ReadableAll
  <2>3. l + 1 \in 1..Len(file) /\ (l + 1) - 1 = l
    BY <2>1
  <2>4. file[l + 1].lsn = l
    BY <2>1, <2>3 DEF LaidOut
  <2> QED BY <2>2, <2>3, <2>4
<1> QED BY <1>1, Invariance, PTL

\* The offset read_record_at_lsn looks up is the place of the record it wants.
THEOREM IndexIsAccurate == Spec => []IndexAccurate
<1>1. IInv => IndexAccurate
  <2> DEFINE b == Len(buffer)
             n == Len(file)
             all == Written(b)
  <2> SUFFICES ASSUME IInv, open
               PROVE  /\ \A l \in DOMAIN lsn_index :
                           \E i \in 1..Len(all) : all[i].lsn = l /\ all[i].at = lsn_index[l]
                      /\ \A i \in 1..Len(all) : all[i].lsn \in DOMAIN lsn_index
    BY DEF IndexAccurate
  <2>1. /\ b \in 0..Len(buffer) /\ TypeOK /\ FileLayout /\ BufferLayout
        /\ n \in Nat /\ b \in Nat
        /\ DOMAIN lsn_index = 0..(n + b - 1)
    BY DEF IInv, TypeOK, Counters, IndexLayout
  <2>2. LaidOut(all)
    BY <2>1, WrittenLayout
  <2>3. /\ Len(all) = n + b
        /\ \A i \in 1..n : all[i] = file[i]
        /\ \A i \in (n + 1)..(n + b) :
             i - n \in 1..b /\ all[i].at = FileSize(file) + buffer[i - n].pos
    BY <2>1, WrittenShape
  <2> HIDE DEF all
  <2>4. ASSUME NEW l \in 0..(n + b - 1)
        PROVE  /\ l + 1 \in 1..Len(all)
               /\ all[l + 1].lsn = l
               /\ all[l + 1].at = lsn_index[l]
    <3>1. l + 1 \in 1..Len(all) /\ (l + 1) - 1 = l
      BY <2>1, <2>3
    <3>2. all[l + 1].lsn = l
      BY <2>2, <3>1 DEF LaidOut
    <3>3. CASE l + 1 \in 1..n
      <4>1. all[l + 1] = file[l + 1] /\ lsn_index[(l + 1) - 1] = file[l + 1].at
        BY <2>3, <3>3 DEF IInv, IndexLayout
      <4> QED BY <3>1, <3>2, <4>1
    <3>4. CASE l + 1 \in (n + 1)..(n + b)
      <4> DEFINE j == (l + 1) - n
      <4>1. j \in 1..b /\ all[l + 1].at = FileSize(file) + buffer[j].pos
        BY <2>3, <3>4
      <4>2. n + j - 1 = l
        BY <2>1
      <4> HIDE DEF j
      <4>3. lsn_index[n + j - 1] = FileSize(file) + buffer[j].pos
        BY <4>1 DEF IInv, IndexLayout
      <4> QED BY <3>1, <3>2, <4>1, <4>2, <4>3
    <3> QED BY <2>1, <2>3, <3>1, <3>3, <3>4
  <2>5. ASSUME NEW i \in 1..Len(all)
        PROVE  all[i].lsn \in DOMAIN lsn_index
    BY <2>1, <2>2, <2>3 DEF LaidOut
  <2> QED BY <2>1, <2>4, <2>5
<1> QED BY <1>1, Invariance, PTL

-----------------------------------------------------------------------------
(* LogManager implements DurableLog.                                       *)

\* The contents of a sequence of records are a sequence of contents.
LEMMA DataOfType ==
  ASSUME NEW R, NEW s \in Seq(R), \A r \in R : r.data \in Data
  PROVE  /\ DataOf(s) \in Seq(Data)
         /\ Len(DataOf(s)) = Len(s)
         /\ \A i \in 1..Len(s) : DataOf(s)[i] = s[i].data
<1>1. \A i \in 1..Len(s) : s[i].data \in Data
  OBVIOUS
<1> QED BY <1>1 DEF DataOf

\* The contents of the file and of the buffer.
LEMMA DataOfLog ==
  ASSUME TypeOK
  PROVE  /\ DataOf(file) \in Seq(Data)
         /\ Len(DataOf(file)) = Len(file)
         /\ \A i \in 1..Len(file) : DataOf(file)[i] = file[i].data
         /\ DataOf(buffer) \in Seq(Data)
         /\ Len(DataOf(buffer)) = Len(buffer)
         /\ \A i \in 1..Len(buffer) : DataOf(buffer)[i] = buffer[i].data
<1>1. \A r \in Segment : r.data \in Data
  BY DEF Segment
<1>2. \A r \in Buffered : r.data \in Data
  BY DEF Buffered
<1> QED BY <1>1, <1>2, DataOfType DEF TypeOK

\* Writing k records moves their contents from the pending to the stable part.
LEMMA DataOfWritten ==
  ASSUME TypeOK, NEW k \in 0..Len(buffer)
  PROVE  DataOf(Written(k)) = DataOf(file) \o SubSeq(DataOf(buffer), 1, k)
<1> DEFINE n == Len(file)
           W == Written(k)
           P == SubSeq(DataOf(buffer), 1, k)
           L == DataOf(W)
           R == DataOf(file) \o P
<1>0. /\ n \in Nat /\ k \in Nat /\ k <= Len(buffer) /\ Len(buffer) \in Nat
      /\ DataOf(file) \in Seq(Data) /\ Len(DataOf(file)) = n
      /\ \A i \in 1..n : DataOf(file)[i] = file[i].data
      /\ DataOf(buffer) \in Seq(Data) /\ Len(DataOf(buffer)) = Len(buffer)
      /\ \A i \in 1..Len(buffer) : DataOf(buffer)[i] = buffer[i].data
  BY DataOfLog DEF TypeOK
<1>1. /\ W \in Seq(Segment) /\ Len(W) = n + k
      /\ \A i \in 1..n : W[i] = file[i]
      /\ \A i \in (n + 1)..(n + k) : i - n \in 1..k /\ W[i].data = buffer[i - n].data
  BY WrittenShape
<1> HIDE DEF W
<1>2. /\ L \in Seq(Data) /\ Len(L) = n + k
      /\ \A i \in 1..(n + k) : L[i] = W[i].data
  <2>1. \A r \in Segment : r.data \in Data
    BY DEF Segment
  <2> QED BY <1>1, <2>1, DataOfType
<1>3. P \in Seq(Data) /\ Len(P) = k /\ \A i \in 1..k : P[i] = buffer[i].data
  <2> DEFINE B == DataOf(buffer)
  <2>1. B \in Seq(Data) /\ Len(B) = Len(buffer) /\ \A i \in 1..k : B[i] = buffer[i].data
    BY <1>0
  <2> HIDE DEF B
  <2>2. SubSeq(B, 1, k) \in Seq(Data) /\ Len(SubSeq(B, 1, k)) = k
        /\ \A i \in 1..k : SubSeq(B, 1, k)[i] = B[i]
    <3>1. \A i \in 1..k : B[i] \in Data
      BY <1>0, <2>1
    <3>2. /\ SubSeq(B, 1, k) \in Seq(Data)
          /\ Len(SubSeq(B, 1, k)) = IF 1 <= k THEN k - 1 + 1 ELSE 0
          /\ \A i \in 1..(k - 1 + 1) : SubSeq(B, 1, k)[i] = B[1 + i - 1]
      BY <1>0, <3>1, SubSeqProperties
    <3> QED BY <1>0, <3>2
  <2> QED BY <2>1, <2>2 DEF B
<1> HIDE DEF P, L
<1>4. /\ R \in Seq(Data) /\ Len(R) = n + k
      /\ \A i \in 1..n : R[i] = file[i].data
      /\ \A i \in (n + 1)..(n + k) : R[i] = P[i - n]
  <2> DEFINE F == DataOf(file)
  <2>1. F \in Seq(Data) /\ Len(F) = n /\ \A i \in 1..n : F[i] = file[i].data
    BY <1>0
  <2> HIDE DEF F
  <2>2. /\ F \o P \in Seq(Data) /\ Len(F \o P) = n + k
        /\ \A i \in 1..n : (F \o P)[i] = F[i]
        /\ \A i \in (n + 1)..(n + k) : (F \o P)[i] = P[i - n]
    <3>1. /\ F \o P \in Seq(Data)
          /\ Len(F \o P) = Len(F) + Len(P)
          /\ \A i \in 1..(Len(F) + Len(P)) :
               (F \o P)[i] = IF i <= Len(F) THEN F[i] ELSE P[i - Len(F)]
      BY <1>3, <2>1, ConcatProperties
    <3> QED BY <1>0, <1>3, <2>1, <3>1
  <2> QED BY <2>1, <2>2 DEF F
<1> HIDE DEF R
<1>5. ASSUME NEW i \in 1..(n + k)
      PROVE  L[i] = R[i]
  <2>1. CASE i \in 1..n
    BY <1>1, <1>2, <1>4, <2>1
  <2>2. CASE i \in (n + 1)..(n + k)
    <3>1. R[i] = P[i - n] /\ i - n \in 1..k /\ W[i].data = buffer[i - n].data
      BY <1>1, <1>4, <2>2
    <3> QED BY <1>2, <1>3, <3>1
  <2> QED BY <1>0, <2>1, <2>2
<1>6. L = R
  BY <1>2, <1>4, <1>5, SeqEqual
<1> QED BY <1>6 DEF L, R, W, P

\* The log that the file and the buffer stand for.
Log == [stable |-> DataOf(file), pending |-> DataOf(buffer), flushed |-> flushed_lsn]

\* DurableLog sees the log through the same operators.
LEMMA SameOperators ==
  /\ Durable!EmptyLog = EmptyLog
  /\ \A l, d : Durable!Appended(l, d) = Appended(l, d)
  /\ \A l : Durable!Synced(l) = Synced(l)
  /\ \A l, k : Durable!Reopened(l, k) = Reopened(l, k)
BY DEF Durable!EmptyLog, Durable!Appended, Durable!Synced, Durable!Reopened, Durable!Records,
       Durable!NextLsn, Durable!NoLsn, EmptyLog, Appended, Synced, Reopened, Records, NextLsn,
       NoLsn

\* A fresh log maps to the empty log.
LEMMA InitRefines == Init => Durable!Init
<1> SUFFICES ASSUME Init PROVE Log = EmptyLog
  BY SameOperators DEF Durable!Init, Log
<1>1. DataOf(<<>>) = <<>>
  BY DEF DataOf
<1> QED BY <1>1 DEF Init, Log, EmptyLog

\* A flush makes the pending part stable, and nothing else.
LEMMA FlushRefines ==
  ASSUME IInv, open, flush_all_unlocked
  PROVE  Log' = Synced(Log)
<1>1. TypeOK /\ Counters /\ Len(buffer) \in 0..Len(buffer)
  BY DEF IInv, TypeOK
<1>2. /\ DataOf(file) \in Seq(Data) /\ Len(DataOf(file)) = Len(file)
      /\ DataOf(buffer) \in Seq(Data) /\ Len(DataOf(buffer)) = Len(buffer)
      /\ Len(buffer) \in Nat
  BY <1>1, DataOfLog
<1>3. CASE buffer = <<>>
  <2>1. UNCHANGED <<file, buffer, flushed_lsn>>
    BY <1>3 DEF flush_all_unlocked
  <2>2. DataOf(buffer) = <<>>
    BY <1>2, <1>3
  <2> QED BY <2>1, <2>2 DEF Log, Synced
<1>4. CASE buffer # <<>>
  <2>1. file' = Written(Len(buffer)) /\ buffer' = <<>> /\ flushed_lsn' = next_lsn - 1
    BY <1>4 DEF flush_all_unlocked
  <2>2. SubSeq(DataOf(buffer), 1, Len(buffer)) = DataOf(buffer)
    BY <1>2, SubSeqFull
  <2>3. DataOf(file') = DataOf(file) \o DataOf(buffer)
    BY <1>1, <2>1, <2>2, DataOfWritten
  <2>4. DataOf(buffer') = <<>>
    BY <2>1 DEF DataOf
  <2>5. flushed_lsn' = Len(DataOf(file)) + Len(DataOf(buffer)) - 1
    BY <1>1, <1>2, <2>1 DEF Counters
  <2>6. DataOf(buffer) # <<>>
    BY <1>1, <1>2, <1>4 DEF TypeOK
  <2> QED BY <2>3, <2>4, <2>5, <2>6 DEF Log, Synced, Records, NextLsn
<1> QED BY <1>3, <1>4

\* When the object goes, the stable part grows by a prefix of the pending part.
LEMMA EndRefines ==
  ASSUME IInv, NEW k \in 0..Len(buffer), file' = Written(k), ForgetMemory
  PROVE  k \in 0..Len(Log.pending) /\ Log' = Reopened(Log, k)
<1>1. TypeOK
  BY DEF IInv
<1>2. DataOf(file') = DataOf(file) \o SubSeq(DataOf(buffer), 1, k)
  BY <1>1, DataOfWritten
<1>3. DataOf(buffer') = <<>> /\ flushed_lsn' = NoLsn
  BY DEF ForgetMemory, DataOf
<1>4. Len(DataOf(buffer)) = Len(buffer)
  BY <1>1, DataOfLog
<1> QED BY <1>2, <1>3, <1>4 DEF Log, Reopened

\* Appended touches the pending records only.
LEMMA AppendedFields ==
  ASSUME NEW s, NEW p, NEW n, NEW d
  PROVE  Appended([stable |-> s, pending |-> p, flushed |-> n], d)
           = [stable |-> s, pending |-> Append(p, d), flushed |-> n]
<1> DEFINE l == [stable |-> s, pending |-> p, flushed |-> n]
<1>1. l.pending = p
  OBVIOUS
<1>2. ASSUME NEW q
      PROVE  [l EXCEPT !.pending = q] = [stable |-> s, pending |-> q, flushed |-> n]
  OBVIOUS
<1> HIDE DEF l
<1>3. Appended(l, d) = [l EXCEPT !.pending = Append(p, d)]
  BY <1>1, Zenon DEF Appended
<1>4. Appended(l, d) = [stable |-> s, pending |-> Append(p, d), flushed |-> n]
  BY <1>2, <1>3, Zenon
<1> QED BY <1>4 DEF l

\* Every step of LogManager is a step of the durable log, or none.
LEMMA NextRefines ==
  ASSUME IInv, IInv', [Next]_vars
  PROVE  [Durable!Next]_Log
<1>1. ASSUME NEW d \in Data, append(d)
      PROVE  Log' = Appended(Log, d)
  <2>1. /\ TypeOK
        /\ buffer' = Append(buffer, [lsn |-> next_lsn, data |-> d, pos |-> BufferSize(buffer)])
        /\ UNCHANGED <<file, flushed_lsn>>
        /\ TypeOK'
    BY <1>1 DEF append, IInv
  <2>2. /\ DataOf(buffer) \in Seq(Data) /\ Len(DataOf(buffer)) = Len(buffer)
        /\ \A i \in 1..Len(buffer) : DataOf(buffer)[i] = buffer[i].data
    BY <2>1, DataOfLog
  <2>3. /\ DataOf(buffer') \in Seq(Data) /\ Len(DataOf(buffer')) = Len(buffer')
        /\ \A i \in 1..Len(buffer') : DataOf(buffer')[i] = buffer'[i].data
    <3>1. \A r \in Buffered : r.data \in Data
      BY DEF Buffered
    <3> QED BY <2>1, <3>1, DataOfType DEF TypeOK
  <2>4. /\ Len(buffer') = Len(buffer) + 1
        /\ \A i \in 1..Len(buffer) : buffer'[i] = buffer[i]
        /\ buffer'[Len(buffer) + 1].data = d
        /\ Len(buffer) \in Nat
    BY <2>1 DEF TypeOK
  <2>5. DataOf(buffer') = Append(DataOf(buffer), d)
    <3> DEFINE A == DataOf(buffer')
               B == DataOf(buffer)
               b == Len(buffer)
    <3>a. /\ A \in Seq(Data) /\ Len(A) = b + 1
          /\ B \in Seq(Data) /\ Len(B) = b /\ b \in Nat
      BY <2>2, <2>3, <2>4
    <3>b. ASSUME NEW i \in 1..b
          PROVE  A[i] = B[i]
      <4>1. i \in 1..Len(buffer')
        BY <2>4
      <4> QED BY <2>2, <2>3, <2>4, <4>1
    <3>c. A[b + 1] = d
      <4>1. b + 1 \in 1..Len(buffer')
        BY <2>4
      <4> QED BY <2>3, <2>4, <4>1
    <3>1. /\ A \in Seq(Data) /\ Len(A) = b + 1
          /\ B \in Seq(Data) /\ Len(B) = b /\ b \in Nat
          /\ \A i \in 1..b : A[i] = B[i]
          /\ A[b + 1] = d
      BY <3>a, <3>b, <3>c
    <3> HIDE DEF A, B, b
    <3>2. /\ Append(B, d) \in Seq(Data) /\ Len(Append(B, d)) = b + 1
          /\ \A i \in 1..b : Append(B, d)[i] = B[i]
          /\ Append(B, d)[b + 1] = d
      BY <3>1
    <3>3. \A i \in 1..(b + 1) : A[i] = Append(B, d)[i]
      <4>1. \A i \in 1..(b + 1) : i \in 1..b \/ i = b + 1
        BY <3>1
      <4> QED BY <3>1, <3>2, <4>1
    <3>4. A = Append(B, d)
      BY <3>1, <3>2, <3>3, SeqEqual
    <3> QED BY <3>4 DEF A, B
  <2>6. DataOf(file') = DataOf(file) /\ flushed_lsn' = flushed_lsn
    BY <2>1
  <2>7. Log' = [stable |-> DataOf(file), pending |-> Append(DataOf(buffer), d),
                flushed |-> flushed_lsn]
    BY <2>5, <2>6 DEF Log
  <2>8. Appended(Log, d) = [stable |-> DataOf(file), pending |-> Append(DataOf(buffer), d),
                            flushed |-> flushed_lsn]
    BY AppendedFields DEF Log
  <2> QED BY <2>7, <2>8
<1>2. ASSUME NEW l \in 0..MaxRecords, flush(l)
      PROVE  Log' = Synced(Log) \/ UNCHANGED Log
  <2>1. CASE flush_all_unlocked
    BY <1>2, <2>1, FlushRefines DEF flush
  <2>2. CASE UNCHANGED <<file, buffer, write_offset, flushed_lsn>>
    BY <2>2 DEF Log
  <2> QED BY <1>2, <2>1, <2>2 DEF flush
<1>3. CASE flush_all
  BY <1>3, FlushRefines, SameOperators DEF flush_all, Durable!Next, Durable!Sync, Log
<1>4. ASSUME NEW l \in 0..MaxRecords, read_record_at_lsn(l)
      PROVE  Log' = Synced(Log)
  BY <1>4, FlushRefines DEF read_record_at_lsn
<1>5. CASE Close
  <2>1. Len(buffer) \in 0..Len(buffer)
    BY DEF IInv, TypeOK
  <2>2. \E k \in 0..Len(Log.pending) : Log' = Reopened(Log, k)
    BY <1>5, <2>1, EndRefines DEF Close
  <2> QED BY <2>2, SameOperators DEF Durable!Next, Durable!Lose, Log
<1>6. CASE Crash
  <2>1. \E k \in 0..Len(Log.pending) : Log' = Reopened(Log, k)
    BY <1>6, EndRefines DEF Crash
  <2> QED BY <2>1, SameOperators DEF Durable!Next, Durable!Lose, Log
<1>7. CASE read_log \/ Open \/ UNCHANGED vars
  BY <1>7 DEF read_log, Open, vars, Log
<1>8. ASSUME NEW d \in Data, append(d)
      PROVE  [Durable!Next]_Log
  BY <1>1, <1>8, SameOperators DEF Durable!Next, Durable!AppendRecord, Log
<1>9. ASSUME NEW l \in 0..MaxRecords, flush(l) \/ read_record_at_lsn(l)
      PROVE  [Durable!Next]_Log
  BY <1>2, <1>4, <1>9, SameOperators DEF Durable!Next, Durable!Sync, Log
<1> QED BY <1>3, <1>5, <1>6, <1>7, <1>8, <1>9 DEF Next

\* LogManager is the append-only, prefix-durable log that the rest of the
\* engine relies on.
THEOREM Refinement == Spec => RefinesDurableLog
<1>1. IInv /\ IInv' /\ [Next]_vars => [Durable!Next]_Log
  BY NextRefines
<1> QED BY <1>1, InitRefines, Invariance, PTL DEF Spec, RefinesDurableLog, Durable!Spec, Log
=============================================================================
