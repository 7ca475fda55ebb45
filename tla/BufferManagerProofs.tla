------------------------- MODULE BufferManagerProofs -------------------------
(***************************************************************************)
(* Proofs about BufferManager, for every pool size, number of pages and    *)
(* finite set of handles: pointers stay valid, frames are accounted for,   *)
(* the write-ahead rule holds and, as long as no write of flush_all_pages  *)
(* fails, the pool implements PageStore.                                   *)
(***************************************************************************)
EXTENDS BufferManager, FiniteSetTheorems, TLAPS

(* The lists of the replacer and of the free frames.                       *)

\* erase takes exactly one frame out of a list without repetitions.
LEMMA ErasedList ==
  ASSUME NEW S, NEW s \in Seq(S), NoRepeat(s), NEW f, Listed(s, f)
  PROVE  /\ Erased(s, f) \in Seq(S)
         /\ NoRepeat(Erased(s, f))
         /\ \A g : Listed(Erased(s, f), g) <=> Listed(s, g) /\ g # f
<1> DEFINE i == CHOOSE i \in 1..Len(s) : s[i] = f
           n == Len(s)
           e == Erased(s, f)
<1>1. i \in 1..n /\ s[i] = f /\ n \in Nat
  BY DEF Listed
<1>2. e = SubSeq(s, 1, i - 1) \o SubSeq(s, i + 1, n)
  BY DEF Erased
<1> HIDE DEF i, e
<1>3. /\ SubSeq(s, 1, i - 1) \in Seq(S) /\ Len(SubSeq(s, 1, i - 1)) = i - 1
      /\ \A j \in 1..(i - 1) : SubSeq(s, 1, i - 1)[j] = s[j]
  BY <1>1
<1>4. /\ SubSeq(s, i + 1, n) \in Seq(S) /\ Len(SubSeq(s, i + 1, n)) = n - i
      /\ \A j \in 1..(n - i) : SubSeq(s, i + 1, n)[j] = s[i + j]
  BY <1>1
<1>5. /\ e \in Seq(S) /\ Len(e) = n - 1
      /\ \A j \in 1..(n - 1) : e[j] = IF j < i THEN s[j] ELSE s[j + 1]
  <2> DEFINE a == SubSeq(s, 1, i - 1)
             b == SubSeq(s, i + 1, n)
  <2>1. /\ a \in Seq(S) /\ Len(a) = i - 1 /\ \A j \in 1..(i - 1) : a[j] = s[j]
        /\ b \in Seq(S) /\ Len(b) = n - i /\ \A j \in 1..(n - i) : b[j] = s[i + j]
        /\ e = a \o b
    BY <1>2, <1>3, <1>4
  <2> HIDE DEF a, b
  <2>2. e \in Seq(S) /\ Len(e) = n - 1
    BY <1>1, <2>1
  <2>3. ASSUME NEW j \in 1..(n - 1), j < i
        PROVE  e[j] = s[j]
    BY <1>1, <2>1, <2>3
  <2>4. ASSUME NEW j \in 1..(n - 1), ~(j < i)
        PROVE  e[j] = s[j + 1]
    <3>1. j - (i - 1) \in 1..(n - i) /\ e[j] = b[j - (i - 1)]
      BY <1>1, <2>1, <2>4
    <3>2. i + (j - (i - 1)) = j + 1
      BY <1>1
    <3> QED BY <2>1, <3>1, <3>2
  <2> QED BY <2>2, <2>3, <2>4
<1>6. NoRepeat(e)
  BY <1>1, <1>5 DEF NoRepeat
<1>7. ASSUME NEW g
      PROVE  Listed(e, g) <=> Listed(s, g) /\ g # f
  <2>1. ASSUME Listed(e, g)
        PROVE  Listed(s, g) /\ g # f
    <3>1. PICK j \in 1..(n - 1) : e[j] = g
      BY <2>1, <1>5 DEF Listed
    <3>2. CASE j < i
      <4>1. j \in 1..n /\ s[j] = g /\ j # i
        BY <3>1, <3>2, <1>1, <1>5
      <4> QED BY <4>1, <1>1 DEF Listed, NoRepeat
    <3>3. CASE ~(j < i)
      <4>1. j + 1 \in 1..n /\ s[j + 1] = g /\ j + 1 # i
        BY <3>1, <3>3, <1>1, <1>5
      <4> QED BY <4>1, <1>1 DEF Listed, NoRepeat
    <3> QED BY <3>2, <3>3
  <2>2. ASSUME Listed(s, g), g # f
        PROVE  Listed(e, g)
    <3>1. PICK j \in 1..n : s[j] = g
      BY <2>2 DEF Listed
    <3>2. CASE j < i
      <4>1. j \in 1..(n - 1) /\ e[j] = g
        BY <3>1, <3>2, <1>1, <1>5
      <4> QED BY <4>1, <1>5 DEF Listed
    <3>3. CASE j > i
      <4>1. j - 1 \in 1..(n - 1) /\ e[j - 1] = g
        BY <3>1, <3>3, <1>1, <1>5
      <4> QED BY <4>1, <1>5 DEF Listed
    <3>4. j # i
      BY <3>1, <1>1, <2>2
    <3> QED BY <3>2, <3>3, <3>4, <1>1
  <2> QED BY <2>1, <2>2
<1> QED BY <1>5, <1>6, <1>7 DEF e

\* set_evictable(frame, true) puts a frame on the list, once.
LEMMA MadeEvictable ==
  ASSUME NEW S, NEW s \in Seq(S), NoRepeat(s), NEW f \in S
  PROVE  /\ set_evictable(s, f, TRUE) \in Seq(S)
         /\ NoRepeat(set_evictable(s, f, TRUE))
         /\ \A g : Listed(set_evictable(s, f, TRUE), g) <=> (Listed(s, g) \/ g = f)
<1>1. CASE Listed(s, f)
  BY <1>1 DEF set_evictable
<1>2. CASE ~Listed(s, f)
  <2> DEFINE e == <<f>> \o s
  <2>1. set_evictable(s, f, TRUE) = e
    BY <1>2 DEF set_evictable
  <2>2. /\ e \in Seq(S) /\ Len(s) \in Nat /\ Len(e) = Len(s) + 1
        /\ e[1] = f /\ \A j \in 1..Len(s) : e[j + 1] = s[j]
    OBVIOUS
  <2> HIDE DEF e
  <2>3. \A j \in 1..Len(e) : j = 1 \/ (j - 1 \in 1..Len(s) /\ e[j] = s[j - 1])
    BY <2>2
  <2>4. NoRepeat(e)
    <3>1. ASSUME NEW j \in 1..Len(e), NEW k \in 1..Len(e), e[j] = e[k]
          PROVE  j = k
      <4>1. CASE j = 1 \/ k = 1
        BY <1>2, <2>2, <2>3, <3>1, <4>1 DEF Listed
      <4>2. CASE j # 1 /\ k # 1
        <5>1. j - 1 = k - 1
          BY <2>3, <3>1, <4>2 DEF NoRepeat
        <5> QED BY <2>2, <5>1
      <4> QED BY <4>1, <4>2
    <3> QED BY <3>1 DEF NoRepeat
  <2>5. ASSUME NEW g
        PROVE  Listed(e, g) <=> (Listed(s, g) \/ g = f)
    <3>1. ASSUME Listed(s, g) PROVE Listed(e, g)
      <4>1. PICK j \in 1..Len(s) : s[j] = g
        BY <3>1 DEF Listed
      <4>2. j + 1 \in 1..Len(e) /\ e[j + 1] = g
        BY <2>2, <4>1
      <4> QED BY <4>2 DEF Listed
    <3>2. Listed(e, f)
      BY <2>2 DEF Listed
    <3>3. Listed(e, g) => Listed(s, g) \/ g = f
      BY <2>2, <2>3 DEF Listed
    <3> QED BY <3>1, <3>2, <3>3
  <2> QED BY <2>1, <2>2, <2>4, <2>5
<1> QED BY <1>1, <1>2

\* set_evictable(frame, false) takes it off.
LEMMA MadeUnevictable ==
  ASSUME NEW S, NEW s \in Seq(S), NoRepeat(s), NEW f \in S
  PROVE  /\ set_evictable(s, f, FALSE) \in Seq(S)
         /\ NoRepeat(set_evictable(s, f, FALSE))
         /\ \A g : Listed(set_evictable(s, f, FALSE), g) <=> Listed(s, g) /\ g # f
<1>1. CASE Listed(s, f)
  BY <1>1, ErasedList DEF set_evictable
<1>2. CASE ~Listed(s, f)
  BY <1>2 DEF set_evictable
<1> QED BY <1>1, <1>2

\* The free list's front is taken off it.
LEMMA TailList ==
  ASSUME NEW S, NEW s \in Seq(S), NoRepeat(s), s # <<>>
  PROVE  /\ Head(s) \in S /\ Listed(s, Head(s))
         /\ Tail(s) \in Seq(S)
         /\ NoRepeat(Tail(s))
         /\ \A g : Listed(Tail(s), g) <=> Listed(s, g) /\ g # Head(s)
<1> DEFINE t == Tail(s)
           n == Len(s)
<1>1. /\ n \in Nat /\ n > 0 /\ Head(s) = s[1] /\ s[1] \in S
      /\ t \in Seq(S) /\ Len(t) = n - 1
      /\ \A j \in 1..(n - 1) : t[j] = s[j + 1]
  OBVIOUS
<1> HIDE DEF t
<1>2. NoRepeat(t)
  BY <1>1 DEF NoRepeat
<1>3. ASSUME NEW g
      PROVE  Listed(t, g) <=> Listed(s, g) /\ g # Head(s)
  <2>1. ASSUME Listed(t, g) PROVE Listed(s, g) /\ g # Head(s)
    <3>1. PICK j \in 1..(n - 1) : t[j] = g
      BY <2>1, <1>1 DEF Listed
    <3>2. j + 1 \in 1..n /\ s[j + 1] = g /\ j + 1 # 1 /\ 1 \in 1..n
      BY <3>1, <1>1
    <3> QED BY <3>2, <1>1 DEF Listed, NoRepeat
  <2>2. ASSUME Listed(s, g), g # Head(s) PROVE Listed(t, g)
    <3>1. PICK j \in 1..n : s[j] = g
      BY <2>2 DEF Listed
    <3>2. j - 1 \in 1..(n - 1) /\ t[j - 1] = g
      BY <3>1, <2>2, <1>1
    <3> QED BY <3>2, <1>1 DEF Listed
  <2> QED BY <2>1, <2>2
<1>4. Listed(s, Head(s))
  BY <1>1 DEF Listed
<1> QED BY <1>1, <1>2, <1>3, <1>4 DEF t

\* evict takes the back of the replacer's list off it.
LEMMA FrontList ==
  ASSUME NEW S, NEW s \in Seq(S), NoRepeat(s), s # <<>>
  PROVE  /\ s[Len(s)] \in S /\ Listed(s, s[Len(s)])
         /\ SubSeq(s, 1, Len(s) - 1) \in Seq(S)
         /\ NoRepeat(SubSeq(s, 1, Len(s) - 1))
         /\ \A g : Listed(SubSeq(s, 1, Len(s) - 1), g) <=> Listed(s, g) /\ g # s[Len(s)]
<1> DEFINE n == Len(s)
           t == SubSeq(s, 1, n - 1)
<1>0. n \in Nat /\ n > 0
  OBVIOUS
<1>1. /\ n \in Nat /\ n > 0 /\ s[n] \in S
      /\ t \in Seq(S) /\ Len(t) = n - 1
      /\ \A j \in 1..(n - 1) : t[j] = s[j]
  <2>1. ASSUME NEW k \in 1..n
        PROVE  /\ SubSeq(s, 1, k - 1) \in Seq(S) /\ Len(SubSeq(s, 1, k - 1)) = k - 1
               /\ \A j \in 1..(k - 1) : SubSeq(s, 1, k - 1)[j] = s[j]
    BY <1>0
  <2>2. n \in 1..n /\ s[n] \in S
    BY <1>0
  <2>3. /\ SubSeq(s, 1, n - 1) \in Seq(S) /\ Len(SubSeq(s, 1, n - 1)) = n - 1
        /\ \A j \in 1..(n - 1) : SubSeq(s, 1, n - 1)[j] = s[j]
    BY <2>1, <2>2
  <2> QED BY <1>0, <2>2, <2>3
<1> HIDE DEF t
<1>2. NoRepeat(t)
  BY <1>1 DEF NoRepeat
<1>3. ASSUME NEW g
      PROVE  Listed(t, g) <=> Listed(s, g) /\ g # s[n]
  BY <1>1 DEF Listed, NoRepeat
<1>4. Listed(s, s[n])
  BY <1>1 DEF Listed
<1> QED BY <1>1, <1>2, <1>3, <1>4 DEF t

\* A frame that is given back goes to the end of the free list.
LEMMA AppendList ==
  ASSUME NEW S, NEW s \in Seq(S), NoRepeat(s), NEW f \in S, ~Listed(s, f)
  PROVE  /\ Append(s, f) \in Seq(S)
         /\ NoRepeat(Append(s, f))
         /\ \A g : Listed(Append(s, f), g) <=> (Listed(s, g) \/ g = f)
<1> DEFINE n == Len(s)
           t == Append(s, f)
<1>1. /\ n \in Nat /\ t \in Seq(S) /\ Len(t) = n + 1
      /\ t[n + 1] = f /\ \A j \in 1..n : t[j] = s[j]
  OBVIOUS
<1> HIDE DEF t
<1>2. \A j \in 1..(n + 1) : j \in 1..n \/ j = n + 1
  BY <1>1
<1>3. NoRepeat(t)
  BY <1>1, <1>2 DEF NoRepeat, Listed
<1>4. ASSUME NEW g
      PROVE  Listed(t, g) <=> (Listed(s, g) \/ g = f)
  <2>1. ASSUME Listed(s, g) \/ g = f PROVE Listed(t, g)
    <3>1. \A j \in 1..n : j \in 1..(n + 1)
      BY <1>1
    <3>2. n + 1 \in 1..(n + 1)
      BY <1>1
    <3> QED BY <1>1, <2>1, <3>1, <3>2 DEF Listed
  <2>2. ASSUME Listed(t, g) PROVE Listed(s, g) \/ g = f
    BY <1>1, <1>2, <2>2 DEF Listed
  <2> QED BY <2>1, <2>2
<1> QED BY <1>1, <1>3, <1>4 DEF t

-----------------------------------------------------------------------------
(* Handles.                                                                *)

\* A handle points into the pool iff it stands for a page.
LEMMA HandleFacts ==
  ASSUME TypeOK, NEW h \in Handles
  PROVE  /\ hold[h] = Unheld => hold[h].frame = NoFrame /\ hold[h].page = NoPage
         /\ hold[h] # Unheld => /\ hold[h].frame \in Frames /\ hold[h].page \in PageIds
                               /\ hold[h].wrote \in BOOLEAN
         /\ NoFrame \notin Frames /\ NoPage \notin PageIds
<1>1. hold[h] \in Handle
  BY DEF TypeOK
<1>2. NoFrame \notin Frames /\ NoPage \notin PageIds
  BY PoolAssumption DEF Frames, PageIds
<1>3. CASE hold[h] = Unheld
  BY <1>2, <1>3 DEF Unheld
<1>4. CASE hold[h] \in [page : PageIds, frame : Frames, wrote : BOOLEAN]
  <2>1. hold[h].frame \in Frames /\ hold[h].page \in PageIds /\ hold[h].wrote \in BOOLEAN
    BY <1>4
  <2> QED BY <1>2, <2>1 DEF Unheld
<1> QED BY <1>1, <1>3, <1>4 DEF Handle

\* Sets of handles are counted.
LEMMA CountHandles ==
  ASSUME NEW S, S \subseteq Handles
  PROVE  /\ IsFiniteSet(S) /\ Cardinality(S) \in Nat
         /\ Cardinality(S) = 0 <=> S = {}
<1>1. IsFiniteSet(S)
  BY PoolAssumption, FS_Subset
<1> QED BY <1>1, FS_CardinalityType, FS_EmptySet

\* The number of handles on a frame is 0 iff nobody holds it.
LEMMA HolderCount ==
  ASSUME NEW f \in Frames
  PROVE  /\ IsFiniteSet(Holders(f)) /\ Cardinality(Holders(f)) \in Nat
         /\ Cardinality(Holders(f)) = 0 <=> ~Held(f)
<1>1. Holders(f) \subseteq Handles
  BY DEF Holders
<1>2. Holders(f) = {} <=> ~Held(f)
  BY DEF Holders, Held
<1> QED BY <1>1, <1>2, CountHandles

\* A handle is put on frame f.
LEMMA Acquired ==
  ASSUME TypeOK, NEW h \in Handles, hold[h] = Unheld,
         NEW f \in Frames, NEW p \in PageIds, NEW w \in BOOLEAN,
         hold' = [hold EXCEPT ![h] = [page |-> p, frame |-> f, wrote |-> w]]
  PROVE  /\ hold' \in [Handles -> Handle]
         /\ hold'[h] = [page |-> p, frame |-> f, wrote |-> w]
         /\ \A k \in Handles : k # h => hold'[k] = hold[k]
         /\ \A g \in Frames : Held(g)' <=> (Held(g) \/ g = f)
         /\ Cardinality(Holders(f)') = Cardinality(Holders(f)) + 1
         /\ \A g \in Frames : g # f => Holders(g)' = Holders(g)
<1>1. /\ hold' \in [Handles -> Handle]
      /\ hold'[h] = [page |-> p, frame |-> f, wrote |-> w]
      /\ \A k \in Handles : k # h => hold'[k] = hold[k]
  BY DEF TypeOK, Handle
<1>2. hold'[h].frame = f /\ hold[h].frame = NoFrame /\ NoFrame \notin Frames
  BY <1>1, HandleFacts
<1>3. \A g \in Frames : Held(g)' <=> (Held(g) \/ g = f)
  BY <1>1, <1>2 DEF Held
<1>4. \A g \in Frames : g # f => Holders(g)' = Holders(g)
  BY <1>1, <1>2 DEF Holders
<1>5. Holders(f)' = Holders(f) \cup {h} /\ h \notin Holders(f)
  BY <1>1, <1>2 DEF Holders
<1>6. Cardinality(Holders(f)') = Cardinality(Holders(f)) + 1
  BY <1>5, HolderCount, FS_AddElement
<1> QED BY <1>1, <1>3, <1>4, <1>6

\* A handle is taken off frame f.
LEMMA Released ==
  ASSUME TypeOK, NEW h \in Handles, hold[h] # Unheld, NEW f \in Frames, hold[h].frame = f,
         hold' = [hold EXCEPT ![h] = Unheld]
  PROVE  /\ hold' \in [Handles -> Handle]
         /\ hold'[h] = Unheld
         /\ \A k \in Handles : k # h => hold'[k] = hold[k]
         /\ Held(f)
         /\ \A g \in Frames : g # f => Holders(g)' = Holders(g) /\ (Held(g)' <=> Held(g))
         /\ Cardinality(Holders(f)') = Cardinality(Holders(f)) - 1
<1>1. /\ hold' \in [Handles -> Handle]
      /\ hold'[h] = Unheld
      /\ \A k \in Handles : k # h => hold'[k] = hold[k]
  BY DEF TypeOK, Handle
<1>2. hold'[h].frame = NoFrame /\ NoFrame \notin Frames
  BY <1>1, HandleFacts DEF Unheld
<1>3. \A g \in Frames : g # f => Holders(g)' = Holders(g) /\ (Held(g)' <=> Held(g))
  BY <1>1, <1>2 DEF Holders, Held
<1>4. Holders(f)' = Holders(f) \ {h} /\ h \in Holders(f)
  BY <1>1, <1>2 DEF Holders
<1>5. Cardinality(Holders(f)') = Cardinality(Holders(f)) - 1
  <2>1. IsFiniteSet(Holders(f))
    BY HolderCount
  <2> QED BY <2>1, <1>4, FS_RemoveElement
<1>6. Held(f)
  BY DEF Held
<1> QED BY <1>1, <1>3, <1>5, <1>6

\* Nothing is held or let go while the handles keep their frames.
LEMMA SameHolders ==
  ASSUME \A h \in Handles : hold'[h].frame = hold[h].frame
  PROVE  \A g : Holders(g)' = Holders(g) /\ (Held(g)' <=> Held(g))
  BY DEF Holders, Held

\* The handles of a frame all stand for the page in it, which the table knows.
LEMMA HeldPage ==
  ASSUME Structure, NEW h \in Handles, hold[h] # Unheld
  PROVE  /\ hold[h].frame \in Frames /\ hold[h].page \in PageIds
         /\ page_ids[hold[h].frame] = hold[h].page
         /\ page_table[hold[h].page] = hold[h].frame
         /\ Held(hold[h].frame)
<1>1. TypeOK
  BY DEF Structure
<1>2. /\ hold[h].frame \in Frames /\ hold[h].page \in PageIds /\ NoPage \notin PageIds
  BY <1>1, HandleFacts
<1>3. page_ids[hold[h].frame] = hold[h].page
  BY DEF Structure, Pins
<1> QED BY <1>2, <1>3 DEF Structure, TableInverse, Held

-----------------------------------------------------------------------------
(* The structure of the pool.                                              *)

\* The initial pool: every frame is free.
LEMMA InitStructure == Init => Structure
<1> SUFFICES ASSUME Init PROVE Structure
  OBVIOUS
<1>1. TypeOK
  <2>1. /\ pages \in [Frames -> Nat] /\ page_ids \in [Frames -> PageIds \cup {NoPage}]
        /\ page_table \in [PageIds -> Frames \cup {NoFrame}] /\ pin_count \in [Frames -> Nat]
        /\ dirty \subseteq Frames /\ frame_list \in Seq(Frames) /\ failed \subseteq Frames
    BY DEF Init
  <2>2. free_list \in Seq(Frames)
    BY PoolAssumption DEF Init, Frames
  <2>3. /\ disk \in [PageIds -> Nat] /\ next_page_id \in 0..MaxPages
        /\ last_lsn \in Nat /\ flushed_lsn \in Nat
    BY PoolAssumption DEF Init
  <2>4. hold \in [Handles -> Handle]
    BY DEF Init, Handle
  <2> QED BY <2>1, <2>2, <2>3, <2>4 DEF TypeOK
<1>2. TableInverse
  BY DEF Init, TableInverse
<1>3. \A f \in Frames : ~Held(f)
  <2>1. NoFrame \notin Frames
    BY PoolAssumption DEF Frames
  <2> QED BY <2>1 DEF Init, Held, Unheld
<1>4. Lists
  <2>1. Len(free_list) = PoolSize /\ \A i \in 1..PoolSize : free_list[i] = i - 1
    BY PoolAssumption DEF Init
  <2>2. NoRepeat(free_list)
    BY <2>1, PoolAssumption DEF NoRepeat
  <2>3. \A f \in Frames : Listed(free_list, f)
    <3>1. ASSUME NEW f \in Frames PROVE Listed(free_list, f)
      <4>1. f + 1 \in 1..PoolSize /\ (f + 1) - 1 = f
        BY PoolAssumption DEF Frames
      <4> QED BY <2>1, <4>1 DEF Listed
    <3> QED BY <3>1
  <2>4. NoRepeat(frame_list) /\ \A f \in Frames : ~Listed(frame_list, f)
    BY DEF Init, NoRepeat, Listed
  <2> QED BY <2>2, <2>3, <2>4 DEF Lists, Init
<1>5. Pins
  BY <1>3, HolderCount DEF Init, Pins
<1> QED BY <1>1, <1>2, <1>4, <1>5 DEF Structure

\* A cache hit pins the frame and makes it unevictable.
LEMMA FetchHitStructure ==
  ASSUME Structure, NEW h \in Handles, NEW p \in PageIds, fetch_hit(h, p)
  PROVE  Structure'
<1> PICK f : f = page_table[p]
  OBVIOUS
<1>1. /\ f \in Frames /\ page_ids[f] = p /\ p < next_page_id /\ hold[h] = Unheld
      /\ pin_count' = [pin_count EXCEPT ![f] = @ + 1]
      /\ frame_list' = set_evictable(frame_list, f, FALSE)
      /\ hold' = [hold EXCEPT ![h] = [page |-> p, frame |-> f, wrote |-> FALSE]]
      /\ failed' = failed \ {f}
      /\ UNCHANGED <<pages, page_ids, page_table, dirty, free_list, diskVars, logVars>>
  BY DEF fetch_hit, Structure, TypeOK, TableInverse
<1>2. TypeOK /\ p \in PageIds /\ FALSE \in BOOLEAN
  BY DEF Structure
<1>3. /\ hold' \in [Handles -> Handle]
      /\ hold'[h] = [page |-> p, frame |-> f, wrote |-> FALSE]
      /\ \A k \in Handles : k # h => hold'[k] = hold[k]
      /\ \A g \in Frames : Held(g)' <=> (Held(g) \/ g = f)
      /\ Cardinality(Holders(f)') = Cardinality(Holders(f)) + 1
      /\ \A g \in Frames : g # f => Holders(g)' = Holders(g)
  BY <1>1, <1>2, Acquired
<1>4. /\ frame_list' \in Seq(Frames) /\ NoRepeat(frame_list')
      /\ \A g : Listed(frame_list', g) <=> Listed(frame_list, g) /\ g # f
  BY <1>1, MadeUnevictable, ZenonT(60) DEF Structure, TypeOK, Lists
<1>5. TypeOK'
  <2>1. pin_count' \in [Frames -> Nat] /\ failed' \subseteq Frames
    BY <1>1, <1>2 DEF TypeOK
  <2> QED BY <1>1, <1>2, <1>3, <1>4, <2>1 DEF TypeOK, diskVars, logVars
<1>6. TableInverse'
  BY <1>1 DEF Structure, TableInverse, diskVars
<1>7. Lists'
  <2>1. NoRepeat(free_list)' /\ NoRepeat(frame_list)'
    BY <1>1, <1>4 DEF Structure, Lists, NoRepeat
  <2>2. \A g \in Frames : Listed(free_list, g)' => page_ids'[g] = NoPage
    BY <1>1 DEF Structure, Lists, Listed
  <2>3. \A g \in Frames : Listed(frame_list', g) => page_ids'[g] # NoPage /\ ~Held(g)'
    BY <1>1, <1>3, <1>4 DEF Structure, Lists
  <2>4. \A g \in Frames : Held(g)' \/ Listed(free_list', g) \/ Listed(frame_list', g) \/ g \in failed'
    BY <1>1, <1>3, <1>4 DEF Structure, Lists
  <2> QED BY <2>1, <2>2, <2>3, <2>4 DEF Lists, Listed, NoRepeat
<1>8. Pins'
  <2>1. \A k \in Handles : hold'[k] # Unheld => page_ids'[hold'[k].frame] = hold'[k].page
    BY <1>1, <1>3 DEF Structure, Pins
  <2>2. \A g \in Frames : pin_count'[g] = Cardinality(Holders(g)')
    BY <1>1, <1>3 DEF Structure, TypeOK, Pins
  <2> QED BY <2>1, <2>2 DEF Pins, Unheld
<1> QED BY <1>5, <1>6, <1>7, <1>8 DEF Structure

\* The replacer's list when a frame becomes evictable.
LEMMA FrameListed ==
  ASSUME Structure, NEW f \in Frames, frame_list' = set_evictable(frame_list, f, TRUE)
  PROVE  /\ frame_list' \in Seq(Frames) /\ NoRepeat(frame_list')
         /\ \A g : Listed(frame_list', g) <=> (Listed(frame_list, g) \/ g = f)
<1>1. frame_list \in Seq(Frames) /\ NoRepeat(frame_list)
  BY DEF Structure, TypeOK, Lists
<1>2. /\ set_evictable(frame_list, f, TRUE) \in Seq(Frames)
      /\ NoRepeat(set_evictable(frame_list, f, TRUE))
      /\ \A g : Listed(set_evictable(frame_list, f, TRUE), g) <=> (Listed(frame_list, g) \/ g = f)
  BY <1>1, MadeEvictable
<1> QED BY <1>2

\* unpin_page finds the frame its handle points to, and its pin to take away.
LEMMA UnpinFinds ==
  ASSUME Structure, NEW h \in Handles, unpin_page(h), NEW f, f = hold[h].frame
  PROVE  /\ f \in Frames /\ hold[h] # Unheld /\ page_ids[f] \in PageIds
         /\ page_table[hold[h].page] = f /\ page_ids[f] = hold[h].page
         /\ pin_count[f] \in Nat \ {0}
         /\ pin_count' = [pin_count EXCEPT ![f] = @ - 1]
         /\ dirty' = IF hold[h].wrote THEN dirty \cup {f} ELSE dirty
         /\ frame_list' = IF pin_count[f] = 1 THEN set_evictable(frame_list, f, TRUE)
                          ELSE frame_list
         /\ hold' = [hold EXCEPT ![h] = Unheld]
         /\ UNCHANGED <<pages, page_ids, page_table, free_list, diskVars, logVars, failed>>
<1>1. hold[h] # Unheld
  BY DEF unpin_page
<1>2. /\ f \in Frames /\ page_table[hold[h].page] = f /\ page_ids[f] = hold[h].page
      /\ page_ids[f] \in PageIds /\ Held(f)
  BY <1>1, HeldPage
<1>3. f # NoFrame
  BY <1>2, PoolAssumption DEF Frames
<1>4. pin_count[f] \in Nat \ {0} /\ pin_count[f] > 0
  BY <1>2, HolderCount DEF Structure, Pins
<1> QED BY <1>1, <1>2, <1>3, <1>4 DEF unpin_page

\* The last unpin makes the frame evictable.
LEMMA UnpinStructure ==
  ASSUME Structure, NEW h \in Handles, unpin_page(h)
  PROVE  Structure'
<1> PICK f : f = hold[h].frame
  OBVIOUS
<1>1. /\ f \in Frames /\ hold[h] # Unheld /\ page_ids[f] \in PageIds
      /\ pin_count[f] \in Nat \ {0}
      /\ pin_count' = [pin_count EXCEPT ![f] = @ - 1]
      /\ dirty' = IF hold[h].wrote THEN dirty \cup {f} ELSE dirty
      /\ frame_list' = IF pin_count[f] = 1 THEN set_evictable(frame_list, f, TRUE)
                       ELSE frame_list
      /\ hold' = [hold EXCEPT ![h] = Unheld]
      /\ UNCHANGED <<pages, page_ids, page_table, free_list, diskVars, logVars, failed>>
  BY UnpinFinds, ZenonT(60)
<1>2. TypeOK
  BY DEF Structure
<1>3. /\ hold' \in [Handles -> Handle]
      /\ hold'[h] = Unheld
      /\ \A k \in Handles : k # h => hold'[k] = hold[k]
      /\ Held(f)
      /\ \A g \in Frames : g # f => Holders(g)' = Holders(g) /\ (Held(g)' <=> Held(g))
      /\ Cardinality(Holders(f)') = Cardinality(Holders(f)) - 1
  BY <1>1, <1>2, Released
<1>4. pin_count'[f] = Cardinality(Holders(f)') /\ pin_count[f] = Cardinality(Holders(f))
  BY <1>1, <1>2, <1>3 DEF TypeOK, Structure, Pins
<1>5. Held(f)' <=> pin_count[f] # 1
  <2>1. Holders(f)' \subseteq Handles /\ (Holders(f)' = {} <=> ~Held(f)')
    BY DEF Holders, Held
  <2>2. Cardinality(Holders(f)') = 0 <=> ~Held(f)'
    BY <2>1, CountHandles
  <2> QED BY <1>1, <1>3, <1>4, <2>2
<1>6. /\ frame_list' \in Seq(Frames) /\ NoRepeat(frame_list')
      /\ \A g : Listed(frame_list', g) <=> Listed(frame_list, g) \/ (g = f /\ ~Held(f)')
  <2>1. CASE pin_count[f] = 1
    <3>1. frame_list' = set_evictable(frame_list, f, TRUE) /\ ~Held(f)'
      BY <1>1, <1>5, <2>1
    <3>2. /\ frame_list' \in Seq(Frames) /\ NoRepeat(frame_list')
          /\ \A g : Listed(frame_list', g) <=> (Listed(frame_list, g) \/ g = f)
      BY <1>1, <3>1, FrameListed
    <3> QED BY <3>1, <3>2
  <2>2. CASE pin_count[f] # 1
    BY <1>1, <1>5, <2>2 DEF Structure, TypeOK, Lists
  <2> QED BY <2>1, <2>2
<1>7. TypeOK'
  <2>1. pin_count' \in [Frames -> Nat] /\ dirty' \subseteq Frames
    BY <1>1, <1>2 DEF TypeOK
  <2> QED BY <1>1, <1>2, <1>3, <1>6, <2>1 DEF TypeOK, diskVars, logVars
<1>8. TableInverse'
  BY <1>1 DEF Structure, TableInverse, diskVars
<1>9. Lists'
  <2>1. NoRepeat(free_list)' /\ NoRepeat(frame_list)'
    BY <1>1, <1>6 DEF Structure, Lists, NoRepeat
  <2>2. \A g \in Frames : Listed(free_list', g) => page_ids'[g] = NoPage
    BY <1>1 DEF Structure, Lists
  <2>3. \A g \in Frames : Listed(frame_list', g) => page_ids'[g] # NoPage /\ ~Held(g)'
    <3>1. NoPage \notin PageIds
      BY PoolAssumption DEF PageIds
    <3> QED BY <1>1, <1>3, <1>6, <3>1 DEF Structure, Lists
  <2>4. \A g \in Frames : Held(g)' \/ Listed(free_list', g) \/ Listed(frame_list', g) \/ g \in failed'
    BY <1>1, <1>3, <1>6 DEF Structure, Lists
  <2> QED BY <2>1, <2>2, <2>3, <2>4 DEF Lists, Listed, NoRepeat
<1>10. Pins'
  <2>1. \A k \in Handles : hold'[k] # Unheld => page_ids'[hold'[k].frame] = hold'[k].page
    BY <1>1, <1>3 DEF Structure, Pins
  <2>2. \A g \in Frames : pin_count'[g] = Cardinality(Holders(g)')
    BY <1>1, <1>2, <1>3, <1>4 DEF Structure, TypeOK, Pins
  <2> QED BY <2>1, <2>2 DEF Pins, Unheld
<1> QED BY <1>7, <1>8, <1>9, <1>10 DEF Structure

\* A handle that writes keeps pointing to its page.
LEMMA ChangeStructure ==
  ASSUME Structure, NEW h \in Handles, Change(h)
  PROVE  Structure'
<1>1. TypeOK
  BY DEF Structure
<1>2. /\ hold[h] # Unheld /\ hold[h] \in [page : PageIds, frame : Frames, wrote : BOOLEAN]
  BY <1>1 DEF Change, TypeOK, Handle
<1>3. /\ hold' = [hold EXCEPT ![h] = [@ EXCEPT !.wrote = TRUE]]
      /\ last_lsn' = last_lsn + 1
      /\ pages' = [pages EXCEPT ![hold[h].frame] = last_lsn + 1]
      /\ UNCHANGED <<page_ids, page_table, pin_count, dirty, free_list, frame_list, diskVars,
                     flushed_lsn, failed>>
  BY DEF Change
<1>4. /\ hold' \in [Handles -> Handle]
      /\ \A k \in Handles : /\ hold'[k].frame = hold[k].frame /\ hold'[k].page = hold[k].page
                            /\ k # h => hold'[k] = hold[k]
  <2>1. /\ [hold[h] EXCEPT !.wrote = TRUE] \in [page : PageIds, frame : Frames, wrote : BOOLEAN]
        /\ [hold[h] EXCEPT !.wrote = TRUE].frame = hold[h].frame
        /\ [hold[h] EXCEPT !.wrote = TRUE].page = hold[h].page
    BY <1>2
  <2> QED BY <1>1, <1>3, <2>1 DEF TypeOK, Handle
<1>5. \A g : Holders(g)' = Holders(g) /\ (Held(g)' <=> Held(g))
  BY <1>4, SameHolders
<1>6. TypeOK'
  <2>1. pages' \in [Frames -> Nat] /\ last_lsn' \in Nat
    BY <1>1, <1>2, <1>3 DEF TypeOK
  <2> QED BY <1>1, <1>3, <1>4, <2>1 DEF TypeOK, diskVars
<1>7. TableInverse'
  BY <1>3 DEF Structure, TableInverse, diskVars
<1>8. Lists'
  BY <1>3, <1>5 DEF Structure, Lists, NoRepeat, Listed
<1>9. Pins'
  <2>1. \A k \in Handles : hold'[k] # Unheld => page_ids'[hold'[k].frame] = hold'[k].page
    BY <1>2, <1>3, <1>4 DEF Structure, Pins
  <2>2. \A g \in Frames : pin_count'[g] = Cardinality(Holders(g)')
    BY <1>3, <1>5 DEF Structure, Pins
  <2> QED BY <2>1, <2>2 DEF Pins, Unheld
<1> QED BY <1>6, <1>7, <1>8, <1>9 DEF Structure

\* write_page puts every page of the frames fs on disk as its frame holds it.
LEMMA StoredPages ==
  ASSUME Structure, NEW fs, fs \subseteq Frames
  PROVE  /\ Stored(fs) \in [PageIds -> Nat]
         /\ \A q \in PageIds :
              /\ (\E f \in fs : page_ids[f] = q) =>
                   page_table[q] \in fs /\ Stored(fs)[q] = pages[page_table[q]]
              /\ ~(\E f \in fs : page_ids[f] = q) => Stored(fs)[q] = disk[q]
<1>1. TypeOK
  BY DEF Structure
<1>2. ASSUME NEW q \in PageIds, NEW f \in fs, page_ids[f] = q
      PROVE  page_table[q] \in fs /\ Stored(fs)[q] = pages[page_table[q]]
  <2>1. PICK g \in fs : g = (CHOOSE k \in fs : page_ids[k] = q) /\ page_ids[g] = q
    BY <1>2
  <2>2. q # NoPage
    BY PoolAssumption DEF PageIds
  <2>3. page_table[q] = g
    BY <2>1, <2>2 DEF Structure, TableInverse
  <2> QED BY <1>2, <2>1, <2>3 DEF Stored
<1>3. ASSUME NEW q \in PageIds, ~(\E f \in fs : page_ids[f] = q)
      PROVE  Stored(fs)[q] = disk[q]
  BY <1>3 DEF Stored
<1>4. \A q \in PageIds : Stored(fs)[q] \in Nat
  BY <1>1, <1>2, <1>3 DEF TypeOK
<1>5. Stored(fs) \in [PageIds -> Nat]
  <2>1. Stored(fs) = [q \in PageIds |-> Stored(fs)[q]]
    BY DEF Stored
  <2> QED BY <1>4, <2>1
<1> QED BY <1>2, <1>3, <1>5

\* enforce_wal never takes the stable log back.
LEMMA EnforcedWal ==
  ASSUME TypeOK, Versions, NEW fs, fs \subseteq Frames
  PROVE  /\ enforce_wal(fs) \in Nat
         /\ flushed_lsn <= enforce_wal(fs) /\ enforce_wal(fs) <= last_lsn
         /\ \A f \in fs : pages[f] <= enforce_wal(fs)
  BY DEF TypeOK, Versions, enforce_wal

\* The frame that fetch_page and new_page get is nobody's, and is on no list
\* once they have it.
LEMMA FrameAcquired ==
  ASSUME Structure, NEW f \in Frames, AcquireFrame(f)
  PROVE  /\ ~Held(f)
         /\ free_list' \in Seq(Frames) /\ frame_list' \in Seq(Frames)
         /\ NoRepeat(free_list') /\ NoRepeat(frame_list')
         /\ \A g : Listed(free_list', g) <=> (Listed(free_list, g) /\ g # f)
         /\ \A g : Listed(frame_list', g) <=> (Listed(frame_list, g) /\ g # f)
<1>0. /\ free_list \in Seq(Frames) /\ NoRepeat(free_list)
      /\ frame_list \in Seq(Frames) /\ NoRepeat(frame_list)
  BY DEF Structure, TypeOK, Lists
<1>1. CASE free_list # <<>>
  <2>1. f = Head(free_list) /\ free_list' = Tail(free_list) /\ frame_list' = frame_list
    BY <1>1 DEF AcquireFrame
  <2>2. /\ Listed(free_list, Head(free_list))
        /\ Tail(free_list) \in Seq(Frames) /\ NoRepeat(Tail(free_list))
        /\ \A g : Listed(Tail(free_list), g) <=> Listed(free_list, g) /\ g # Head(free_list)
    BY <1>0, <1>1, TailList
  <2>3. page_ids[f] = NoPage
    BY <2>1, <2>2 DEF Structure, Lists
  <2>4. ~Listed(frame_list, f)
    BY <2>3 DEF Structure, Lists
  <2>5. ~Held(f)
    <3>1. SUFFICES ASSUME Held(f) PROVE FALSE
      OBVIOUS
    <3>2. PICK h \in Handles : hold[h].frame = f
      BY <3>1 DEF Held
    <3>3. hold[h] # Unheld
      <4>1. f # NoFrame
        BY PoolAssumption DEF Frames
      <4> QED BY <3>2, <4>1 DEF Unheld
    <3>4. page_ids[f] \in PageIds
      BY <3>2, <3>3, HeldPage
    <3> QED BY <2>3, <3>4, PoolAssumption DEF PageIds
  <2> QED BY <1>0, <2>1, <2>2, <2>4, <2>5
<1>2. CASE free_list = <<>>
  <2>1. /\ frame_list # <<>> /\ f = frame_list[Len(frame_list)]
        /\ frame_list' = SubSeq(frame_list, 1, Len(frame_list) - 1) /\ free_list' = free_list
    BY <1>2 DEF AcquireFrame
  <2>2. /\ Listed(frame_list, frame_list[Len(frame_list)])
        /\ SubSeq(frame_list, 1, Len(frame_list) - 1) \in Seq(Frames)
        /\ NoRepeat(SubSeq(frame_list, 1, Len(frame_list) - 1))
        /\ \A g : Listed(SubSeq(frame_list, 1, Len(frame_list) - 1), g) <=>
                    Listed(frame_list, g) /\ g # frame_list[Len(frame_list)]
    BY <1>0, <2>1, FrontList
  <2>3. page_ids[f] # NoPage /\ ~Held(f)
    BY <2>1, <2>2 DEF Structure, Lists
  <2>4. ~Listed(free_list, f)
    BY <2>3 DEF Structure, Lists
  <2> QED BY <1>0, <2>1, <2>2, <2>3, <2>4
<1> QED BY <1>1, <1>2

\* Unless the frame holds no page or a clean one, its page is written, behind
\* the log.
LEMMA VictimWritten ==
  ASSUME Structure, NEW f \in Frames, AcquireFrame(f)
  PROVE  \/ UNCHANGED <<disk, flushed_lsn>> /\ (page_ids[f] = NoPage \/ f \notin dirty)
         \/ disk' = Stored({f}) /\ flushed_lsn' = enforce_wal({f})
<1>1. CASE free_list # <<>>
  <2>1. f = Head(free_list) /\ UNCHANGED <<disk, flushed_lsn>>
    BY <1>1 DEF AcquireFrame
  <2>2. free_list \in Seq(Frames) /\ NoRepeat(free_list)
    BY DEF Structure, TypeOK, Lists
  <2>3. Listed(free_list, Head(free_list))
    BY <1>1, <2>2, TailList
  <2> QED BY <2>1, <2>3 DEF Structure, Lists
<1>2. CASE free_list = <<>>
  BY <1>2 DEF AcquireFrame
<1> QED BY <1>1, <1>2

\* A page that comes into an acquired frame takes the place of the old one.
LEMMA InstallStructure ==
  ASSUME Structure, NEW h \in Handles, NEW f \in Frames, NEW p \in PageIds, NEW v \in Nat,
         NEW w \in BOOLEAN,
         hold[h] = Unheld, page_table[p] = NoFrame, AcquireFrame(f), Install(h, f, p, v, w),
         next_page_id' \in 0..MaxPages, next_page_id <= next_page_id', p < next_page_id',
         disk' \in [PageIds -> Nat], flushed_lsn' \in Nat, UNCHANGED <<last_lsn, failed>>
  PROVE  Structure'
<1>1. TypeOK
  BY DEF Structure
<1>2. /\ pages' = [pages EXCEPT ![f] = v]
      /\ page_ids' = [page_ids EXCEPT ![f] = p]
      /\ page_table' = [q \in PageIds |->
                          IF q = p THEN f ELSE IF q = page_ids[f] THEN NoFrame ELSE page_table[q]]
      /\ pin_count' = [pin_count EXCEPT ![f] = 1]
      /\ dirty' = dirty \ {f}
      /\ hold' = [hold EXCEPT ![h] = [page |-> p, frame |-> f, wrote |-> w]]
  BY DEF Install
<1>3. /\ hold' \in [Handles -> Handle]
      /\ hold'[h] = [page |-> p, frame |-> f, wrote |-> w]
      /\ \A k \in Handles : k # h => hold'[k] = hold[k]
      /\ \A g \in Frames : Held(g)' <=> (Held(g) \/ g = f)
      /\ Cardinality(Holders(f)') = Cardinality(Holders(f)) + 1
      /\ \A g \in Frames : g # f => Holders(g)' = Holders(g)
  BY <1>1, <1>2, Acquired
<1>4. /\ ~Held(f)
      /\ free_list' \in Seq(Frames) /\ frame_list' \in Seq(Frames)
      /\ NoRepeat(free_list') /\ NoRepeat(frame_list')
      /\ \A g : Listed(free_list', g) <=> (Listed(free_list, g) /\ g # f)
      /\ \A g : Listed(frame_list', g) <=> (Listed(frame_list, g) /\ g # f)
  BY FrameAcquired
<1>5. NoFrame \notin Frames /\ NoPage \notin PageIds
  BY PoolAssumption DEF Frames, PageIds
<1>6. TypeOK'
  <2>1. /\ pages' \in [Frames -> Nat] /\ page_ids' \in [Frames -> PageIds \cup {NoPage}]
        /\ pin_count' \in [Frames -> Nat] /\ dirty' \subseteq Frames
    BY <1>1, <1>2 DEF TypeOK
  <2>2. page_table' \in [PageIds -> Frames \cup {NoFrame}]
    BY <1>1, <1>2 DEF TypeOK
  <2> QED BY <1>1, <1>3, <1>4, <2>1, <2>2 DEF TypeOK
<1>7. /\ page_ids'[f] = p /\ \A g \in Frames : g # f => page_ids'[g] = page_ids[g]
      /\ page_table'[p] = f
      /\ \A q \in PageIds : q # p => page_table'[q] = IF q = page_ids[f] THEN NoFrame ELSE page_table[q]
      /\ \A g \in Frames : page_ids[g] # p
  <2>1. \A g \in Frames : page_ids[g] # p
    BY <1>1, <1>5 DEF Structure, TableInverse
  <2> QED BY <1>1, <1>2, <2>1 DEF TypeOK
<1>8. TableInverse'
  <2>1. ASSUME NEW q \in PageIds, page_table'[q] # NoFrame
        PROVE  page_ids'[page_table'[q]] = q /\ q < next_page_id'
    <3>1. CASE q = p
      BY <1>7, <3>1
    <3>2. CASE q # p
      <4>1. page_table'[q] = page_table[q] /\ page_table[q] # NoFrame /\ q # page_ids[f]
        BY <1>7, <2>1, <3>2
      <4>2. page_table[q] \in Frames /\ page_ids[page_table[q]] = q /\ q < next_page_id
        BY <1>1, <4>1 DEF Structure, TypeOK, TableInverse
      <4>3. page_ids'[page_table[q]] = q
        BY <1>7, <4>1, <4>2
      <4>4. q < next_page_id'
        BY <1>1, <4>2 DEF TypeOK, PageIds
      <4> QED BY <4>1, <4>3, <4>4
    <3> QED BY <3>1, <3>2
  <2>2. ASSUME NEW g \in Frames, page_ids'[g] # NoPage
        PROVE  page_table'[page_ids'[g]] = g
    <3>1. CASE g = f
      BY <1>7, <3>1
    <3>2. CASE g # f
      <4>1. /\ page_ids'[g] = page_ids[g] /\ page_ids[g] \in PageIds /\ page_ids[g] # p
            /\ page_table[page_ids[g]] = g
        BY <1>1, <1>7, <2>2, <3>2 DEF Structure, TypeOK, TableInverse
      <4>2. page_ids[g] # page_ids[f]
        BY <4>1, <3>2, <1>5 DEF Structure, TableInverse
      <4> QED BY <1>7, <4>1, <4>2
    <3> QED BY <3>1, <3>2
  <2> QED BY <2>1, <2>2 DEF TableInverse
<1>9. Lists'
  <2>1. \A g \in Frames : Listed(free_list', g) => page_ids'[g] = NoPage
    BY <1>4, <1>7 DEF Structure, Lists
  <2>2. \A g \in Frames : Listed(frame_list', g) => page_ids'[g] # NoPage /\ ~Held(g)'
    BY <1>3, <1>4, <1>7 DEF Structure, Lists
  <2>3. \A g \in Frames : Held(g)' \/ Listed(free_list', g) \/ Listed(frame_list', g) \/ g \in failed'
    BY <1>3, <1>4 DEF Structure, Lists
  <2> QED BY <1>4, <2>1, <2>2, <2>3 DEF Lists, Listed, NoRepeat
<1>10. Pins'
  <2>1. ASSUME NEW k \in Handles, hold'[k] # Unheld
        PROVE  page_ids'[hold'[k].frame] = hold'[k].page
    <3>1. CASE k = h
      BY <1>3, <1>7, <3>1
    <3>2. CASE k # h
      <4>1. hold'[k] = hold[k] /\ hold[k] # Unheld
        BY <1>3, <2>1, <3>2
      <4>2. /\ hold[k].frame \in Frames /\ page_ids[hold[k].frame] = hold[k].page
            /\ Held(hold[k].frame)
        BY <4>1, HeldPage
      <4> QED BY <1>4, <1>7, <4>1, <4>2
    <3> QED BY <3>1, <3>2
  <2>2. ASSUME NEW g \in Frames PROVE pin_count'[g] = Cardinality(Holders(g)')
    <3>1. Cardinality(Holders(f)) = 0
      BY <1>4, HolderCount
    <3> QED BY <1>1, <1>2, <1>3, <3>1 DEF Structure, TypeOK, Pins
  <2> QED BY <2>1, <2>2 DEF Pins, Unheld
<1> QED BY <1>6, <1>8, <1>9, <1>10 DEF Structure

\* Neither writing a victim nor leaving it be takes the disk out of its type.
LEMMA AcquiredTypes ==
  ASSUME Structure, NEW f \in Frames, AcquireFrame(f)
  PROVE  disk' \in [PageIds -> Nat] /\ flushed_lsn' \in Nat
<1>1. TypeOK
  BY DEF Structure
<1>2. Stored({f}) \in [PageIds -> Nat]
  BY StoredPages
<1>3. enforce_wal({f}) \in Nat
  BY <1>1 DEF enforce_wal, TypeOK
<1>4. CASE UNCHANGED <<disk, flushed_lsn>>
  BY <1>1, <1>4 DEF TypeOK
<1>5. CASE disk' = Stored({f}) /\ flushed_lsn' = enforce_wal({f})
  BY <1>2, <1>3, <1>5
<1> QED BY <1>4, <1>5, VictimWritten

\* A cache miss.
LEMMA FetchMissStructure ==
  ASSUME Structure, NEW h \in Handles, NEW p \in PageIds, fetch_miss(h, p)
  PROVE  Structure'
<1>1. PICK f \in Frames : AcquireFrame(f) /\ Install(h, f, p, disk'[p], FALSE)
  BY DEF fetch_miss
<1>2. /\ hold[h] = Unheld /\ p < next_page_id /\ page_table[p] = NoFrame
      /\ UNCHANGED <<next_page_id, last_lsn, failed>>
  BY DEF fetch_miss
<1>3. disk' \in [PageIds -> Nat] /\ flushed_lsn' \in Nat
  BY <1>1, AcquiredTypes
<1>4. /\ next_page_id' \in 0..MaxPages /\ next_page_id <= next_page_id' /\ p < next_page_id'
      /\ disk'[p] \in Nat /\ FALSE \in BOOLEAN
  BY <1>2, <1>3, PoolAssumption DEF Structure, TypeOK
<1> QED BY <1>1, <1>2, <1>3, <1>4, InstallStructure

\* A new page.
LEMMA NewPageStructure ==
  ASSUME Structure, NEW h \in Handles, new_page(h)
  PROVE  Structure'
<1> PICK p : p = next_page_id
  OBVIOUS
<1>1. PICK f \in Frames : AcquireFrame(f) /\ Install(h, f, p, 0, TRUE)
  BY DEF new_page
<1>2. /\ hold[h] = Unheld /\ p < MaxPages /\ next_page_id' = p + 1
      /\ UNCHANGED <<last_lsn, failed>>
  BY DEF new_page
<1>3. disk' \in [PageIds -> Nat] /\ flushed_lsn' \in Nat
  BY <1>1, AcquiredTypes
<1>4. /\ p \in PageIds /\ next_page_id' \in 0..MaxPages
      /\ next_page_id <= next_page_id' /\ p < next_page_id'
      /\ 0 \in Nat /\ TRUE \in BOOLEAN /\ ~(p < next_page_id)
  BY <1>2, PoolAssumption DEF Structure, TypeOK, PageIds
<1>5. page_table[p] = NoFrame
  BY <1>4 DEF Structure, TableInverse
<1> QED BY <1>1, <1>2, <1>3, <1>4, <1>5, InstallStructure

\* The victim of a failed eviction is on no list any more.
LEMMA EvictFailedStructure ==
  ASSUME Structure, evict_failed
  PROVE  Structure'
<1> PICK f : f = frame_list[Len(frame_list)]
  OBVIOUS
<1>1. /\ frame_list # <<>> /\ flushed_lsn' = enforce_wal({f}) /\ failed' = failed \cup {f}
      /\ frame_list' = SubSeq(frame_list, 1, Len(frame_list) - 1)
      /\ UNCHANGED <<pages, page_ids, page_table, pin_count, dirty, free_list, diskVars,
                     last_lsn, hold>>
  BY DEF evict_failed
<1>2. TypeOK
  BY DEF Structure
<1>3. /\ frame_list[Len(frame_list)] \in Frames
      /\ SubSeq(frame_list, 1, Len(frame_list) - 1) \in Seq(Frames)
      /\ NoRepeat(SubSeq(frame_list, 1, Len(frame_list) - 1))
      /\ \A g : Listed(SubSeq(frame_list, 1, Len(frame_list) - 1), g) <=>
                  Listed(frame_list, g) /\ g # frame_list[Len(frame_list)]
  BY <1>1, <1>2, FrontList DEF Structure, TypeOK, Lists
<1>4. /\ f \in Frames /\ frame_list' \in Seq(Frames) /\ NoRepeat(frame_list')
      /\ \A g : Listed(frame_list', g) <=> (Listed(frame_list, g) /\ g # f)
  BY <1>1, <1>3
<1>5. \A g : Holders(g)' = Holders(g) /\ (Held(g)' <=> Held(g))
  BY <1>1, SameHolders
<1>6. TypeOK'
  <2>1. flushed_lsn' \in Nat
    BY <1>1, <1>2 DEF TypeOK, enforce_wal
  <2> QED BY <1>1, <1>2, <1>4, <2>1 DEF TypeOK, diskVars
<1>7. TableInverse'
  BY <1>1 DEF Structure, TableInverse, diskVars
<1>8. Lists'
  <2>1. \A g \in Frames : Listed(free_list', g) => page_ids'[g] = NoPage
    BY <1>1 DEF Structure, Lists
  <2>2. \A g \in Frames : Listed(frame_list', g) => page_ids'[g] # NoPage /\ ~Held(g)'
    BY <1>1, <1>4, <1>5 DEF Structure, Lists
  <2>3. \A g \in Frames : Held(g)' \/ Listed(free_list', g) \/ Listed(frame_list', g) \/ g \in failed'
    BY <1>1, <1>4, <1>5 DEF Structure, Lists
  <2>4. NoRepeat(free_list')
    BY <1>1 DEF Structure, Lists
  <2> QED BY <1>4, <2>1, <2>2, <2>3, <2>4 DEF Lists, Listed, NoRepeat
<1>9. Pins'
  BY <1>1, <1>5 DEF Structure, Pins, Unheld
<1> QED BY <1>6, <1>7, <1>8, <1>9 DEF Structure

\* Flushing touches neither the frames nor the lists.
LEMMA FlushStructure ==
  ASSUME Structure, disk' \in [PageIds -> Nat], flushed_lsn' \in Nat, dirty' \subseteq Frames,
         UNCHANGED <<pages, page_ids, page_table, pin_count, free_list, frame_list, next_page_id,
                     last_lsn, hold, failed>>
  PROVE  Structure'
<1>1. \A g : Holders(g)' = Holders(g) /\ (Held(g)' <=> Held(g))
  BY SameHolders
<1>2. TypeOK'
  BY DEF Structure, TypeOK
<1>3. TableInverse'
  BY DEF Structure, TableInverse
<1>4. Lists'
  BY <1>1 DEF Structure, Lists, Listed, NoRepeat
<1>5. Pins'
  BY <1>1 DEF Structure, Pins, Unheld
<1> QED BY <1>2, <1>3, <1>4, <1>5 DEF Structure

\* flush_page.
LEMMA FlushPageStructure ==
  ASSUME Structure, NEW p \in PageIds, flush_page(p)
  PROVE  Structure'
<1> PICK f : f = page_table[p]
  OBVIOUS
<1>1. /\ f \in Frames /\ flushed_lsn' = enforce_wal({f})
      /\ \/ disk' = Stored({f}) /\ dirty' = dirty \ {f}
         \/ UNCHANGED <<disk, dirty>>
      /\ UNCHANGED <<pages, page_ids, page_table, pin_count, free_list, frame_list, next_page_id,
                     last_lsn, hold, failed>>
  BY DEF flush_page, Structure, TypeOK
<1>2. Stored({f}) \in [PageIds -> Nat]
  BY <1>1, StoredPages
<1>3. /\ disk' \in [PageIds -> Nat] /\ flushed_lsn' \in Nat /\ dirty' \subseteq Frames
  BY <1>1, <1>2 DEF Structure, TypeOK, enforce_wal
<1> QED BY <1>1, <1>3, FlushStructure

\* flush_all_pages.
LEMMA FlushAllStructure ==
  ASSUME Structure, flush_all_pages
  PROVE  Structure'
<1> DEFINE fs == {f \in dirty : page_ids[f] # NoPage}
<1>1. fs \subseteq Frames
  BY DEF Structure, TypeOK
<1>2. PICK ok : ok \subseteq fs /\ disk' = Stored(ok)
  BY DEF flush_all_pages
<1>3. /\ flushed_lsn' = enforce_wal(fs) /\ dirty' = dirty \ fs
      /\ UNCHANGED <<pages, page_ids, page_table, pin_count, free_list, frame_list, next_page_id,
                     last_lsn, hold, failed>>
  BY DEF flush_all_pages
<1> HIDE DEF fs
<1>4. Stored(ok) \in [PageIds -> Nat]
  BY <1>1, <1>2, StoredPages
<1>5. /\ disk' \in [PageIds -> Nat] /\ flushed_lsn' \in Nat /\ dirty' \subseteq Frames
  BY <1>1, <1>2, <1>3, <1>4 DEF Structure, TypeOK, enforce_wal
<1> QED BY <1>3, <1>5, FlushStructure

\* A page that delete_page finds unpinned is in nobody's hands, and its frame
\* goes from the replacer's list to the free list.
LEMMA DeleteFinds ==
  ASSUME Structure, NEW p \in PageIds, delete_page(p), NEW f, f = page_table[p]
  PROVE  /\ f \in Frames /\ page_ids[f] = p /\ ~Held(f) /\ pin_count[f] = 0
         /\ page_table' = [page_table EXCEPT ![p] = NoFrame]
         /\ frame_list' = set_evictable(frame_list, f, FALSE)
         /\ page_ids' = [page_ids EXCEPT ![f] = NoPage]
         /\ dirty' = dirty \ {f}
         /\ pin_count' = [pin_count EXCEPT ![f] = 0]
         /\ free_list' = Append(free_list, f)
         /\ failed' = failed \ {f}
         /\ UNCHANGED <<pages, diskVars, logVars, hold>>
<1>1. f \in Frames /\ page_ids[f] = p
  BY DEF delete_page, Structure, TypeOK, TableInverse
<1>2. pin_count[f] <= 0 /\ pin_count[f] \in Nat
  BY <1>1 DEF delete_page, Structure, TypeOK
<1>3. pin_count[f] = Cardinality(Holders(f))
  BY <1>1 DEF Structure, Pins
<1>4. pin_count[f] = 0 /\ ~Held(f)
  BY <1>1, <1>2, <1>3, HolderCount
<1> QED BY <1>1, <1>4 DEF delete_page

\* delete_page.
LEMMA DeleteStructure ==
  ASSUME Structure, NEW p \in PageIds, delete_page(p)
  PROVE  Structure'
<1> PICK f : f = page_table[p]
  OBVIOUS
<1>1. /\ f \in Frames /\ page_ids[f] = p /\ ~Held(f) /\ pin_count[f] = 0
      /\ page_table' = [page_table EXCEPT ![p] = NoFrame]
      /\ frame_list' = set_evictable(frame_list, f, FALSE)
      /\ page_ids' = [page_ids EXCEPT ![f] = NoPage]
      /\ dirty' = dirty \ {f}
      /\ pin_count' = [pin_count EXCEPT ![f] = 0]
      /\ free_list' = Append(free_list, f)
      /\ failed' = failed \ {f}
      /\ UNCHANGED <<pages, diskVars, logVars, hold>>
  BY DeleteFinds
<1>2. TypeOK
  BY DEF Structure
<1>3. \A g : Holders(g)' = Holders(g) /\ (Held(g)' <=> Held(g))
  BY <1>1, SameHolders
<1>4. NoFrame \notin Frames /\ NoPage \notin PageIds
  BY PoolAssumption DEF Frames, PageIds
<1>5. /\ free_list' \in Seq(Frames) /\ NoRepeat(free_list')
      /\ \A g : Listed(free_list', g) <=> (Listed(free_list, g) \/ g = f)
  <2>1. ~Listed(free_list, f)
    BY <1>1, <1>4 DEF Structure, Lists
  <2>2. free_list \in Seq(Frames) /\ NoRepeat(free_list) /\ f \in Frames
    BY <1>1 DEF Structure, TypeOK, Lists
  <2>3. /\ Append(free_list, f) \in Seq(Frames) /\ NoRepeat(Append(free_list, f))
        /\ \A g : Listed(Append(free_list, f), g) <=> (Listed(free_list, g) \/ g = f)
    BY <2>1, <2>2, AppendList
  <2> QED BY <1>1, <2>3
<1>6. /\ frame_list' \in Seq(Frames) /\ NoRepeat(frame_list')
      /\ \A g : Listed(frame_list', g) <=> (Listed(frame_list, g) /\ g # f)
  BY <1>1, MadeUnevictable, ZenonT(60) DEF Structure, TypeOK, Lists
<1>7. TypeOK'
  <2>1. /\ page_table' \in [PageIds -> Frames \cup {NoFrame}]
        /\ page_ids' \in [Frames -> PageIds \cup {NoPage}]
        /\ pin_count' \in [Frames -> Nat] /\ dirty' \subseteq Frames /\ failed' \subseteq Frames
    BY <1>1, <1>2 DEF TypeOK
  <2> QED BY <1>1, <1>2, <1>5, <1>6, <2>1 DEF TypeOK, diskVars, logVars
<1>8. TableInverse'
  <2>1. ASSUME NEW q \in PageIds, page_table'[q] # NoFrame
        PROVE  page_ids'[page_table'[q]] = q /\ q < next_page_id'
    <3>1. q # p /\ page_table'[q] = page_table[q]
      BY <1>1, <1>2, <2>1 DEF TypeOK
    <3>2. page_table[q] \in Frames /\ page_ids[page_table[q]] = q /\ q < next_page_id
      BY <1>2, <2>1, <3>1 DEF Structure, TypeOK, TableInverse
    <3>3. page_table[q] # f
      BY <1>1, <3>1, <3>2
    <3> QED BY <1>1, <1>2, <3>1, <3>2, <3>3 DEF TypeOK, diskVars
  <2>2. ASSUME NEW g \in Frames, page_ids'[g] # NoPage
        PROVE  page_table'[page_ids'[g]] = g
    <3>1. g # f /\ page_ids'[g] = page_ids[g]
      BY <1>1, <1>2, <2>2 DEF TypeOK
    <3>2. page_ids[g] \in PageIds /\ page_table[page_ids[g]] = g
      BY <1>2, <2>2, <3>1 DEF Structure, TypeOK, TableInverse
    <3>3. page_ids[g] # p
      BY <3>1, <3>2
    <3> QED BY <1>1, <1>2, <3>1, <3>2, <3>3 DEF TypeOK
  <2> QED BY <2>1, <2>2 DEF TableInverse
<1>9. Lists'
  <2>1. \A g \in Frames : Listed(free_list', g) => page_ids'[g] = NoPage
    BY <1>1, <1>2, <1>5 DEF Structure, TypeOK, Lists
  <2>2. \A g \in Frames : Listed(frame_list', g) => page_ids'[g] # NoPage /\ ~Held(g)'
    BY <1>1, <1>2, <1>3, <1>6 DEF Structure, TypeOK, Lists
  <2>3. \A g \in Frames : Held(g)' \/ Listed(free_list', g) \/ Listed(frame_list', g) \/ g \in failed'
    BY <1>1, <1>3, <1>5, <1>6 DEF Structure, Lists
  <2> QED BY <1>5, <1>6, <2>1, <2>2, <2>3 DEF Lists, Listed, NoRepeat
<1>10. Pins'
  <2>1. ASSUME NEW k \in Handles, hold[k] # Unheld
        PROVE  page_ids'[hold[k].frame] = hold[k].page
    <3>1. /\ hold[k].frame \in Frames /\ page_ids[hold[k].frame] = hold[k].page
          /\ Held(hold[k].frame)
      BY <2>1, HeldPage
    <3> QED BY <1>1, <1>2, <3>1 DEF TypeOK
  <2>2. ASSUME NEW g \in Frames PROVE pin_count'[g] = Cardinality(Holders(g)')
    BY <1>1, <1>2, <1>3 DEF Structure, TypeOK, Pins
  <2> QED BY <1>1, <2>1, <2>2 DEF Pins, Unheld
<1> QED BY <1>7, <1>8, <1>9, <1>10 DEF Structure

\* Every operation keeps the pool's structure.
LEMMA StructureInductive == Structure /\ [Next]_vars => Structure'
<1> SUFFICES ASSUME Structure, [Next]_vars PROVE Structure'
  OBVIOUS
<1>1. ASSUME NEW h \in Handles, NEW p \in PageIds, fetch_hit(h, p) PROVE Structure'
  BY <1>1, FetchHitStructure
<1>2. ASSUME NEW h \in Handles, NEW p \in PageIds, fetch_miss(h, p) PROVE Structure'
  BY <1>2, FetchMissStructure
<1>3. ASSUME NEW h \in Handles, new_page(h) PROVE Structure'
  BY <1>3, NewPageStructure
<1>4. ASSUME NEW h \in Handles, unpin_page(h) PROVE Structure'
  BY <1>4, UnpinStructure
<1>5. ASSUME NEW h \in Handles, Change(h) PROVE Structure'
  BY <1>5, ChangeStructure
<1>6. CASE evict_failed
  BY <1>6, EvictFailedStructure
<1>7. ASSUME NEW p \in PageIds, flush_page(p) PROVE Structure'
  BY <1>7, FlushPageStructure
<1>8. ASSUME NEW p \in PageIds, delete_page(p) PROVE Structure'
  BY <1>8, DeleteStructure
<1>9. CASE flush_all_pages
  BY <1>9, FlushAllStructure
<1>10. CASE UNCHANGED vars
  <2>1. UNCHANGED <<disk, flushed_lsn, dirty, pages, page_ids, page_table, pin_count, free_list,
                    frame_list, next_page_id, last_lsn, hold, failed>>
    BY <1>10 DEF vars, frameVars, diskVars, logVars
  <2>2. disk' \in [PageIds -> Nat] /\ flushed_lsn' \in Nat /\ dirty' \subseteq Frames
    BY <2>1 DEF Structure, TypeOK
  <2> QED BY <2>1, <2>2, FlushStructure
<1> QED BY <1>1, <1>2, <1>3, <1>4, <1>5, <1>6, <1>7, <1>8, <1>9, <1>10 DEF Next

\* The pool's structure is an invariant.
LEMMA StructureInvariant == Spec => []Structure
  BY InitStructure, StructureInductive, PTL DEF Spec

-----------------------------------------------------------------------------
\* Every variable of the pool keeps its type; in particular no pin count falls
\* below zero.
THEOREM TypeCorrect == Spec => []TypeOK
<1>1. Structure => TypeOK
  BY DEF Structure
<1> QED BY <1>1, StructureInvariant, PTL

\* fetch_page: whatever the others fetch, evict and delete, a pointer that a
\* client holds stays a pointer to its page, for any pool size.
THEOREM PointersAreStable == Spec => []PointerStable
<1>1. Structure => PointerStable
  <2> SUFFICES ASSUME Structure, NEW h \in Handles, hold[h] # Unheld
               PROVE  /\ page_ids[hold[h].frame] = hold[h].page
                      /\ page_table[hold[h].page] = hold[h].frame
                      /\ ~Listed(frame_list, hold[h].frame)
    BY DEF PointerStable
  <2>1. /\ hold[h].frame \in Frames /\ page_ids[hold[h].frame] = hold[h].page
        /\ page_table[hold[h].page] = hold[h].frame /\ Held(hold[h].frame)
    BY HeldPage
  <2> QED BY <2>1 DEF Structure, Lists
<1> QED BY <1>1, StructureInvariant, PTL

\* Replacer and free list: a frame that nobody holds is on exactly one of the
\* lists or was given up by a failed eviction, and pins count the holders.
THEOREM FramesAreAccountedFor == Spec => []FramesAccountedFor
<1>1. Structure => FramesAccountedFor
  BY DEF Structure, Lists, Pins, Holders, FramesAccountedFor
<1> QED BY <1>1, StructureInvariant, PTL

-----------------------------------------------------------------------------
(* The write-ahead rule.                                                   *)

\* Pages written after enforce_wal are behind the stable log.
LEMMA StoredBehindLog ==
  ASSUME Structure, Versions, NEW fs, fs \subseteq Frames, NEW ok, ok \subseteq fs
  PROVE  /\ \A p \in PageIds : Stored(ok)[p] <= enforce_wal(fs)
         /\ flushed_lsn <= enforce_wal(fs) /\ enforce_wal(fs) <= last_lsn
<1>1. TypeOK
  BY DEF Structure
<1>2. /\ enforce_wal(fs) \in Nat
      /\ flushed_lsn <= enforce_wal(fs) /\ enforce_wal(fs) <= last_lsn
      /\ \A f \in fs : pages[f] <= enforce_wal(fs)
  BY <1>1, EnforcedWal
<1>3. ASSUME NEW p \in PageIds PROVE Stored(ok)[p] <= enforce_wal(fs)
  <2>1. /\ (\E f \in ok : page_ids[f] = p) =>
             page_table[p] \in ok /\ Stored(ok)[p] = pages[page_table[p]]
        /\ ~(\E f \in ok : page_ids[f] = p) => Stored(ok)[p] = disk[p]
    BY StoredPages
  <2>2. disk[p] <= flushed_lsn /\ disk[p] \in Nat /\ flushed_lsn \in Nat
    BY <1>1 DEF Versions, TypeOK
  <2> QED BY <1>2, <2>1, <2>2
<1> QED BY <1>2, <1>3

\* So are they when a victim is written.
LEMMA AcquiredBehindLog ==
  ASSUME Structure, Versions, NEW f \in Frames, AcquireFrame(f)
  PROVE  (\A p \in PageIds : disk'[p] <= flushed_lsn') /\ flushed_lsn' <= last_lsn
<1>1. CASE UNCHANGED <<disk, flushed_lsn>>
  BY <1>1 DEF Versions
<1>2. CASE disk' = Stored({f}) /\ flushed_lsn' = enforce_wal({f})
  BY <1>2, StoredBehindLog
<1> QED BY <1>1, <1>2, VictimWritten

\* A page read or made by fetch_page and new_page is behind the log.
LEMMA InstallVersions ==
  ASSUME Structure, Versions, NEW h \in Handles, NEW f \in Frames, NEW p, NEW v \in Nat, NEW w,
         AcquireFrame(f), Install(h, f, p, v, w), v <= flushed_lsn' \/ v = 0,
         UNCHANGED last_lsn
  PROVE  Versions'
<1>1. (\A q \in PageIds : disk'[q] <= flushed_lsn') /\ flushed_lsn' <= last_lsn
  BY AcquiredBehindLog
<1>2. flushed_lsn' \in Nat /\ last_lsn \in Nat
  BY AcquiredTypes DEF Structure, TypeOK
<1>3. \A g \in Frames : pages'[g] = IF g = f THEN v ELSE pages[g]
  BY DEF Install, Structure, TypeOK
<1>4. v <= last_lsn
  BY <1>1, <1>2
<1> QED BY <1>1, <1>3, <1>4 DEF Versions

\* Every operation keeps the disk behind the stable log, and the pages behind
\* the log.
LEMMA VersionsInductive == Structure /\ Versions /\ [Next]_vars => Versions'
<1> SUFFICES ASSUME Structure, Versions, [Next]_vars PROVE Versions'
  OBVIOUS
<1>0. TypeOK
  BY DEF Structure
<1>1. ASSUME NEW h \in Handles, NEW p \in PageIds, fetch_hit(h, p) PROVE Versions'
  BY <1>1 DEF fetch_hit, Versions, diskVars, logVars
<1>2. ASSUME NEW h \in Handles, NEW p \in PageIds, fetch_miss(h, p) PROVE Versions'
  <2>1. PICK f \in Frames : AcquireFrame(f) /\ Install(h, f, p, disk'[p], FALSE)
    BY <1>2 DEF fetch_miss
  <2>2. disk'[p] <= flushed_lsn' /\ disk'[p] \in Nat
    BY <2>1, AcquiredBehindLog, AcquiredTypes
  <2>3. UNCHANGED last_lsn
    BY <1>2 DEF fetch_miss
  <2> QED BY <2>1, <2>2, <2>3, InstallVersions
<1>3. ASSUME NEW h \in Handles, new_page(h) PROVE Versions'
  <2>1. PICK f \in Frames : AcquireFrame(f) /\ Install(h, f, next_page_id, 0, TRUE)
    BY <1>3 DEF new_page
  <2>2. UNCHANGED last_lsn
    BY <1>3 DEF new_page
  <2> QED BY <2>1, <2>2, InstallVersions
<1>4. ASSUME NEW h \in Handles, unpin_page(h) PROVE Versions'
  BY <1>4 DEF unpin_page, Versions, diskVars, logVars
<1>5. ASSUME NEW h \in Handles, Change(h) PROVE Versions'
  <2>1. /\ last_lsn' = last_lsn + 1 /\ last_lsn < MaxLsn
        /\ pages' = [pages EXCEPT ![hold[h].frame] = last_lsn + 1]
        /\ UNCHANGED <<diskVars, flushed_lsn>>
    BY <1>5 DEF Change
  <2>2. \A f \in Frames : pages'[f] = pages[f] \/ pages'[f] = last_lsn + 1
    BY <1>0, <2>1 DEF TypeOK
  <2> QED BY <1>0, <2>1, <2>2, PoolAssumption DEF Versions, TypeOK, diskVars
<1>6. CASE evict_failed
  <2> PICK f : f = frame_list[Len(frame_list)]
    OBVIOUS
  <2>1. f \in Frames
    <3>1. frame_list # <<>> /\ frame_list \in Seq(Frames) /\ NoRepeat(frame_list)
      BY <1>6 DEF evict_failed, Structure, TypeOK, Lists
    <3> QED BY <3>1, FrontList
  <2>2. /\ flushed_lsn' = enforce_wal({f}) /\ UNCHANGED <<pages, disk, last_lsn>>
    BY <1>6 DEF evict_failed, diskVars
  <2>3. enforce_wal({f}) \in Nat /\ flushed_lsn <= enforce_wal({f}) /\ enforce_wal({f}) <= last_lsn
    BY <1>0, <2>1, EnforcedWal
  <2> QED BY <1>0, <2>2, <2>3 DEF Versions, TypeOK
<1>7. ASSUME NEW p \in PageIds, flush_page(p) PROVE Versions'
  <2> PICK f : f = page_table[p]
    OBVIOUS
  <2>1. /\ f \in Frames /\ flushed_lsn' = enforce_wal({f}) /\ (disk' = Stored({f}) \/ disk' = disk)
        /\ UNCHANGED <<pages, last_lsn>>
    BY <1>7 DEF flush_page, Structure, TypeOK
  <2>2. /\ \A q \in PageIds : Stored({f})[q] <= enforce_wal({f})
        /\ flushed_lsn <= enforce_wal({f}) /\ enforce_wal({f}) <= last_lsn
    BY <2>1, StoredBehindLog
  <2>3. enforce_wal({f}) \in Nat
    BY <1>0, <2>1, EnforcedWal
  <2>4. \A q \in PageIds : disk'[q] <= flushed_lsn'
    <3>1. CASE disk' = Stored({f})
      BY <2>1, <2>2, <3>1
    <3>2. CASE disk' = disk
      <4>1. flushed_lsn \in Nat /\ flushed_lsn' \in Nat /\ flushed_lsn <= flushed_lsn'
        BY <1>0, <2>1, <2>2, <2>3 DEF TypeOK
      <4>2. \A q \in PageIds : disk[q] \in Nat /\ disk[q] <= flushed_lsn
        BY <1>0 DEF Versions, TypeOK
      <4> QED BY <3>2, <4>1, <4>2
    <3> QED BY <2>1, <3>1, <3>2
  <2> QED BY <2>1, <2>2, <2>4 DEF Versions
<1>8. ASSUME NEW p \in PageIds, delete_page(p) PROVE Versions'
  BY <1>8 DEF delete_page, Versions, diskVars, logVars
<1>9. CASE flush_all_pages
  <2> DEFINE fs == {f \in dirty : page_ids[f] # NoPage}
  <2>1. fs \subseteq Frames
    BY <1>0 DEF TypeOK
  <2>2. PICK ok : ok \subseteq fs /\ disk' = Stored(ok)
    BY <1>9 DEF flush_all_pages
  <2>3. flushed_lsn' = enforce_wal(fs) /\ UNCHANGED <<pages, last_lsn>>
    BY <1>9 DEF flush_all_pages
  <2> HIDE DEF fs
  <2>4. /\ \A q \in PageIds : Stored(ok)[q] <= enforce_wal(fs)
        /\ flushed_lsn <= enforce_wal(fs) /\ enforce_wal(fs) <= last_lsn
    BY <2>1, <2>2, StoredBehindLog
  <2> QED BY <2>2, <2>3, <2>4 DEF Versions
<1>10. CASE UNCHANGED vars
  BY <1>10 DEF vars, frameVars, diskVars, logVars, Versions
<1> QED BY <1>1, <1>2, <1>3, <1>4, <1>5, <1>6, <1>7, <1>8, <1>9, <1>10 DEF Next

\* Versions are bounded as Versions says in every reachable state.
LEMMA VersionsInvariant == Spec => []Versions
<1>1. Init => Versions
  BY PoolAssumption DEF Init, Versions
<1> QED BY <1>1, VersionsInductive, StructureInvariant, PTL DEF Spec

\* enforce_wal: whichever of eviction, flush_page and flush_all_pages writes a
\* page, and whichever writes fail, no page on disk is ahead of the stable log.
THEOREM DiskIsBehindLog == Spec => []WalRule
<1>1. Versions => WalRule
  BY DEF Versions, WalRule
<1> QED BY <1>1, VersionsInvariant, PTL

-----------------------------------------------------------------------------
(* Clean frames.                                                           *)

\* The condition under which a clear dirty flag can be relied on: the writes
\* whose result flush_all_pages ignores do not fail.
NoLostWrite == "flush_all_pages" \notin FailingWrites

\* Taking a frame leaves every page on disk as it was, or as the frame held it.
LEMMA VictimOnDisk ==
  ASSUME Structure, CleanIsOnDisk, NEW f \in Frames, AcquireFrame(f), NEW q \in PageIds
  PROVE  /\ page_table[q] # f => disk'[q] = disk[q]
         /\ page_table[q] = f => disk'[q] = pages[f]
<1>1. NoFrame \notin Frames /\ NoPage \notin PageIds
  BY PoolAssumption DEF Frames, PageIds
<1>2. page_table[q] = f <=> page_ids[f] = q
  BY <1>1 DEF Structure, TableInverse
<1>3. CASE UNCHANGED <<disk, flushed_lsn>> /\ (page_ids[f] = NoPage \/ f \notin dirty)
  <2>1. ~Changing(f)
    BY FrameAcquired DEF Held, Changing
  <2> QED BY <1>1, <1>2, <1>3, <2>1 DEF CleanIsOnDisk
<1>4. CASE disk' = Stored({f})
  <2>1. /\ page_ids[f] = q => Stored({f})[q] = pages[page_table[q]]
        /\ page_ids[f] # q => Stored({f})[q] = disk[q]
    BY StoredPages
  <2> QED BY <1>2, <1>4, <2>1
<1> QED BY <1>3, <1>4, VictimWritten

\* A page that comes into an acquired frame is on disk, or its client is about
\* to say that it is dirty.
LEMMA InstallClean ==
  ASSUME Structure, CleanIsOnDisk, NEW h \in Handles, NEW f \in Frames, NEW p \in PageIds,
         NEW v, NEW w \in BOOLEAN, hold[h] = Unheld,
         AcquireFrame(f), Install(h, f, p, v, w), w \/ v = disk'[p]
  PROVE  CleanIsOnDisk'
<1>1. TypeOK
  BY DEF Structure
<1>2. hold' = [hold EXCEPT ![h] = [page |-> p, frame |-> f, wrote |-> w]]
  BY DEF Install
<1>3. /\ hold'[h] = [page |-> p, frame |-> f, wrote |-> w]
      /\ \A k \in Handles : k # h => hold'[k] = hold[k]
  BY <1>1, <1>2 DEF TypeOK
<1>4. hold[h].frame = NoFrame /\ NoFrame \notin Frames /\ NoPage \notin PageIds
  BY PoolAssumption DEF Unheld, Frames, PageIds
<1>5. \A g \in Frames : /\ page_ids'[g] = IF g = f THEN p ELSE page_ids[g]
                        /\ pages'[g] = IF g = f THEN v ELSE pages[g]
                        /\ g # f => (g \in dirty' <=> g \in dirty)
  BY <1>1 DEF Install, TypeOK
<1>6. ASSUME NEW g \in Frames, page_ids'[g] # NoPage, g \notin dirty', ~Changing(g)'
      PROVE  pages'[g] = disk'[page_ids'[g]]
  <2>1. CASE g = f
    <3>1. w => Changing(f)'
      BY <1>3 DEF Changing
    <3> QED BY <1>5, <1>6, <2>1, <3>1
  <2>2. CASE g # f
    <3>1. ~Changing(g)
      BY <1>3, <1>4, <1>6, <2>2 DEF Changing
    <3>2. pages[g] = disk[page_ids[g]]
      BY <1>5, <1>6, <2>2, <3>1 DEF CleanIsOnDisk
    <3>3. page_ids[g] \in PageIds /\ page_table[page_ids[g]] = g
      BY <1>1, <1>5, <1>6, <2>2 DEF TypeOK, Structure, TableInverse
    <3>4. disk'[page_ids[g]] = disk[page_ids[g]]
      BY <2>2, <3>3, VictimOnDisk
    <3> QED BY <1>5, <2>2, <3>2, <3>4
  <2> QED BY <2>1, <2>2
<1> QED BY <1>6 DEF CleanIsOnDisk

\* Clearing the flags of frames that are written leaves nothing clean that is
\* not on disk.
LEMMA WrittenIsClean ==
  ASSUME Structure, CleanIsOnDisk, NEW fs, fs \subseteq Frames,
         disk' = Stored(fs), dirty' = dirty \ fs, UNCHANGED <<pages, page_ids>>,
         \A g \in Frames : Changing(g)' <=> Changing(g)
  PROVE  CleanIsOnDisk'
<1>1. ASSUME NEW g \in Frames, page_ids[g] # NoPage, g \notin dirty', ~Changing(g)
      PROVE  pages[g] = disk'[page_ids[g]]
  <2> PICK q : q = page_ids[g]
    OBVIOUS
  <2>1. q \in PageIds /\ page_table[q] = g
    BY <1>1 DEF Structure, TypeOK, TableInverse
  <2>2. /\ (\E f \in fs : page_ids[f] = q) => Stored(fs)[q] = pages[page_table[q]]
        /\ ~(\E f \in fs : page_ids[f] = q) => Stored(fs)[q] = disk[q]
    BY <2>1, StoredPages
  <2>3. CASE \E f \in fs : page_ids[f] = q
    BY <2>1, <2>2, <2>3
  <2>4. CASE ~\E f \in fs : page_ids[f] = q
    BY <1>1, <2>1, <2>2, <2>4 DEF CleanIsOnDisk
  <2> QED BY <2>3, <2>4
<1> QED BY <1>1 DEF CleanIsOnDisk

\* Every operation keeps clean frames as the disk has them.
LEMMA CleanInductive ==
  NoLostWrite /\ Structure /\ CleanIsOnDisk /\ [Next]_vars => CleanIsOnDisk'
<1> SUFFICES ASSUME NoLostWrite, Structure, CleanIsOnDisk, [Next]_vars PROVE CleanIsOnDisk'
  OBVIOUS
<1>0. TypeOK
  BY DEF Structure
<1>1. ASSUME NEW h \in Handles, NEW p \in PageIds, fetch_hit(h, p) PROVE CleanIsOnDisk'
  <2>1. /\ hold[h] = Unheld
        /\ hold' = [hold EXCEPT ![h] = [page |-> p, frame |-> page_table[p], wrote |-> FALSE]]
        /\ UNCHANGED <<pages, page_ids, dirty, disk>>
    BY <1>1 DEF fetch_hit, diskVars
  <2>2. \A k \in Handles : hold'[k] = hold[k] \/ (~hold'[k].wrote /\ ~hold[k].wrote)
    BY <1>0, <2>1 DEF TypeOK, Unheld
  <2>3. \A g \in Frames : Changing(g)' <=> Changing(g)
    BY <2>2 DEF Changing
  <2> QED BY <2>1, <2>3 DEF CleanIsOnDisk
<1>2. ASSUME NEW h \in Handles, NEW p \in PageIds, fetch_miss(h, p) PROVE CleanIsOnDisk'
  <2>1. PICK f \in Frames : AcquireFrame(f) /\ Install(h, f, p, disk'[p], FALSE)
    BY <1>2 DEF fetch_miss
  <2>2. hold[h] = Unheld /\ FALSE \in BOOLEAN
    BY <1>2 DEF fetch_miss
  <2> QED BY <2>1, <2>2, InstallClean
<1>3. ASSUME NEW h \in Handles, new_page(h) PROVE CleanIsOnDisk'
  <2>1. PICK f \in Frames : AcquireFrame(f) /\ Install(h, f, next_page_id, 0, TRUE)
    BY <1>3 DEF new_page
  <2>2. hold[h] = Unheld /\ TRUE \in BOOLEAN /\ next_page_id \in PageIds
    BY <1>0, <1>3, PoolAssumption DEF new_page, TypeOK, PageIds
  <2> QED BY <2>1, <2>2, InstallClean
<1>4. ASSUME NEW h \in Handles, unpin_page(h) PROVE CleanIsOnDisk'
  <2> PICK f : f = hold[h].frame
    OBVIOUS
  <2>1. /\ f \in Frames /\ hold[h] # Unheld
        /\ dirty' = IF hold[h].wrote THEN dirty \cup {f} ELSE dirty
        /\ hold' = [hold EXCEPT ![h] = Unheld]
        /\ UNCHANGED <<pages, page_ids, diskVars>>
    BY <1>4, UnpinFinds
  <2>2. ASSUME NEW g \in Frames, g \notin dirty', Changing(g) PROVE Changing(g)'
    <3>1. PICK k \in Handles : hold[k].frame = g /\ hold[k].wrote
      BY <2>2 DEF Changing
    <3>2. k # h
      BY <2>1, <2>2, <3>1
    <3>3. hold'[k] = hold[k]
      BY <1>0, <2>1, <3>2 DEF TypeOK
    <3> QED BY <3>1, <3>3 DEF Changing
  <2> QED BY <2>1, <2>2 DEF CleanIsOnDisk, diskVars
<1>5. ASSUME NEW h \in Handles, Change(h) PROVE CleanIsOnDisk'
  <2>1. /\ hold[h] # Unheld /\ hold' = [hold EXCEPT ![h] = [@ EXCEPT !.wrote = TRUE]]
        /\ pages' = [pages EXCEPT ![hold[h].frame] = last_lsn + 1]
        /\ UNCHANGED <<page_ids, dirty, disk>>
    BY <1>5 DEF Change, diskVars
  <2>2. hold[h] \in [page : PageIds, frame : Frames, wrote : BOOLEAN]
    BY <1>0, <2>1 DEF TypeOK, Handle
  <2>3. /\ hold'[h].frame = hold[h].frame /\ hold'[h].wrote
        /\ \A k \in Handles : k # h => hold'[k] = hold[k]
    BY <1>0, <2>1, <2>2 DEF TypeOK
  <2>4. \A g \in Frames : Changing(g) => Changing(g)'
    BY <2>3 DEF Changing
  <2>5. \A g \in Frames : ~Changing(g)' => pages'[g] = pages[g]
    <3>1. \A g \in Frames : g = hold[h].frame => Changing(g)'
      BY <2>3 DEF Changing
    <3> QED BY <1>0, <2>1, <3>1 DEF TypeOK
  <2> QED BY <2>1, <2>4, <2>5 DEF CleanIsOnDisk
<1>6. CASE evict_failed
  BY <1>6 DEF evict_failed, CleanIsOnDisk, Changing, diskVars
<1>7. ASSUME NEW p \in PageIds, flush_page(p) PROVE CleanIsOnDisk'
  <2> PICK f : f = page_table[p]
    OBVIOUS
  <2>1. /\ f \in Frames /\ page_ids[f] = p /\ UNCHANGED <<pages, page_ids, hold>>
        /\ \/ disk' = Stored({f}) /\ dirty' = dirty \ {f}
           \/ UNCHANGED <<disk, dirty>>
    BY <1>7 DEF flush_page, Structure, TypeOK, TableInverse
  <2>2. \A g \in Frames : Changing(g)' <=> Changing(g)
    BY <2>1 DEF Changing
  <2>3. CASE disk' = Stored({f}) /\ dirty' = dirty \ {f}
    BY <2>1, <2>2, <2>3, WrittenIsClean
  <2>4. CASE UNCHANGED <<disk, dirty>>
    BY <2>1, <2>2, <2>4 DEF CleanIsOnDisk
  <2> QED BY <2>1, <2>3, <2>4
<1>8. ASSUME NEW p \in PageIds, delete_page(p) PROVE CleanIsOnDisk'
  <2> PICK f : f = page_table[p]
    OBVIOUS
  <2>1. /\ f \in Frames /\ page_ids' = [page_ids EXCEPT ![f] = NoPage] /\ dirty' = dirty \ {f}
        /\ UNCHANGED <<pages, disk, hold>>
    BY <1>8, DeleteFinds DEF diskVars
  <2>2. \A g \in Frames : Changing(g)' <=> Changing(g)
    BY <2>1 DEF Changing
  <2>3. \A g \in Frames : page_ids'[g] # NoPage => g # f /\ page_ids'[g] = page_ids[g]
    BY <1>0, <2>1 DEF TypeOK
  <2> QED BY <2>1, <2>2, <2>3 DEF CleanIsOnDisk
<1>9. CASE flush_all_pages
  <2> DEFINE fs == {f \in dirty : page_ids[f] # NoPage}
  <2>1. /\ fs \subseteq Frames /\ disk' = Stored(fs) /\ dirty' = dirty \ fs
        /\ UNCHANGED <<pages, page_ids, hold>>
    BY <1>0, <1>9 DEF flush_all_pages, TypeOK, NoLostWrite
  <2>2. \A g \in Frames : Changing(g)' <=> Changing(g)
    BY <2>1 DEF Changing
  <2> HIDE DEF fs
  <2> QED BY <2>1, <2>2, WrittenIsClean
<1>10. CASE UNCHANGED vars
  BY <1>10 DEF vars, frameVars, diskVars, CleanIsOnDisk, Changing
<1> QED BY <1>1, <1>2, <1>3, <1>4, <1>5, <1>6, <1>7, <1>8, <1>9, <1>10 DEF Next

\* dirty_: as long as no write of flush_all_pages fails, a frame that is not
\* marked dirty and that no client is changing holds what the disk holds.
THEOREM CleanFramesAreOnDisk ==
  ASSUME NoLostWrite PROVE Spec => []CleanIsOnDisk
<1>1. Init => CleanIsOnDisk
  BY DEF Init, CleanIsOnDisk
<1>2. Structure /\ CleanIsOnDisk /\ [Next]_vars => CleanIsOnDisk'
  BY CleanInductive
<1> QED BY <1>1, <1>2, StructureInvariant, PTL DEF Spec

-----------------------------------------------------------------------------
(* The pool implements PageStore.                                          *)

\* What PageStore's variables stand for.
StorePages == [p \in PageIds |-> Current(p)]
StoreHolds == [h \in Handles |-> hold[h].page]

\* The disk holds zeroes where no page is allocated.
LEMMA UnallocatedInductive == Structure /\ Unallocated /\ [Next]_vars => Unallocated'
<1> SUFFICES ASSUME Structure, Unallocated, [Next]_vars PROVE Unallocated'
  OBVIOUS
<1>0. TypeOK
  BY DEF Structure
<1>1. next_page_id' \in Nat /\ next_page_id <= next_page_id'
  <2>1. next_page_id' = next_page_id \/ next_page_id' = next_page_id + 1
    BY DEF Next, fetch_hit, fetch_miss, new_page, unpin_page, Change, evict_failed, flush_page,
           delete_page, flush_all_pages, vars, diskVars
  <2> QED BY <1>0, <2>1, PoolAssumption DEF TypeOK
<1>2. ASSUME NEW fs, fs \subseteq Frames, NEW q \in PageIds, q >= next_page_id
      PROVE  Stored(fs)[q] = disk[q]
  <2>1. page_table[q] = NoFrame /\ NoFrame \notin Frames
    BY <1>0, <1>2, PoolAssumption DEF Structure, TypeOK, TableInverse, PageIds, Frames
  <2> QED BY <1>2, <2>1, StoredPages
<1>3. \/ disk' = disk
      \/ \E fs : fs \subseteq Frames /\ disk' = Stored(fs)
  <2>1. ASSUME NEW f \in Frames, AcquireFrame(f)
        PROVE  disk' = disk \/ \E fs : fs \subseteq Frames /\ disk' = Stored(fs)
    BY <2>1, VictimWritten
  <2>2. ASSUME NEW p \in PageIds, flush_page(p)
        PROVE  disk' = disk \/ \E fs : fs \subseteq Frames /\ disk' = Stored(fs)
    <3>1. page_table[p] \in Frames /\ (disk' = disk \/ disk' = Stored({page_table[p]}))
      BY <1>0, <2>2 DEF flush_page, TypeOK
    <3> QED BY <3>1
  <2>3. ASSUME flush_all_pages
        PROVE  \E fs : fs \subseteq Frames /\ disk' = Stored(fs)
    <3>1. PICK ok : ok \subseteq dirty /\ disk' = Stored(ok)
      BY <2>3 DEF flush_all_pages
    <3> QED BY <1>0, <3>1 DEF TypeOK
  <2> QED BY <2>1, <2>2, <2>3 DEF Next, fetch_hit, fetch_miss, new_page, unpin_page, Change,
             evict_failed, delete_page, vars, diskVars
<1>4. \A q \in PageIds : q >= next_page_id' => q >= next_page_id
  BY <1>0, <1>1 DEF TypeOK, PageIds
<1> QED BY <1>2, <1>3, <1>4 DEF Unallocated

\* Reading a page in, or making a new one, changes no page: the one that had
\* the frame is on disk.
LEMMA InstallKeepsPages ==
  ASSUME Structure, CleanIsOnDisk, NEW h \in Handles, NEW f \in Frames, NEW p \in PageIds,
         NEW v, NEW w, page_table[p] = NoFrame, AcquireFrame(f), Install(h, f, p, v, w),
         v = disk[p], NEW q \in PageIds
  PROVE  Current(q)' = Current(q)
<1>1. TypeOK /\ NoFrame \notin Frames /\ NoPage \notin PageIds
  BY PoolAssumption DEF Structure, Frames, PageIds
<1>2. /\ \A g \in Frames : pages'[g] = IF g = f THEN v ELSE pages[g]
      /\ page_table'[q] = IF q = p THEN f ELSE IF q = page_ids[f] THEN NoFrame ELSE page_table[q]
  BY <1>1 DEF Install, TypeOK
<1>3. /\ page_table[q] # f => disk'[q] = disk[q]
      /\ page_table[q] = f => disk'[q] = pages[f]
  BY VictimOnDisk
<1>4. page_table[q] = f <=> page_ids[f] = q
  BY <1>1 DEF Structure, TableInverse
<1>5. page_table[q] \in Frames \cup {NoFrame}
  BY <1>1 DEF TypeOK
<1>6. CASE q = p
  BY <1>1, <1>2, <1>6 DEF Current
<1>7. CASE q # p /\ page_ids[f] = q
  BY <1>1, <1>2, <1>3, <1>4, <1>7 DEF Current
<1>8. CASE q # p /\ page_ids[f] # q
  BY <1>1, <1>2, <1>3, <1>4, <1>5, <1>8 DEF Current
<1> QED BY <1>6, <1>7, <1>8

\* Writing pages back changes none.
LEMMA WriteKeepsPages ==
  ASSUME Structure, NEW fs, fs \subseteq Frames, disk' = Stored(fs),
         UNCHANGED <<pages, page_table>>, NEW q \in PageIds
  PROVE  Current(q)' = Current(q)
<1>1. CASE page_table[q] = NoFrame
  <2>1. NoFrame \notin Frames
    BY PoolAssumption DEF Frames
  <2>2. disk'[q] = disk[q]
    BY <1>1, <2>1, StoredPages
  <2> QED BY <1>1, <2>2 DEF Current
<1>2. CASE page_table[q] # NoFrame
  BY <1>2 DEF Current
<1> QED BY <1>1, <1>2

\* Every version that a page can have is one of PageStore's.
LEMMA CurrentVersion ==
  ASSUME Structure, Versions, NEW q \in PageIds
  PROVE  disk[q] \in 0..MaxLsn /\ Current(q) \in 0..MaxLsn
<1>1. /\ disk[q] \in Nat /\ flushed_lsn \in Nat /\ last_lsn \in Nat /\ MaxLsn \in Nat
      /\ disk[q] <= flushed_lsn /\ flushed_lsn <= last_lsn /\ last_lsn <= MaxLsn
  BY PoolAssumption DEF Structure, TypeOK, Versions
<1>2. \A f \in Frames : pages[f] \in Nat /\ pages[f] <= last_lsn
  BY DEF Structure, TypeOK, Versions
<1>3. disk[q] \in 0..MaxLsn
  BY <1>1
<1>4. \A f \in Frames : pages[f] \in 0..MaxLsn
  BY <1>1, <1>2
<1> QED BY <1>3, <1>4 DEF Current, Structure, TypeOK

\* A store whose pages are all as before is as before.
LEMMA SameStore ==
  ASSUME \A q \in PageIds : Current(q)' = Current(q)
  PROVE  StorePages' = StorePages
  BY DEF StorePages

\* fetch_page and new_page implement Acquire.
LEMMA AcquireRefines ==
  ASSUME TypeOK, NEW h \in Handles, hold[h] = Unheld, NEW p \in PageIds, NEW f, NEW w,
         hold' = [hold EXCEPT ![h] = [page |-> p, frame |-> f, wrote |-> w]],
         \A q \in PageIds : Current(q)' = Current(q)
  PROVE  Store!Acquire(h, p)
<1>1. StoreHolds[h] = NoPage
  BY DEF StoreHolds, Unheld
<1>2. StoreHolds' = [StoreHolds EXCEPT ![h] = p]
  <2>1. \A k \in Handles : hold'[k].page = IF k = h THEN p ELSE hold[k].page
    BY DEF TypeOK
  <2> QED BY <2>1 DEF StoreHolds
<1>3. StorePages' = StorePages
  BY SameStore
<1> QED BY <1>1, <1>2, <1>3 DEF Store!Acquire, StorePages, StoreHolds

\* unpin_page implements Release.
LEMMA UnpinRefines ==
  ASSUME Structure, NEW h \in Handles, unpin_page(h)
  PROVE  Store!Release(h)
<1> PICK f : f = hold[h].frame
  OBVIOUS
<1>1. /\ hold[h] # Unheld /\ hold' = [hold EXCEPT ![h] = Unheld]
      /\ UNCHANGED <<pages, page_table, diskVars>>
  BY UnpinFinds
<1>2. StoreHolds[h] # NoPage
  <2>1. hold[h].page \in PageIds
    BY <1>1, HeldPage
  <2> QED BY <2>1, PoolAssumption DEF StoreHolds, PageIds
<1>3. StoreHolds' = [StoreHolds EXCEPT ![h] = NoPage]
  <2>1. \A k \in Handles : hold'[k].page = IF k = h THEN NoPage ELSE hold[k].page
    BY <1>1 DEF Structure, TypeOK, Unheld
  <2> QED BY <2>1 DEF StoreHolds
<1>4. StorePages' = StorePages
  BY <1>1 DEF StorePages, Current, diskVars
<1> QED BY <1>2, <1>3, <1>4 DEF Store!Release, StorePages, StoreHolds

\* A change made through a pointer is a change of the page it stands for.
LEMMA ChangeRefines ==
  ASSUME Structure, Versions, NEW h \in Handles, Change(h)
  PROVE  Store!Change(h)
<1> PICK p, f : p = hold[h].page /\ f = hold[h].frame
  OBVIOUS
<1>0. TypeOK
  BY DEF Structure
<1>1. /\ hold[h] # Unheld /\ last_lsn < MaxLsn
      /\ hold' = [hold EXCEPT ![h] = [@ EXCEPT !.wrote = TRUE]]
      /\ pages' = [pages EXCEPT ![f] = last_lsn + 1]
      /\ UNCHANGED <<page_ids, page_table, disk>>
  BY DEF Change, diskVars
<1>2. /\ f \in Frames /\ p \in PageIds /\ page_ids[f] = p /\ page_table[p] = f
      /\ NoFrame \notin Frames /\ NoPage \notin PageIds
  BY <1>1, HeldPage, PoolAssumption DEF Frames, PageIds
<1>3. StoreHolds[h] = p /\ p # NoPage
  BY <1>2 DEF StoreHolds
<1>4. StoreHolds' = StoreHolds
  <2>1. hold[h] \in [page : PageIds, frame : Frames, wrote : BOOLEAN]
    BY <1>0, <1>1 DEF TypeOK, Handle
  <2>2. \A k \in Handles : hold'[k].page = hold[k].page
    BY <1>0, <1>1, <2>1 DEF TypeOK
  <2> QED BY <2>2 DEF StoreHolds
<1>5. last_lsn + 1 \in 0..MaxLsn
  BY <1>0, <1>1, PoolAssumption DEF TypeOK
<1>6. ASSUME NEW q \in PageIds
      PROVE  Current(q)' = IF q = p THEN last_lsn + 1 ELSE Current(q)
  <2>1. CASE q = p
    BY <1>0, <1>1, <1>2, <2>1 DEF Current, TypeOK
  <2>2. CASE q # p
    <3>1. page_table[q] # f
      BY <1>2, <2>2 DEF Structure, TableInverse
    <3> QED BY <1>0, <1>1, <2>2, <3>1 DEF Current, TypeOK
  <2> QED BY <2>1, <2>2
<1>7. StorePages' = [StorePages EXCEPT ![p] = last_lsn + 1]
  BY <1>6 DEF StorePages
<1> QED BY <1>3, <1>4, <1>5, <1>7 DEF Store!Change, StorePages, StoreHolds

\* delete_page leaves what the disk holds of a page that nobody holds.
LEMMA DeleteRefines ==
  ASSUME Structure, Versions, NEW p \in PageIds, delete_page(p)
  PROVE  Store!Discard(p)
<1> PICK f : f = page_table[p]
  OBVIOUS
<1>0. TypeOK
  BY DEF Structure
<1>1. /\ f \in Frames /\ page_ids[f] = p /\ ~Held(f)
      /\ page_table' = [page_table EXCEPT ![p] = NoFrame]
      /\ UNCHANGED <<pages, diskVars, hold>>
  BY DeleteFinds
<1>2. ASSUME NEW h \in Handles PROVE StoreHolds[h] # p
  <2>1. CASE hold[h] = Unheld
    BY <2>1, PoolAssumption DEF StoreHolds, Unheld, PageIds
  <2>2. CASE hold[h] # Unheld
    <3>1. page_table[hold[h].page] = hold[h].frame /\ Held(hold[h].frame)
      BY <2>2, HeldPage
    <3> QED BY <1>1, <3>1 DEF StoreHolds
  <2> QED BY <2>1, <2>2
<1>3. StoreHolds' = StoreHolds
  BY <1>1 DEF StoreHolds
<1>4. disk[p] \in 0..MaxLsn
  BY CurrentVersion
<1>5. StorePages' = [StorePages EXCEPT ![p] = disk[p]]
  <2>1. \A q \in PageIds : Current(q)' = IF q = p THEN disk[p] ELSE Current(q)
    BY <1>0, <1>1 DEF Current, TypeOK, diskVars
  <2> QED BY <2>1 DEF StorePages
<1> QED BY <1>2, <1>3, <1>4, <1>5 DEF Store!Discard, StorePages, StoreHolds

\* Every operation of the pool is a step of the store or leaves it alone.
LEMMA NextRefines ==
  NoLostWrite /\ Structure /\ Versions /\ CleanIsOnDisk /\ Unallocated /\ [Next]_vars
    => [Store!Next]_<<StorePages, StoreHolds>>
<1> SUFFICES ASSUME NoLostWrite, Structure, Versions, CleanIsOnDisk, Unallocated, [Next]_vars
             PROVE  [Store!Next]_<<StorePages, StoreHolds>>
  OBVIOUS
<1>0. TypeOK
  BY DEF Structure
<1>1. ASSUME NEW h \in Handles, NEW p \in PageIds, fetch_hit(h, p) PROVE Store!Next
  <2> PICK f : f = page_table[p]
    OBVIOUS
  <2>1. /\ hold[h] = Unheld
        /\ hold' = [hold EXCEPT ![h] = [page |-> p, frame |-> f, wrote |-> FALSE]]
        /\ \A q \in PageIds : Current(q)' = Current(q)
    BY <1>1 DEF fetch_hit, diskVars, Current
  <2>2. Store!Acquire(h, p)
    BY <1>0, <2>1, AcquireRefines
  <2> QED BY <2>2 DEF Store!Next
<1>2. ASSUME NEW h \in Handles, NEW p \in PageIds, fetch_miss(h, p) PROVE Store!Next
  <2>1. PICK f \in Frames : AcquireFrame(f) /\ Install(h, f, p, disk'[p], FALSE)
    BY <1>2 DEF fetch_miss
  <2>2. hold[h] = Unheld /\ page_table[p] = NoFrame /\ NoFrame \notin Frames
    BY <1>2, PoolAssumption DEF fetch_miss, Frames
  <2>3. disk'[p] = disk[p]
    BY <2>1, <2>2, VictimOnDisk
  <2>4. \A q \in PageIds : Current(q)' = Current(q)
    BY <2>1, <2>2, <2>3, InstallKeepsPages
  <2>5. hold' = [hold EXCEPT ![h] = [page |-> p, frame |-> f, wrote |-> FALSE]]
    BY <2>1 DEF Install
  <2>6. Store!Acquire(h, p)
    BY <1>0, <2>2, <2>4, <2>5, AcquireRefines
  <2> QED BY <2>6 DEF Store!Next
<1>3. ASSUME NEW h \in Handles, new_page(h) PROVE Store!Next
  <2> PICK p : p = next_page_id
    OBVIOUS
  <2>1. PICK f \in Frames : AcquireFrame(f) /\ Install(h, f, p, 0, TRUE)
    BY <1>3 DEF new_page
  <2>2. /\ hold[h] = Unheld /\ p \in PageIds /\ ~(p < next_page_id) /\ p >= next_page_id
    BY <1>0, <1>3, PoolAssumption DEF new_page, TypeOK, PageIds
  <2>3. page_table[p] = NoFrame /\ disk[p] = 0
    BY <2>2 DEF Structure, TableInverse, Unallocated
  <2>4. \A q \in PageIds : Current(q)' = Current(q)
    BY <2>1, <2>2, <2>3, InstallKeepsPages
  <2>5. hold' = [hold EXCEPT ![h] = [page |-> p, frame |-> f, wrote |-> TRUE]]
    BY <2>1 DEF Install
  <2>6. Store!Acquire(h, p)
    BY <1>0, <2>2, <2>4, <2>5, AcquireRefines
  <2> QED BY <2>2, <2>6 DEF Store!Next
<1>4. ASSUME NEW h \in Handles, unpin_page(h) PROVE Store!Next
  BY <1>4, UnpinRefines DEF Store!Next
<1>5. ASSUME NEW h \in Handles, Change(h) PROVE Store!Next
  BY <1>5, ChangeRefines DEF Store!Next
<1>6. CASE evict_failed
  BY <1>6 DEF evict_failed, diskVars, StorePages, StoreHolds, Current
<1>7. ASSUME NEW p \in PageIds, flush_page(p) PROVE UNCHANGED <<StorePages, StoreHolds>>
  <2> PICK f : f = page_table[p]
    OBVIOUS
  <2>1. /\ f \in Frames /\ UNCHANGED <<pages, page_table, hold>>
        /\ (disk' = Stored({f}) \/ disk' = disk)
    BY <1>0, <1>7 DEF flush_page, TypeOK
  <2>2. CASE disk' = Stored({f})
    <3>1. \A q \in PageIds : Current(q)' = Current(q)
      BY <2>1, <2>2, WriteKeepsPages
    <3> QED BY <2>1, <3>1, SameStore DEF StoreHolds
  <2>3. CASE disk' = disk
    BY <2>1, <2>3 DEF StorePages, StoreHolds, Current
  <2> QED BY <2>1, <2>2, <2>3
<1>8. ASSUME NEW p \in PageIds, delete_page(p) PROVE Store!Next
  BY <1>8, DeleteRefines DEF Store!Next
<1>9. ASSUME flush_all_pages PROVE UNCHANGED <<StorePages, StoreHolds>>
  <2>1. PICK ok : ok \subseteq dirty /\ disk' = Stored(ok)
    BY <1>9 DEF flush_all_pages
  <2>2. ok \subseteq Frames /\ UNCHANGED <<pages, page_table, hold>>
    BY <1>0, <1>9, <2>1 DEF flush_all_pages, TypeOK
  <2>3. \A q \in PageIds : Current(q)' = Current(q)
    BY <2>1, <2>2, WriteKeepsPages
  <2> QED BY <2>2, <2>3, SameStore DEF StoreHolds
<1>10. CASE UNCHANGED vars
  BY <1>10 DEF vars, frameVars, diskVars, StorePages, StoreHolds, Current
<1> QED BY <1>1, <1>2, <1>3, <1>4, <1>5, <1>6, <1>7, <1>8, <1>9, <1>10 DEF Next

\* As long as no write of flush_all_pages fails, the pool is a store of pages:
\* whatever is evicted, written back and read again, and whichever evictions
\* and flush_page calls fail, a page changes only in the hands of its holders.
THEOREM Refinement ==
  ASSUME NoLostWrite PROVE Spec => RefinesPageStore
<1>1. Init => Store!Init
  <2> SUFFICES ASSUME Init PROVE Store!Init
    OBVIOUS
  <2>1. StorePages = [p \in PageIds |-> 0] /\ StoreHolds = [h \in Handles |-> NoPage]
    BY DEF Init, StorePages, StoreHolds, Current, Unheld
  <2> QED BY <2>1 DEF Store!Init, StorePages, StoreHolds
<1>2. Init => Unallocated
  BY DEF Init, Unallocated
<1>3. Structure /\ Unallocated /\ [Next]_vars => Unallocated'
  BY UnallocatedInductive
<1>4. Structure /\ Versions /\ CleanIsOnDisk /\ Unallocated /\ [Next]_vars
        => [Store!Next]_<<StorePages, StoreHolds>>
  BY NextRefines
<1>5. Spec => []CleanIsOnDisk
  BY CleanFramesAreOnDisk
<1>6. Spec => []Unallocated
  BY <1>2, <1>3, StructureInvariant, PTL DEF Spec
<1>7. Spec => [][Store!Next]_<<StorePages, StoreHolds>>
  BY <1>4, <1>5, <1>6, StructureInvariant, VersionsInvariant, PTL DEF Spec
<1>8. RefinesPageStore <=> Store!Init /\ [][Store!Next]_<<StorePages, StoreHolds>>
  BY DEF RefinesPageStore, Store!Spec, Store!vars, StorePages, StoreHolds
<1> QED BY <1>1, <1>7, <1>8, PTL DEF Spec
==============================================================================
