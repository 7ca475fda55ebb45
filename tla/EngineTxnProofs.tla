-------------------------- MODULE EngineTxnProofs ---------------------------
(***************************************************************************)
(* Transactions in the log, when one thread at a time calls the managers   *)
(* (~Concurrent, as the shell does) and no page fetch fails (~FetchFails,  *)
(* for abort and undo leave out the CLR of a page they cannot fetch):      *)
(* every record continues its transaction's last one, analysis finds       *)
(* exactly the transactions that have not ended, and no change is          *)
(* compensated twice.                                                      *)
(***************************************************************************)
EXTENDS EngineProofs

-----------------------------------------------------------------------------
(* The log.  Each predicate about the n-th record, or about the first n    *)
(* records, looks at nothing behind it.                                    *)

\* The i-th record is the last one of transaction t among the first n.
LastOf(rs, n, t, i) == i \in 1..n /\ rs[i].txn = t /\ \A j \in (i + 1)..n : rs[j].txn # t

Ended(r) == r.type \in {"COMMIT", "TXN_END"}

\* The table a tracks the first n records: it has the last record of each of
\* its transactions, and every transaction whose last record does not end it.
Tracks(rs, n, a) ==
  /\ a \in TxnMap
  /\ \A t \in DOMAIN a : LastOf(rs, n, t, a[t] + 1)
  /\ \A i \in 1..n : LastOf(rs, n, rs[i].txn, i) /\ rs[i].txn # NoTxn /\ ~Ended(rs[i])
                       => rs[i].txn \in DOMAIN a

\* ... and no other: the losers, if the log ends here.
Exact(rs, n, a) == Tracks(rs, n, a) /\ \A t \in DOMAIN a : ~Ended(rs[a[t] + 1])

\* How far the transaction is undone when its last record is the i-th: the
\* position of the record that an undo of it looks at next.
Frontier(rs, i) == IF rs[i].type \in {"CLR", "ABORT"} THEN UndoNext(rs[i]) + 1 ELSE i

\* The CLR r undoes the UPDATE u.
Undoes(r, u) ==
  /\ u.type = "UPDATE"
  /\ r.undo_next = u.prev
  /\ r.page = u.page /\ r.slot = u.slot /\ r.new = u.old

\* Record r, behind the first m records of rs, continues its transaction.
Continues(rs, m, r) ==
  LET l == r.prev + 1 IN
  /\ r.type = "BEGIN" => \A j \in 1..m : LastOf(rs, m, r.txn, j) => Ended(rs[j])
  /\ r.type \in {"COMMIT", "ABORT", "TXN_END", "UPDATE", "CLR"} => LastOf(rs, m, r.txn, l)
  /\ r.type \in {"UPDATE", "COMMIT", "ABORT"} => rs[l].type \in {"BEGIN", "UPDATE"}
  /\ r.type = "CLR" => rs[l].type \in Live /\ Undoes(r, rs[Frontier(rs, l)])
  /\ r.type = "TXN_END" =>
       \/ rs[l].type = "COMMIT"
       \/ rs[l].type \in Live /\ rs[Frontier(rs, l)].type = "BEGIN"
  /\ r.type = "CHECKPOINT_END" => Exact(rs, m, r.att)

\* Transaction t begins anew among the records i + 1 .. m.
Restarted(rs, t, i, m) == \E b \in (i + 1)..m : rs[b].type = "BEGIN" /\ rs[b].txn = t

\* An undo stays within its transaction, goes back with every CLR, and is not
\* followed by more work of the transaction.
UndoOrder(rs, m, r) ==
  /\ r.type = "CLR" =>
       /\ \A b \in 1..m : rs[b].type = "BEGIN" /\ rs[b].txn = r.txn => b <= r.undo_next + 1
       /\ \A j \in 1..m : rs[j].type = "CLR" /\ rs[j].txn = r.txn
            => Restarted(rs, r.txn, j, m) \/ r.undo_next < rs[j].undo_next
  /\ r.type \in {"UPDATE", "COMMIT", "ABORT"} =>
       \A j \in 1..m : rs[j].type = "CLR" /\ rs[j].txn = r.txn => Restarted(rs, r.txn, j, m)

Linked(rs) == \A i \in 1..Len(rs) : Continues(rs, i - 1, rs[i]) /\ UndoOrder(rs, i - 1, rs[i])

-----------------------------------------------------------------------------
(* The state.                                                              *)

Busy(t) == att[t].state # "GROWING" \/ att[t].op # NoOp

\* One call at a time.
Serial ==
  /\ ckpt.phase # "idle" => \A t \in DOMAIN att : ~Busy(t)
  /\ \A t, u \in DOMAIN att : Busy(t) /\ Busy(u) => t = u

\* att_ tracks the log; an abort in progress is where its records say.
Prevs(a) == [t \in DOMAIN a |-> a[t].prev]

AttExact(rs, a) ==
  /\ Tracks(rs, Len(rs), Prevs(a))
  /\ \A t \in DOMAIN a : a[t].state = "ABORTED" => a[t].undo + 1 = Frontier(rs, a[t].prev + 1)

\* undo follows every loser's records, and stands at the last one or where its
\* undo goes on.
UndoExact(rs, rc) ==
  /\ \A t \in DOMAIN rc.att : \E u \in rc.to_undo : rs[u + 1].txn = t
  /\ \A u \in rc.to_undo :
       LET l == rc.att[rs[u + 1].txn] + 1 IN u + 1 \in {l, Frontier(rs, l)}

TxnInv ==
  LET rs == Records(log) IN
  /\ Linked(rs)
  /\ Serial
  /\ mode = "up" => AttExact(rs, att)
  /\ mode = "up" /\ ckpt.phase \in {"dpt", "end"} => Exact(rs, Len(rs), ckpt.att)
  /\ mode \in {"redo", "undo"} => Exact(rs, Len(rs), rec.att)
  /\ mode = "undo" => UndoExact(rs, rec)

-----------------------------------------------------------------------------
(* Facts about logs.                                                       *)

LEMMA LastUnique ==
  ASSUME NEW rs \in Seq(RecordSet), NEW n \in Nat, NEW t, NEW i, NEW j,
         LastOf(rs, n, t, i), LastOf(rs, n, t, j)
  PROVE  i = j
BY DEF LastOf

\* A transaction with a record has a last one.
LEMMA LastExists ==
  ASSUME NEW rs \in Seq(RecordSet), NEW n \in Nat, NEW i \in 1..n
  PROVE  \E j \in i..n : LastOf(rs, n, rs[i].txn, j)
<1> DEFINE S == {j \in i..n : rs[j].txn = rs[i].txn}
<1>1. S \in SUBSET Int /\ i \in S /\ \A x \in S : x <= n
  OBVIOUS
<1>2. Max(S) \in S /\ \A x \in S : x <= Max(S)
  <2>1. n \in Int
    OBVIOUS
  <2> HIDE DEF S
  <2>2. S # {}
    BY <1>1
  <2> QED BY <1>1, <2>1, <2>2, MaxOf
<1>3. Max(S) \in i..n /\ rs[Max(S)].txn = rs[i].txn
  BY <1>2
<1>4. ASSUME NEW k \in (Max(S) + 1)..n
      PROVE  rs[k].txn # rs[i].txn
  <2>1. Max(S) \in Int /\ i <= Max(S) /\ k \in i..n /\ ~(k <= Max(S))
    <3> HIDE DEF S
    <3> QED BY <1>3
  <2>2. k \notin S
    BY <1>2, <2>1
  <2> QED BY <2>1, <2>2
<1> HIDE DEF S
<1>5. LastOf(rs, n, rs[i].txn, Max(S))
  BY <1>3, <1>4 DEF LastOf
<1> QED BY <1>3, <1>5

LEMMA LastAgrees ==
  ASSUME NEW rs \in Seq(RecordSet), NEW qs \in Seq(RecordSet), NEW n \in Nat, Agree(rs, qs, n),
         NEW m \in 0..n, NEW t, NEW i
  PROVE  LastOf(rs, m, t, i) <=> LastOf(qs, m, t, i)
<1>1. \A j \in 1..m : qs[j] = rs[j]
  BY DEF Agree
<1>2. i \in 1..m => \A j \in (i + 1)..m : j \in 1..m
  OBVIOUS
<1> QED BY <1>1, <1>2 DEF LastOf

LEMMA TracksAgrees ==
  ASSUME NEW rs \in Seq(RecordSet), NEW qs \in Seq(RecordSet), NEW n \in Nat, Agree(rs, qs, n),
         NEW m \in 0..n, NEW a, Tracks(rs, m, a)
  PROVE  /\ Tracks(qs, m, a)
         /\ \A t \in DOMAIN a : qs[a[t] + 1] = rs[a[t] + 1]
<1>1. \A j \in 1..m : qs[j] = rs[j]
  BY DEF Agree
<1>2. \A t, i : LastOf(rs, m, t, i) <=> LastOf(qs, m, t, i)
  BY LastAgrees
<1>3. \A t \in DOMAIN a : qs[a[t] + 1] = rs[a[t] + 1]
  BY <1>1 DEF Tracks, LastOf
<1> QED BY <1>1, <1>2, <1>3 DEF Tracks

LEMMA ExactAgrees ==
  ASSUME NEW rs \in Seq(RecordSet), NEW qs \in Seq(RecordSet), NEW n \in Nat, Agree(rs, qs, n),
         NEW m \in 0..n, NEW a, Exact(rs, m, a)
  PROVE  Exact(qs, m, a)
BY TracksAgrees DEF Exact

\* Where an undo looks next: a change or the BEGIN of the same transaction.
LEMMA FrontierRange ==
  ASSUME NEW rs \in Seq(RecordSet), Chained(rs), NEW i \in 1..Len(rs), rs[i].type \in Live
  PROVE  /\ Frontier(rs, i) \in 1..i
         /\ rs[Frontier(rs, i)].txn = rs[i].txn
         /\ rs[i].type \in {"CLR", "ABORT"} => Frontier(rs, i) \in 1..(i - 1)
<1>1. Chain(rs, i)
  BY DEF Chained
<1>2. CASE rs[i].type \in {"BEGIN", "UPDATE"}
  <2>1. Frontier(rs, i) = i
    BY <1>2 DEF Frontier
  <2> QED BY <1>2, <2>1
<1>3. CASE rs[i].type \in {"CLR", "ABORT"}
  <2>1. UndoNext(rs[i]) \in 0..(i - 2) /\ rs[UndoNext(rs[i]) + 1].txn = rs[i].txn
    BY <1>1, <1>3 DEF Chain, UndoNext
  <2>2. Frontier(rs, i) = UndoNext(rs[i]) + 1
    BY <1>3 DEF Frontier
  <2>3. Frontier(rs, i) \in 1..(i - 1)
    BY <2>1, <2>2
  <2> QED BY <2>1, <2>2, <2>3
<1> QED BY <1>2, <1>3 DEF Live

LEMMA FrontierAgrees ==
  ASSUME NEW rs \in Seq(RecordSet), NEW qs \in Seq(RecordSet), NEW n \in Nat, Agree(rs, qs, n),
         Chained(rs), NEW i \in 1..n
  PROVE  /\ Frontier(qs, i) = Frontier(rs, i)
         /\ rs[i].type \in Live => qs[Frontier(qs, i)] = rs[Frontier(rs, i)]
<1>1. Len(rs) \in Nat /\ i \in 1..Len(rs) /\ \A j \in 1..n : qs[j] = rs[j]
  BY DEF Agree
<1>2. Frontier(qs, i) = Frontier(rs, i)
  BY <1>1 DEF Frontier
<1>3. rs[i].type \in Live => Frontier(rs, i) \in 1..i
  BY <1>1, FrontierRange
<1>4. rs[i].type \in Live => Frontier(rs, i) \in 1..n
  BY <1>3
<1> QED BY <1>1, <1>2, <1>4

\* What a record says about its transaction depends on the records before it.
LEMMA ContinuesAgrees ==
  ASSUME NEW rs \in Seq(RecordSet), NEW qs \in Seq(RecordSet), NEW n \in Nat, Agree(rs, qs, n),
         Chained(rs), NEW m \in 0..n, NEW r, Continues(rs, m, r)
  PROVE  Continues(qs, m, r)
<1> DEFINE l == r.prev + 1
<1>1. \A j \in 1..m : qs[j] = rs[j]
  BY DEF Agree
<1>2. \A t, i : LastOf(rs, m, t, i) <=> LastOf(qs, m, t, i)
  BY LastAgrees
<1>3. r.type = "BEGIN" => \A j \in 1..m : LastOf(qs, m, r.txn, j) => Ended(qs[j])
  BY <1>1, <1>2 DEF Continues
<1>4. r.type \in {"COMMIT", "ABORT", "TXN_END", "UPDATE", "CLR"}
        => LastOf(qs, m, r.txn, l) /\ l \in 1..m
  <2>1. r.type \in {"COMMIT", "ABORT", "TXN_END", "UPDATE", "CLR"} => LastOf(rs, m, r.txn, l)
    BY DEF Continues
  <2>2. LastOf(rs, m, r.txn, l) => l \in 1..m
    BY DEF LastOf
  <2> QED BY <1>2, <2>1, <2>2
<1>5. l \in 1..m => /\ l \in 1..n /\ qs[l] = rs[l]
  BY <1>1
<1>6. l \in 1..m /\ rs[l].type \in Live => qs[Frontier(qs, l)] = rs[Frontier(rs, l)]
  BY <1>5, FrontierAgrees
<1>7. r.type = "CHECKPOINT_END" => Exact(qs, m, r.att)
  BY ExactAgrees DEF Continues
<1> HIDE DEF l
<1>8. r.type \in {"UPDATE", "COMMIT", "ABORT"} => qs[l].type \in {"BEGIN", "UPDATE"}
  BY <1>4, <1>5 DEF Continues, l
<1>9. r.type = "CLR" => qs[l].type \in Live /\ Undoes(r, qs[Frontier(qs, l)])
  BY <1>4, <1>5, <1>6 DEF Continues, l
<1>10. r.type = "TXN_END" =>
          \/ qs[l].type = "COMMIT"
          \/ qs[l].type \in Live /\ qs[Frontier(qs, l)].type = "BEGIN"
  BY <1>4, <1>5, <1>6 DEF Continues, l
<1> QED BY <1>3, <1>4, <1>7, <1>8, <1>9, <1>10 DEF Continues, l

LEMMA UndoOrderAgrees ==
  ASSUME NEW rs \in Seq(RecordSet), NEW qs \in Seq(RecordSet), NEW n \in Nat, Agree(rs, qs, n),
         NEW m \in 0..n, NEW r, UndoOrder(rs, m, r)
  PROVE  UndoOrder(qs, m, r)
<1>1. \A j \in 1..m : qs[j] = rs[j]
  BY DEF Agree
<1>2. \A t, i : i \in 1..m => (Restarted(rs, t, i, m) <=> Restarted(qs, t, i, m))
  <2>1. \A i \in 1..m : \A b \in (i + 1)..m : b \in 1..m
    OBVIOUS
  <2> QED BY <1>1, <2>1 DEF Restarted
<1> QED BY <1>1, <1>2 DEF UndoOrder

LEMMA LinkedCut ==
  ASSUME NEW rs \in Seq(RecordSet), NEW qs \in Seq(RecordSet), Agree(rs, qs, Len(qs)),
         Chained(rs), Linked(rs)
  PROVE  Linked(qs)
<1>1. Len(qs) \in Nat /\ Len(rs) \in Nat /\ Len(qs) <= Len(rs)
  BY DEF Agree
<1>2. ASSUME NEW i \in 1..Len(qs)
      PROVE  Continues(qs, i - 1, qs[i]) /\ UndoOrder(qs, i - 1, qs[i])
  <2>1. i \in 1..Len(rs) /\ qs[i] = rs[i] /\ i - 1 \in 0..Len(qs)
    BY <1>1 DEF Agree
  <2>2. Continues(rs, i - 1, rs[i]) /\ UndoOrder(rs, i - 1, rs[i])
    BY <2>1 DEF Linked
  <2> QED BY <1>1, <2>1, <2>2, ContinuesAgrees, UndoOrderAgrees
<1> QED BY <1>2 DEF Linked

LEMMA LinkedGrown ==
  ASSUME NEW rs \in Seq(RecordSet), NEW qs \in Seq(RecordSet), NEW r, Grown(rs, qs, r),
         Chained(rs), Linked(rs), Continues(rs, Len(rs), r), UndoOrder(rs, Len(rs), r)
  PROVE  Linked(qs)
<1>1. Len(rs) \in Nat /\ Len(qs) = Len(rs) + 1 /\ Agree(rs, qs, Len(rs)) /\ qs[Len(rs) + 1] = r
  BY DEF Grown
<1>2. ASSUME NEW i \in 1..Len(qs)
      PROVE  Continues(qs, i - 1, qs[i]) /\ UndoOrder(qs, i - 1, qs[i])
  <2>1. CASE i = Len(rs) + 1
    <3>1. i - 1 = Len(rs) /\ i - 1 \in 0..Len(rs) /\ qs[i] = r
      BY <1>1, <2>1
    <3> QED BY <1>1, <3>1, ContinuesAgrees, UndoOrderAgrees
  <2>2. CASE i \in 1..Len(rs)
    <3>1. qs[i] = rs[i] /\ i - 1 \in 0..Len(rs)
      BY <1>1, <2>2 DEF Agree
    <3>2. Continues(rs, i - 1, rs[i]) /\ UndoOrder(rs, i - 1, rs[i])
      BY <2>2 DEF Linked
    <3> QED BY <1>1, <3>1, <3>2, ContinuesAgrees, UndoOrderAgrees
  <2> QED BY <1>1, <2>1, <2>2
<1> QED BY <1>2 DEF Linked

\* The record an undo looks at next is an UPDATE or the BEGIN.
LEMMA FrontierType ==
  ASSUME NEW rs \in Seq(RecordSet), Chained(rs), Linked(rs), NEW i \in 1..Len(rs), rs[i].type \in Live
  PROVE  rs[Frontier(rs, i)].type \in {"BEGIN", "UPDATE"}
<1>1. Chain(rs, i) /\ Continues(rs, i - 1, rs[i]) /\ Len(rs) \in Nat
  BY DEF Chained, Linked
<1>2. CASE rs[i].type \in {"BEGIN", "UPDATE"}
  BY <1>2 DEF Frontier
<1>3. CASE rs[i].type = "ABORT"
  <2>1. Frontier(rs, i) = rs[i].prev + 1
    BY <1>3 DEF Frontier, UndoNext
  <2> QED BY <1>1, <1>3, <2>1 DEF Continues
<1>4. CASE rs[i].type = "CLR"
  <2> DEFINE l == rs[i].prev + 1
             g == Frontier(rs, l)
  <2>1. rs[i].prev \in 0..(i - 2)
    BY <1>1, <1>4 DEF Chain
  <2>2. l \in 1..Len(rs)
    BY <1>1, <2>1
  <2>3. rs[l].type \in Live /\ rs[g].type = "UPDATE" /\ rs[i].undo_next = rs[g].prev
    BY <1>1, <1>4 DEF Continues, Undoes
  <2> HIDE DEF l
  <2>4. g \in 1..l
    BY <2>2, <2>3, FrontierRange
  <2>5. g \in 1..Len(rs)
    BY <2>2, <2>4
  <2>6. Continues(rs, g - 1, rs[g])
    BY <2>5 DEF Linked
  <2> HIDE DEF g
  <2>7. rs[rs[g].prev + 1].type \in {"BEGIN", "UPDATE"}
    BY <2>3, <2>6 DEF Continues
  <2>8. Frontier(rs, i) = rs[i].undo_next + 1
    BY <1>4 DEF Frontier, UndoNext
  <2> QED BY <2>3, <2>7, <2>8
<1> QED BY <1>2, <1>3, <1>4 DEF Live

\* The frontier of a live record is not in front of a BEGIN of its transaction.
LEMMA FrontierAfterBegin ==
  ASSUME NEW rs \in Seq(RecordSet), Chained(rs), Linked(rs), NEW i \in 1..Len(rs), rs[i].type \in Live,
         NEW b \in 1..i, rs[b].type = "BEGIN", rs[b].txn = rs[i].txn
  PROVE  b <= Frontier(rs, i)
<1>1. Chain(rs, i) /\ Continues(rs, i - 1, rs[i]) /\ UndoOrder(rs, i - 1, rs[i]) /\ Len(rs) \in Nat
  BY DEF Chained, Linked
<1>2. CASE rs[i].type \in {"BEGIN", "UPDATE"}
  BY <1>2 DEF Frontier
<1>3. b # i => b \in 1..(i - 1)
  OBVIOUS
<1>4. CASE rs[i].type = "ABORT"
  <2>1. Frontier(rs, i) = rs[i].prev + 1 /\ b \in 1..(i - 1)
    BY <1>3, <1>4 DEF Frontier, UndoNext
  <2>2. LastOf(rs, i - 1, rs[i].txn, rs[i].prev + 1)
    BY <1>1, <1>4 DEF Continues
  <2> QED BY <2>1, <2>2 DEF LastOf
<1>5. CASE rs[i].type = "CLR"
  <2>1. Frontier(rs, i) = rs[i].undo_next + 1 /\ b \in 1..(i - 1)
    BY <1>3, <1>5 DEF Frontier, UndoNext
  <2> QED BY <1>1, <1>5, <2>1 DEF UndoOrder
<1> QED BY <1>2, <1>4, <1>5 DEF Live

\* A record that continues its transaction keeps the order of the undo.
LEMMA OrderFollows ==
  ASSUME NEW rs \in Seq(RecordSet), Chained(rs), Linked(rs), NEW r \in RecordSet,
         Continues(rs, Len(rs), r)
  PROVE  UndoOrder(rs, Len(rs), r)
<1> DEFINE n == Len(rs)
           l == r.prev + 1
           t == r.txn
<1>0. n \in Nat
  OBVIOUS
<1>1. CASE r.type = "CLR"
  <2> DEFINE f == Frontier(rs, l)
  <2>1. LastOf(rs, n, t, l) /\ rs[l].type \in Live /\ rs[f].type = "UPDATE" /\ r.undo_next = rs[f].prev
    BY <1>1 DEF Continues, Undoes
  <2>2. l \in 1..n /\ rs[l].txn = t /\ \A j \in (l + 1)..n : rs[j].txn # t
    BY <2>1 DEF LastOf
  <2> HIDE DEF l, n
  <2>3. f \in 1..l /\ rs[f].txn = t /\ (rs[l].type \in {"CLR", "ABORT"} => f \in 1..(l - 1))
    BY <2>1, <2>2, FrontierRange DEF n
  <2>4. f \in 1..Len(rs)
    BY <2>2, <2>3 DEF n
  <2>5. Chain(rs, f) /\ Continues(rs, f - 1, rs[f])
    BY <2>4 DEF Chained, Linked
  <2> HIDE DEF f
  <2>6. rs[f].prev \in 0..(f - 2) /\ LastOf(rs, f - 1, t, rs[f].prev + 1)
    BY <2>1, <2>3, <2>5 DEF Chain, Continues
  <2>7. \A b \in 1..n : rs[b].txn = t => b <= l
    BY <1>0, <2>2
  <2>8. ASSUME NEW b \in 1..n, rs[b].type = "BEGIN", rs[b].txn = t
        PROVE  b <= r.undo_next + 1
    <3>1. b \in 1..l
      BY <2>2, <2>7, <2>8
    <3>2. b <= f
      BY <2>1, <2>2, <2>8, <3>1, FrontierAfterBegin DEF f, n
    <3>3. b \in 1..(f - 1)
      BY <2>1, <2>4, <2>8, <3>1, <3>2
    <3>4. b <= rs[f].prev + 1
      BY <2>6, <2>8, <3>3 DEF LastOf
    <3> QED BY <2>1, <3>4
  <2>9. ASSUME NEW j \in 1..n, rs[j].type = "CLR", rs[j].txn = t, ~Restarted(rs, t, j, n)
        PROVE  r.undo_next < rs[j].undo_next
    <3>1. j <= l /\ j \in Int /\ l \in Int
      BY <2>2, <2>7, <2>9
    <3>2. rs[j] \in RecordSet /\ rs[j].undo_next \in 0..(j - 2)
      <4>1. j \in 1..Len(rs)
        BY DEF n
      <4>2. Chain(rs, j)
        BY <4>1 DEF Chained
      <4> QED BY <2>9, <4>1, <4>2 DEF Chain
    <3>3. CASE j = l
      <4>1. f = rs[j].undo_next + 1
        BY <2>9, <3>3 DEF f, Frontier, UndoNext
      <4> QED BY <2>1, <2>6, <3>2, <4>1
    <3>4. CASE j < l
      <4>1. j \in 1..(l - 1) /\ l \in 1..Len(rs)
        BY <2>2, <3>1, <3>4 DEF n
      <4>2. UndoOrder(rs, l - 1, rs[l])
        BY <4>1 DEF Linked
      <4>3. ~Restarted(rs, t, j, l - 1) /\ rs[l].type # "BEGIN"
        <5>1. \A b \in (j + 1)..(l - 1) : b \in (j + 1)..n
          BY <1>0, <2>2
        <5>2. l \in (j + 1)..n
          BY <1>0, <2>2, <3>1, <3>4
        <5> QED BY <2>2, <2>9, <5>1, <5>2 DEF Restarted
      <4>4. rs[l].type \notin {"UPDATE", "ABORT"}
        BY <2>2, <2>9, <4>1, <4>2, <4>3 DEF UndoOrder
      <4>5. rs[l].type = "CLR"
        BY <2>1, <4>3, <4>4 DEF Live
      <4>6. rs[l].undo_next < rs[j].undo_next
        BY <2>2, <2>9, <4>1, <4>2, <4>3, <4>5 DEF UndoOrder
      <4>7. f = rs[l].undo_next + 1 /\ rs[l].undo_next \in Int
        <5>1. Chain(rs, l)
          BY <4>1 DEF Chained
        <5>2. rs[l].undo_next \in 0..(l - 2)
          BY <4>5, <5>1 DEF Chain
        <5> QED BY <4>5, <5>2 DEF f, Frontier, UndoNext
      <4>8. f \in Int /\ r.undo_next \in Int /\ r.undo_next <= f - 2
        BY <2>1, <2>4, <2>6
      <4>9. rs[j].undo_next \in Int
        BY <3>2
      <4> QED BY <4>6, <4>7, <4>8, <4>9
    <3> QED BY <3>1, <3>3, <3>4
  <2> QED BY <1>1, <2>8, <2>9 DEF UndoOrder, n
<1>2. CASE r.type \in {"UPDATE", "COMMIT", "ABORT"}
  <2>1. LastOf(rs, n, t, l) /\ rs[l].type \in {"BEGIN", "UPDATE"}
    BY <1>2 DEF Continues
  <2>2. l \in 1..n /\ rs[l].txn = t /\ \A j \in (l + 1)..n : rs[j].txn # t
    BY <2>1 DEF LastOf
  <2> HIDE DEF l, n
  <2>3. ASSUME NEW j \in 1..n, rs[j].type = "CLR", rs[j].txn = t
        PROVE  Restarted(rs, t, j, n)
    <3>1. j \in 1..(l - 1)
      <4>1. j <= l
        BY <1>0, <2>2, <2>3
      <4>2. j # l
        BY <2>1, <2>3
      <4> QED BY <2>2, <4>1, <4>2
    <3>2. CASE rs[l].type = "BEGIN"
      <4>1. l \in (j + 1)..n
        BY <1>0, <2>2, <3>1
      <4> QED BY <2>2, <3>2, <4>1 DEF Restarted
    <3>3. CASE rs[l].type = "UPDATE"
      <4>1. UndoOrder(rs, l - 1, rs[l])
        BY <2>2 DEF Linked, n
      <4>2. Restarted(rs, t, j, l - 1)
        BY <2>2, <2>3, <3>1, <3>3, <4>1 DEF UndoOrder
      <4>3. \A b \in (j + 1)..(l - 1) : b \in (j + 1)..n
        BY <1>0, <2>2
      <4> QED BY <4>2, <4>3 DEF Restarted
    <3> QED BY <2>1, <3>2, <3>3
  <2> QED BY <1>2, <2>3 DEF UndoOrder, n
<1>3. CASE r.type \notin {"CLR", "UPDATE", "COMMIT", "ABORT"}
  BY <1>3 DEF UndoOrder
<1> QED BY <1>1, <1>2, <1>3

-----------------------------------------------------------------------------
(* Tables and the next record.                                             *)

LEMMA LastStep ==
  ASSUME NEW rs \in Seq(RecordSet), NEW m \in 1..Len(rs), NEW t, NEW i
  PROVE  LastOf(rs, m, t, i) <=>
           \/ i = m /\ rs[m].txn = t
           \/ rs[m].txn # t /\ LastOf(rs, m - 1, t, i)
<1>1. CASE i = m
  BY <1>1 DEF LastOf
<1>2. CASE i \in 1..(m - 1)
  <2>1. \A j \in (i + 1)..m : j = m \/ j \in (i + 1)..(m - 1)
    OBVIOUS
  <2>2. m \in (i + 1)..m /\ \A j \in (i + 1)..(m - 1) : j \in (i + 1)..m
    BY <1>2
  <2>3. i \in 1..m
    BY <1>2
  <2> QED BY <1>2, <2>1, <2>2, <2>3 DEF LastOf
<1>3. CASE i \notin 1..m
  <2>1. i \notin 1..(m - 1) /\ i # m
    BY <1>3
  <2> QED BY <1>3, <2>1 DEF LastOf
<1>4. i \in 1..m => i = m \/ i \in 1..(m - 1)
  OBVIOUS
<1> QED BY <1>1, <1>2, <1>3, <1>4

\* A record of no transaction.
LEMMA TracksSkip ==
  ASSUME NEW rs \in Seq(RecordSet), NEW m \in 1..Len(rs), rs[m].txn = NoTxn,
         NEW a, Tracks(rs, m - 1, a)
  PROVE  Tracks(rs, m, a)
<1>1. \A t, i : LastOf(rs, m, t, i) <=>
           \/ i = m /\ rs[m].txn = t
           \/ rs[m].txn # t /\ LastOf(rs, m - 1, t, i)
  BY LastStep
<1>2. a \in TxnMap /\ \A t \in DOMAIN a : t # NoTxn
  BY MapFacts, EngineAssumption DEF Tracks, TxnMap
<1>3. \A t \in DOMAIN a : LastOf(rs, m, t, a[t] + 1)
  BY <1>1, <1>2 DEF Tracks
<1>4. ASSUME NEW i \in 1..m, LastOf(rs, m, rs[i].txn, i), rs[i].txn # NoTxn, ~Ended(rs[i])
      PROVE  rs[i].txn \in DOMAIN a
  <2>1. LastOf(rs, m - 1, rs[i].txn, i)
    BY <1>1, <1>4
  <2>2. i \in 1..(m - 1)
    BY <2>1 DEF LastOf
  <2> QED BY <1>4, <2>1, <2>2 DEF Tracks
<1> QED BY <1>2, <1>3, <1>4 DEF Tracks

\* A record of the transaction t, which enters the table with it.
LEMMA TracksEnter ==
  ASSUME NEW rs \in Seq(RecordSet), NEW m \in 1..Len(rs), NEW a, Tracks(rs, m - 1, a),
         NEW b \in TxnMap, DOMAIN b = DOMAIN a \cup {rs[m].txn}, b[rs[m].txn] = m - 1,
         \A u \in DOMAIN a : u # rs[m].txn => b[u] = a[u]
  PROVE  Tracks(rs, m, b)
<1>1. \A t, i : LastOf(rs, m, t, i) <=>
           \/ i = m /\ rs[m].txn = t
           \/ rs[m].txn # t /\ LastOf(rs, m - 1, t, i)
  BY LastStep
<1>2. m - 1 + 1 = m
  OBVIOUS
<1>3. \A t \in DOMAIN b : LastOf(rs, m, t, b[t] + 1)
  BY <1>1, <1>2 DEF Tracks
<1>4. ASSUME NEW i \in 1..m, LastOf(rs, m, rs[i].txn, i), rs[i].txn # NoTxn, ~Ended(rs[i])
      PROVE  rs[i].txn \in DOMAIN b
  <2>1. CASE rs[i].txn = rs[m].txn
    BY <2>1
  <2>2. CASE rs[i].txn # rs[m].txn
    <3>1. LastOf(rs, m - 1, rs[i].txn, i)
      BY <1>1, <1>4, <2>2
    <3>2. i \in 1..(m - 1)
      BY <3>1 DEF LastOf
    <3> QED BY <1>4, <3>1, <3>2 DEF Tracks
  <2> QED BY <2>1, <2>2
<1> QED BY <1>3, <1>4 DEF Tracks

\* A record that ends the transaction, which leaves the table.
LEMMA TracksLeave ==
  ASSUME NEW rs \in Seq(RecordSet), NEW m \in 1..Len(rs), NEW a, Tracks(rs, m - 1, a), Ended(rs[m]),
         NEW b \in TxnMap, DOMAIN b = DOMAIN a \ {rs[m].txn},
         \A u \in DOMAIN a : u # rs[m].txn => b[u] = a[u]
  PROVE  Tracks(rs, m, b)
<1>1. \A t, i : LastOf(rs, m, t, i) <=>
           \/ i = m /\ rs[m].txn = t
           \/ rs[m].txn # t /\ LastOf(rs, m - 1, t, i)
  BY LastStep
<1>3. \A t \in DOMAIN b : LastOf(rs, m, t, b[t] + 1)
  BY <1>1 DEF Tracks
<1>4. ASSUME NEW i \in 1..m, LastOf(rs, m, rs[i].txn, i), rs[i].txn # NoTxn, ~Ended(rs[i])
      PROVE  rs[i].txn \in DOMAIN b
  <2>1. rs[i].txn # rs[m].txn
    BY <1>1, <1>4
  <2>2. LastOf(rs, m - 1, rs[i].txn, i)
    BY <1>1, <1>4, <2>1
  <2>3. i \in 1..(m - 1)
    BY <2>2 DEF LastOf
  <2> QED BY <1>4, <2>1, <2>2, <2>3 DEF Tracks
<1> QED BY <1>3, <1>4 DEF Tracks

LEMMA ExactSkip ==
  ASSUME NEW rs \in Seq(RecordSet), NEW m \in 1..Len(rs), rs[m].txn = NoTxn,
         NEW a, Exact(rs, m - 1, a)
  PROVE  Exact(rs, m, a)
BY TracksSkip DEF Exact

LEMMA ExactEnter ==
  ASSUME NEW rs \in Seq(RecordSet), NEW m \in 1..Len(rs), NEW a, Exact(rs, m - 1, a), ~Ended(rs[m]),
         NEW b \in TxnMap, DOMAIN b = DOMAIN a \cup {rs[m].txn}, b[rs[m].txn] = m - 1,
         \A u \in DOMAIN a : u # rs[m].txn => b[u] = a[u]
  PROVE  Exact(rs, m, b)
<1>1. Tracks(rs, m, b)
  BY TracksEnter DEF Exact
<1>2. m - 1 + 1 = m
  OBVIOUS
<1> QED BY <1>1, <1>2 DEF Exact

LEMMA ExactLeave ==
  ASSUME NEW rs \in Seq(RecordSet), NEW m \in 1..Len(rs), NEW a, Exact(rs, m - 1, a), Ended(rs[m]),
         NEW b \in TxnMap, DOMAIN b = DOMAIN a \ {rs[m].txn},
         \A u \in DOMAIN a : u # rs[m].txn => b[u] = a[u]
  PROVE  Exact(rs, m, b)
<1>1. Tracks(rs, m, b)
  BY TracksLeave DEF Exact
<1> QED BY <1>1 DEF Exact

\* The losers are determined by the log.
LEMMA ExactUnique ==
  ASSUME NEW rs \in Seq(RecordSet), NEW n \in Nat, NEW a, NEW b, Exact(rs, n, a), Exact(rs, n, b)
  PROVE  a = b
<1>1. a \in [DOMAIN a -> Nat] /\ b \in [DOMAIN b -> Nat] /\ DOMAIN a \in SUBSET Nat /\ DOMAIN b \in SUBSET Nat
  BY MapFacts DEF Exact, Tracks, TxnMap
<1>2. \A c, d, t : Exact(rs, n, c) /\ Exact(rs, n, d) /\ t \in DOMAIN c /\ t \in Nat => t \in DOMAIN d
  <2> SUFFICES ASSUME NEW c, NEW d, NEW t, Exact(rs, n, c), Exact(rs, n, d), t \in DOMAIN c, t \in Nat
               PROVE  t \in DOMAIN d
    OBVIOUS
  <2> DEFINE i == c[t] + 1
  <2>1. LastOf(rs, n, t, i) /\ ~Ended(rs[i])
    BY DEF Exact, Tracks
  <2>2. i \in 1..n /\ rs[i].txn = t /\ t # NoTxn
    BY <2>1, EngineAssumption DEF LastOf
  <2> QED BY <2>1, <2>2 DEF Exact, Tracks
<1>3. DOMAIN a = DOMAIN b
  BY <1>1, <1>2
<1>4. ASSUME NEW t \in DOMAIN a
      PROVE  a[t] = b[t]
  <2>1. LastOf(rs, n, t, a[t] + 1) /\ LastOf(rs, n, t, b[t] + 1)
    BY <1>3 DEF Exact, Tracks
  <2>2. a[t] + 1 = b[t] + 1
    BY <2>1, LastUnique
  <2> QED BY <1>1, <1>3, <2>2
<1> QED BY <1>1, <1>3, <1>4

\* analyze's scan carries an exact table to the end of the log.
LEMMA ScanExact ==
  ASSUME NEW rs \in Seq(RecordSet), NEW from \in 0..Len(rs), NEW seed, Exact(rs, from, seed)
  PROVE  Exact(rs, Len(rs), ScanAtt(rs, from, seed))
<1> DEFINE a == ScanAtt(rs, from, seed)
           of(t) == Scanned(rs, from, t)
           n == Len(rs)
<1>0. seed \in TxnMap /\ n \in Nat
  BY DEF Exact, Tracks
<1>a. a \in TxnMap
  BY <1>0, ScanAttFacts
<1>b. ASSUME NEW t, of(t) # {}
      PROVE  /\ Max(of(t)) \in of(t) /\ \A i \in of(t) : i <= Max(of(t))
             /\ t \in DOMAIN a <=> rs[Max(of(t))].type \notin {"COMMIT", "TXN_END"}
             /\ t \in DOMAIN a => a[t] = Max(of(t)) - 1
  BY <1>0, <1>b, ScanAttFacts
<1>c. ASSUME NEW t, of(t) = {}
      PROVE  /\ t \in DOMAIN a <=> t \in DOMAIN seed
             /\ t \in DOMAIN a => a[t] = seed[t]
  BY <1>0, <1>c, ScanAttFacts
<1> HIDE DEF a
<1>d. \A t : of(t) = {i \in (from + 1)..Len(rs) : rs[i].txn # NoTxn /\ rs[i].txn = t}
  BY DEF Scanned
<1> HIDE DEF of
<1>2. ASSUME NEW t \in Nat, of(t) # {}
      PROVE  LastOf(rs, n, t, Max(of(t)))
  <2> DEFINE m == Max(of(t))
  <2>1. m \in of(t) /\ \A i \in of(t) : i <= m
    BY <1>a, <1>b, <1>c, <1>2
  <2>2. m \in (from + 1)..n /\ rs[m].txn = t
    BY <1>d, <2>1
  <2>3. ASSUME NEW j \in (m + 1)..n
        PROVE  rs[j].txn # t
    <3>1. j \in (from + 1)..n /\ ~(j <= m)
      BY <2>2
    <3>2. j \notin of(t)
      BY <2>1, <3>1
    <3> QED BY <1>d, <3>1, <3>2, EngineAssumption
  <2>4. m \in 1..n
    BY <2>2
  <2> QED BY <2>2, <2>3, <2>4 DEF LastOf
<1>3. ASSUME NEW t \in Nat, of(t) = {}, NEW i
      PROVE  LastOf(rs, n, t, i) <=> LastOf(rs, from, t, i)
  <2>1. \A j \in (from + 1)..n : rs[j].txn # t
    BY <1>3, <1>d, EngineAssumption
  <2>2. \A j \in 1..n : j \in 1..from \/ j \in (from + 1)..n
    OBVIOUS
  <2>3. \A j \in (i + 1)..n : i \in 1..from => j \in (i + 1)..from \/ j \in (from + 1)..n
    OBVIOUS
  <2>4. i \in 1..from => i \in 1..n /\ \A j \in (i + 1)..from : j \in (i + 1)..n
    OBVIOUS
  <2> QED BY <2>1, <2>2, <2>3, <2>4 DEF LastOf
<1>4. ASSUME NEW t \in DOMAIN a
      PROVE  LastOf(rs, n, t, a[t] + 1) /\ ~Ended(rs[a[t] + 1])
  <2>0. t \in Nat /\ a[t] \in Nat
    BY <1>a, <1>b, <1>c, MapFacts DEF TxnMap
  <2>1. CASE of(t) # {}
    <3>1. a[t] + 1 = Max(of(t))
      <4>1. a[t] = Max(of(t)) - 1 /\ Max(of(t)) \in of(t)
        BY <1>a, <1>b, <1>c, <2>1
      <4>2. Max(of(t)) \in Int
        BY <1>d, <4>1
      <4> QED BY <4>1, <4>2
    <3> QED BY <1>a, <1>b, <1>c, <1>2, <2>0, <2>1, <3>1 DEF Ended
  <2>2. CASE of(t) = {}
    <3>1. t \in DOMAIN seed /\ a[t] = seed[t]
      BY <1>a, <1>b, <1>c, <2>2
    <3> QED BY <1>3, <2>0, <2>2, <3>1 DEF Exact, Tracks
  <2> QED BY <2>1, <2>2
<1>5. ASSUME NEW i \in 1..n, LastOf(rs, n, rs[i].txn, i), rs[i].txn # NoTxn, ~Ended(rs[i])
      PROVE  rs[i].txn \in DOMAIN a
  <2> DEFINE t == rs[i].txn
  <2>0. t \in Nat
    BY <1>5, RecordFacts
  <2>1. CASE of(t) # {}
    <3>1. i = Max(of(t))
      BY <1>0, <1>2, <1>5, <2>0, <2>1, LastUnique
    <3> QED BY <1>a, <1>b, <1>c, <1>5, <2>1, <3>1 DEF Ended
  <2>2. CASE of(t) = {}
    <3>1. LastOf(rs, from, t, i)
      BY <1>3, <1>5, <2>0, <2>2
    <3>2. i \in 1..from
      BY <3>1 DEF LastOf
    <3>3. t \in DOMAIN seed
      BY <1>5, <3>1, <3>2 DEF Exact, Tracks
    <3> QED BY <1>a, <1>b, <1>c, <2>2, <3>3
  <2> QED BY <2>1, <2>2
<1> QED BY <1>a, <1>b, <1>c, <1>4, <1>5 DEF Exact, Tracks, a

-----------------------------------------------------------------------------
(* What each step does to the log and to att_, in the terms of the proofs. *)

\* The step appends r to the log.
Adds(r) ==
  /\ r \in RecordSet
  /\ Records(log') \in Seq(RecordSet)
  /\ Grown(Records(log), Records(log'), r)

\* The step leaves t with these fields in att_, or takes t out.
Sets(t, prev, state, undo, op) ==
  /\ DOMAIN att' = DOMAIN att \cup {t}
  /\ att'[t].prev = prev /\ att'[t].state = state /\ att'[t].undo = undo /\ att'[t].op = op
  /\ \A u \in DOMAIN att : u # t => att'[u] = att[u]

Drops(t) ==
  /\ DOMAIN att' = DOMAIN att \ {t}
  /\ \A u \in DOMAIN att : u # t => att'[u] = att[u]

\* No call is under way.
Idle == ckpt.phase = "idle" /\ \A t \in DOMAIN att : ~Busy(t)

LEMMA AddsRecord ==
  ASSUME Inv, NEW l, Flushed(l), NEW r \in RecordSet, log' = Appended(l, r)
  PROVE  Adds(r)
<1>1. l \in LogSet /\ Records(l) = Records(log)
  BY DEF Flushed
<1>2. log' \in LogSet /\ Grown(Records(l), Records(log'), r)
  BY <1>1, AppendedFacts
<1> QED BY <1>1, <1>2, LogFacts DEF Adds

LEMMA CallBegins ==
  ASSUME ~Concurrent, CanCall
  PROVE  mode = "up" /\ Idle
BY DEF CanCall, InCall, Idle, Busy

LEMMA BeginEffect ==
  ASSUME Inv, ~Concurrent, begin
  PROVE  /\ mode = "up" /\ Idle
         /\ next_txn_id \in Nat /\ next_txn_id \notin DOMAIN att
         /\ Adds(ControlRecord("BEGIN", next_txn_id, NoLsn))
         /\ Sets(next_txn_id, NextLsn(log), "GROWING", NoLsn, NoOp)
         /\ UNCHANGED <<mem, dirty, disk, platter, locks, ckpt, ckpts, mode, rec, crashes>>
<1> DEFINE r == ControlRecord("BEGIN", next_txn_id, NoLsn)
<1>1. next_txn_id \in Nat /\ \A t \in DOMAIN att : t \in Nat /\ t < next_txn_id
  BY Basics DEF Inv, StateOK, TxnsOK
<1>2. r \in RecordSet
  BY <1>1, ControlIsRecord DEF Lsn
<1>3. Adds(r)
  BY <1>2, AddsRecord, Basics DEF begin
<1>4. Sets(next_txn_id, NextLsn(log), "GROWING", NoLsn, NoOp)
  BY DEF begin, Sets, With
<1>5. mode = "up" /\ Idle
  BY CallBegins DEF begin
<1>6. UNCHANGED <<mem, dirty, disk, platter, locks, ckpt, ckpts, mode, rec, crashes>>
  BY DEF begin, pageVars, ckptVars, runVars
<1>7. next_txn_id \notin DOMAIN att
  BY <1>1
<1> QED BY <1>1, <1>3, <1>4, <1>5, <1>6, <1>7

LEMMA ModifyEffect ==
  ASSUME Inv, ~Concurrent, NEW t \in DOMAIN att, NEW p \in Pages, NEW s \in Slots, NEW new \in Content,
         Modify(t, p, s, new)
  PROVE  LET op == [page |-> p, slot |-> s, old |-> mem[p].slots[s], new |-> new] IN
         /\ mode = "up" /\ Idle
         /\ op \in Change
         /\ op # NoOp
         /\ att[t].state = "GROWING"
         /\ log' = log
         /\ Sets(t, att[t].prev, "GROWING", att[t].undo, op)
         /\ UNCHANGED <<disk, platter, ckpt, ckpts, mode, rec, crashes>>
<1> DEFINE op == [page |-> p, slot |-> s, old |-> mem[p].slots[s], new |-> new]
<1>1. mem \in [Pages -> Page]
  BY DEF Inv, StateOK, PagesOK
<1>2. op \in Change
  BY <1>1 DEF Change, Page
<1>3. att[t].state = "GROWING"
  BY DEF Modify, Growing
<1>4. Sets(t, att[t].prev, "GROWING", att[t].undo, op)
  <2>1. att' = [att EXCEPT ![t].op = op]
    BY DEF Modify
  <2>2. att \in [DOMAIN att -> Transaction]
    BY Basics, MapFacts
  <2> QED BY <1>3, <2>1, <2>2, <1>2 DEF Transaction, Sets
<1>5. mode = "up" /\ Idle
  BY CallBegins DEF Modify
<1>6. UNCHANGED <<log, disk, platter, ckpt, ckpts, mode, rec, crashes>>
  BY DEF Modify, logVars, ckptVars, runVars
<1>7. op # NoOp
  <2>1. "slot" \in DOMAIN op /\ "slot" \notin DOMAIN NoOp
    BY DEF NoOp
  <2> QED BY <2>1
<1> QED BY <1>2, <1>3, <1>4, <1>5, <1>6, <1>7

LEMMA LogUpdateEffect ==
  ASSUME Inv, NEW t \in DOMAIN att, log_update(t)
  PROVE  /\ mode = "up"
         /\ att[t].op # NoOp /\ att[t].op \in Change
         /\ att[t].state = "GROWING"
         /\ Adds(UpdateRecord(t, att[t].prev, att[t].op))
         /\ Sets(t, NextLsn(log), "GROWING", att[t].undo, NoOp)
         /\ UNCHANGED <<disk, platter, locks, ckpt, ckpts, mode, rec, crashes>>
<1> DEFINE op == att[t].op
           r == UpdateRecord(t, att[t].prev, op)
<1>1. t \in Nat /\ att[t] \in Transaction /\ TxnOK(Records(log), t, att[t]) /\ NextLsn(log) \in Nat
  BY Basics
<1>2. op \in Change /\ op # NoOp /\ att[t].prev \in Lsn /\ att[t].state = "GROWING"
  BY <1>1 DEF log_update, Transaction, TxnOK, Lsn
<1>3. r \in RecordSet
  BY <1>1, <1>2, UpdateIsRecord
<1>4. log' = Appended(log, r)
  BY DEF log_update
<1>5. Adds(r)
  BY <1>3, <1>4, AddsRecord, Basics
<1>6. Sets(t, NextLsn(log), "GROWING", att[t].undo, NoOp)
  <2>1. att' = [att EXCEPT ![t].prev = NextLsn(log), ![t].op = NoOp]
    BY DEF log_update
  <2>2. att \in [DOMAIN att -> Transaction]
    BY Basics, MapFacts
  <2>3. /\ att' \in [DOMAIN att -> Transaction]
        /\ att'[t].prev = NextLsn(log)
        /\ att'[t].state = "GROWING"
        /\ att'[t].undo = att[t].undo
        /\ att'[t].op = NoOp
        /\ \A u \in DOMAIN att : u # t => att'[u] = att[u]
    BY <1>1, <1>2, <2>1, <2>2 DEF Transaction
  <2>4. DOMAIN att' = DOMAIN att \cup {t}
    BY <2>3
  <2> QED BY <2>3, <2>4 DEF Sets
<1>7. mode = "up" /\ UNCHANGED <<disk, platter, locks, ckpt, ckpts, mode, rec, crashes>>
  BY DEF log_update, ckptVars, runVars
<1> QED BY <1>2, <1>5, <1>6, <1>7

LEMMA CommitEffect ==
  ASSUME Inv, ~Concurrent, NEW t \in DOMAIN att, commit(t)
  PROVE  /\ mode = "up" /\ Idle
         /\ att[t].state = "GROWING"
         /\ Adds(ControlRecord("COMMIT", t, att[t].prev))
         /\ Sets(t, NextLsn(log), "COMMITTED", att[t].undo, NoOp)
         /\ UNCHANGED <<mem, dirty, disk, platter, locks, ckpt, ckpts, mode, rec, crashes>>
<1> DEFINE r == ControlRecord("COMMIT", t, att[t].prev)
<1>1. t \in Nat /\ att[t] \in Transaction /\ NextLsn(log) \in Nat /\ att[t].prev \in Lsn
  BY Basics DEF Transaction, Lsn
<1>2. att[t].state = "GROWING" /\ att[t].op = NoOp
  BY DEF commit, Growing
<1>3. r \in RecordSet
  BY <1>1, ControlIsRecord
<1>4. log' = Appended(log, r)
  BY DEF commit
<1>5. Adds(r)
  BY <1>3, <1>4, AddsRecord, Basics
<1>6. Sets(t, NextLsn(log), "COMMITTED", att[t].undo, NoOp)
  <2>1. att' = [att EXCEPT ![t].prev = NextLsn(log), ![t].state = "COMMITTED"]
    BY DEF commit
  <2>2. att \in [DOMAIN att -> Transaction]
    BY Basics, MapFacts
  <2>3. /\ att' \in [DOMAIN att -> Transaction]
        /\ att'[t].prev = NextLsn(log)
        /\ att'[t].state = "COMMITTED"
        /\ att'[t].undo = att[t].undo
        /\ att'[t].op = NoOp
        /\ \A u \in DOMAIN att : u # t => att'[u] = att[u]
    BY <1>1, <1>2, <2>1, <2>2 DEF Transaction
  <2>4. DOMAIN att' = DOMAIN att \cup {t}
    BY <2>3
  <2> QED BY <2>3, <2>4 DEF Sets
<1>7. mode = "up" /\ Idle
  BY CallBegins DEF commit
<1>8. UNCHANGED <<mem, dirty, disk, platter, locks, ckpt, ckpts, mode, rec, crashes>>
  BY DEF commit, pageVars, ckptVars, runVars
<1> QED BY <1>2, <1>5, <1>6, <1>7, <1>8

LEMMA AbortEffect ==
  ASSUME Inv, ~Concurrent, NEW t \in DOMAIN att, abort(t)
  PROVE  /\ mode = "up" /\ Idle
         /\ att[t].state = "GROWING"
         /\ Adds(ControlRecord("ABORT", t, att[t].prev))
         /\ Sets(t, NextLsn(log), "ABORTED", att[t].prev, NoOp)
         /\ UNCHANGED <<mem, dirty, disk, platter, locks, ckpt, ckpts, mode, rec, crashes>>
<1> DEFINE r == ControlRecord("ABORT", t, att[t].prev)
<1>1. t \in Nat /\ att[t] \in Transaction /\ NextLsn(log) \in Nat /\ att[t].prev \in Lsn
  BY Basics DEF Transaction, Lsn
<1>2. att[t].state = "GROWING" /\ att[t].op = NoOp
  BY DEF abort, Growing
<1>3. r \in RecordSet
  BY <1>1, ControlIsRecord
<1>4. log' = Appended(log, r)
  BY DEF abort
<1>5. Adds(r)
  BY <1>3, <1>4, AddsRecord, Basics
<1>6. Sets(t, NextLsn(log), "ABORTED", att[t].prev, NoOp)
  <2>1. att' = [att EXCEPT ![t].prev = NextLsn(log), ![t].state = "ABORTED", ![t].undo = att[t].prev]
    BY DEF abort
  <2>2. att \in [DOMAIN att -> Transaction]
    BY Basics, MapFacts
  <2>3. /\ att' \in [DOMAIN att -> Transaction]
        /\ att'[t].prev = NextLsn(log)
        /\ att'[t].state = "ABORTED"
        /\ att'[t].undo = att[t].prev
        /\ att'[t].op = NoOp
        /\ \A u \in DOMAIN att : u # t => att'[u] = att[u]
    BY <1>1, <1>2, <2>1, <2>2 DEF Transaction
  <2>4. DOMAIN att' = DOMAIN att \cup {t}
    BY <2>3
  <2> QED BY <2>3, <2>4 DEF Sets
<1>7. mode = "up" /\ Idle
  BY CallBegins DEF abort
<1>8. UNCHANGED <<mem, dirty, disk, platter, locks, ckpt, ckpts, mode, rec, crashes>>
  BY DEF abort, pageVars, ckptVars, runVars
<1> QED BY <1>2, <1>5, <1>6, <1>7, <1>8

LEMMA CommitForceEffect ==
  ASSUME Inv, NEW t \in DOMAIN att, commit_force(t)
  PROVE  /\ mode = "up"
         /\ att[t].state = "COMMITTED"
         /\ Adds(ControlRecord("TXN_END", t, att[t].prev))
         /\ Drops(t)
         /\ locks' = {k \in locks : k[1] # t}
         /\ UNCHANGED <<mem, dirty, disk, platter, ckpt, ckpts, mode, rec, crashes>>
<1> DEFINE r == ControlRecord("TXN_END", t, att[t].prev)
<1>1. t \in Nat /\ att[t] \in Transaction /\ att[t].prev \in Lsn /\ att[t].prev \in Int
  BY Basics DEF Transaction, Lsn
<1>3. r \in RecordSet
  BY <1>1, ControlIsRecord
<1>4. log' = Appended(FlushedTo(log, att[t].prev), r) /\ Flushed(FlushedTo(log, att[t].prev))
  BY <1>1, FlushedLog DEF commit_force, Inv
<1>5. Adds(r)
  BY <1>3, <1>4, AddsRecord
<1>6. Drops(t)
  BY DEF commit_force, Drops, Without
<1> QED BY <1>5, <1>6 DEF commit_force, pageVars, ckptVars, runVars

LEMMA AbortEndEffect ==
  ASSUME Inv, NEW t \in DOMAIN att, abort_end(t)
  PROVE  /\ mode = "up"
         /\ att[t].state = "ABORTED"
         /\ FullyUndone(t)
         /\ Adds(ControlRecord("TXN_END", t, att[t].prev))
         /\ Drops(t)
         /\ locks' = {k \in locks : k[1] # t}
         /\ UNCHANGED <<mem, dirty, disk, platter, ckpt, ckpts, mode, rec, crashes>>
<1> DEFINE r == ControlRecord("TXN_END", t, att[t].prev)
           l == IF att[t].undo = NoLsn THEN log ELSE Synced(log)
<1>1. t \in Nat /\ att[t] \in Transaction /\ att[t].prev \in Lsn
  BY Basics DEF Transaction, Lsn
<1>3. r \in RecordSet
  BY <1>1, ControlIsRecord
<1>4. log' = Appended(l, r) /\ Flushed(l)
  BY Basics DEF abort_end
<1>5. Adds(r)
  <2> HIDE DEF l, r
  <2> QED BY <1>3, <1>4, AddsRecord
<1>6. Drops(t)
  BY DEF abort_end, Drops, Without
<1> QED BY <1>5, <1>6 DEF abort_end, Aborting, pageVars, ckptVars, runVars

\* An abort's turn undoes the change at the frontier; there is nothing to skip.
LEMMA AbortStepEffect ==
  ASSUME Inv, TxnInv, NEW t \in DOMAIN att, abort_step(t)
  PROVE  LET rs == Records(log)
             r  == rs[Frontier(rs, att[t].prev + 1)]
         IN /\ mode = "up"
            /\ att[t].state = "ABORTED"
            /\ r \in RecordSet /\ r.type = "UPDATE" /\ r.txn = t
            /\ Adds(Compensation(r, att[t].prev))
            /\ Sets(t, NextLsn(log), "ABORTED", r.prev, NoOp)
            /\ mem' = Restored(r, NextLsn(log))
            /\ dirty' = dirty \cup {r.page}
            /\ UNCHANGED <<disk, platter, locks, ckpt, ckpts, mode, rec, crashes>>
<1> DEFINE rs == Records(log)
           i == att[t].prev + 1
           r == rs[Frontier(rs, i)]
           c == Compensation(r, att[t].prev)
<1>0. /\ rs \in Seq(RecordSet) /\ Len(rs) = NextLsn(log) /\ NextLsn(log) \in Nat
      /\ Chained(rs) /\ t \in Nat /\ att[t] \in Transaction /\ TxnOK(rs, t, att[t])
  BY Basics
<1>1. mode = "up" /\ att[t].state = "ABORTED" /\ ~FullyUndone(t)
  BY DEF abort_step, Aborting
<1>2. Linked(rs) /\ att[t].undo + 1 = Frontier(rs, i)
  BY <1>1 DEF TxnInv, AttExact
<1>3. i \in 1..Len(rs) /\ rs[i].txn = t /\ rs[i].type \in {"ABORT", "CLR"} /\ att[t].op = NoOp
      /\ att[t].prev \in Lsn /\ att[t].prev \in Nat
  BY <1>0, <1>1 DEF TxnOK, Names, Transaction, Lsn
<1>4. Frontier(rs, i) \in 1..i /\ r.txn = t
  BY <1>0, <1>3, FrontierRange DEF Live
<1>5. RecordAt(log, att[t].undo) = r
  BY <1>2 DEF RecordAt
<1>6. r.type \in {"BEGIN", "UPDATE"}
  BY <1>0, <1>2, <1>3, FrontierType DEF Live
<1>7. r.type = "UPDATE"
  BY <1>1, <1>5, <1>6 DEF FullyUndone
<1>8. Frontier(rs, i) \in 1..Len(rs)
  BY <1>0, <1>3, <1>4
<1> HIDE DEF i
<1>9. r \in RecordSet
  BY <1>0, <1>8
<1>10. UndoNext(r) = r.prev /\ r.prev \in Lsn
  BY <1>7, <1>9, RecordFacts DEF UndoNext
<1> HIDE DEF r
<1>11. /\ log' = Appended(Synced(log), c)
       /\ mem' = Restored(r, NextLsn(log))
       /\ dirty' = dirty \cup {r.page}
       /\ att' = [att EXCEPT ![t].prev = NextLsn(log), ![t].undo = r.prev]
       /\ UNCHANGED <<disk, platter, locks, ckpt, ckpts, mode, rec, crashes>>
  BY <1>5, <1>7, <1>10 DEF abort_step, ckptVars, runVars
<1>12. c \in RecordSet
  BY <1>3, <1>7, <1>9, CompensationIsRecord
<1>13. Adds(c)
  BY <1>11, <1>12, AddsRecord, Basics
<1>14. Sets(t, NextLsn(log), "ABORTED", r.prev, NoOp)
  <2>1. att \in [DOMAIN att -> Transaction]
    BY Basics, MapFacts
  <2>2. /\ att' \in [DOMAIN att -> Transaction]
        /\ att'[t].prev = NextLsn(log)
        /\ att'[t].state = "ABORTED"
        /\ att'[t].undo = r.prev
        /\ att'[t].op = NoOp
        /\ \A u \in DOMAIN att : u # t => att'[u] = att[u]
    BY <1>0, <1>1, <1>3, <1>10, <1>11, <2>1 DEF Transaction
  <2>3. DOMAIN att' = DOMAIN att \cup {t}
    BY <2>2
  <2> QED BY <2>2, <2>3 DEF Sets
<1> QED BY <1>1, <1>4, <1>7, <1>9, <1>11, <1>13, <1>14 DEF r, i

\* undo takes the last record of a loser, or the one at its frontier.
LEMMA UndoPosition ==
  ASSUME Inv, TxnInv, mode = "undo", rec.to_undo # {}
  PROVE  LET rs == Records(log)
             r  == RecordAt(log, UndoLsn)
             l  == rec.att[r.txn] + 1
         IN /\ r = rs[UndoLsn + 1]
            /\ r \in RecordSet
            /\ r.type \in Live
            /\ UndoLsn \in rec.to_undo
            /\ r.txn \in DOMAIN rec.att /\ r.txn \in Nat
            /\ rec.att[r.txn] \in Lsn
            /\ l \in 1..Len(rs) /\ rs[l].txn = r.txn /\ rs[l].type \in Live
            /\ LastOf(rs, Len(rs), r.txn, l)
            /\ UndoLsn + 1 \in {l, Frontier(rs, l)}
            /\ Frontier(rs, l) \in 1..Len(rs)
            /\ r.type \in {"BEGIN", "UPDATE"} => UndoLsn + 1 = Frontier(rs, l)
            /\ r.type \in {"CLR", "ABORT"} => UndoLsn + 1 = l
<1> DEFINE rs == Records(log)
           r == RecordAt(log, UndoLsn)
           l == rec.att[r.txn] + 1
<1>0. rs \in Seq(RecordSet) /\ Len(rs) = NextLsn(log) /\ NextLsn(log) \in Nat /\ Chained(rs) /\ Linked(rs)
  BY Basics DEF TxnInv
<1>1. /\ UndoLsn \in rec.to_undo
      /\ r = rs[UndoLsn + 1]
      /\ r \in RecordSet
      /\ r.txn \in DOMAIN rec.att /\ r.txn \in Nat
      /\ Names(rs, r.txn, rec.att[r.txn])
      /\ rs[l].type \in Live
      /\ rec.att[r.txn] \in Lsn
  BY UndoLsnFacts
<1>2. UndoLsn + 1 \in {l, Frontier(rs, l)}
  BY <1>1 DEF TxnInv, UndoExact
<1>3. l \in 1..Len(rs) /\ rs[l].txn = r.txn
  BY <1>0, <1>1 DEF Names
<1>4. LastOf(rs, Len(rs), r.txn, l)
  BY <1>1 DEF TxnInv, Exact, Tracks
<1> HIDE DEF l, r
<1>5. Frontier(rs, l) \in 1..l /\ rs[Frontier(rs, l)].type \in {"BEGIN", "UPDATE"}
  BY <1>0, <1>1, <1>3, FrontierRange, FrontierType
<1>6. Frontier(rs, l) \in 1..Len(rs)
  BY <1>0, <1>3, <1>5
<1>7. r.type \in Live
  BY <1>1, <1>2, <1>5 DEF Live
<1>8. r.type \in {"BEGIN", "UPDATE"} => UndoLsn + 1 = Frontier(rs, l)
  BY <1>1, <1>2 DEF Frontier
<1>9. r.type \in {"CLR", "ABORT"} => UndoLsn + 1 = l
  BY <1>1, <1>2, <1>5
<1> QED BY <1>1, <1>2, <1>3, <1>4, <1>6, <1>7, <1>8, <1>9 DEF l, r

LEMMA UndoUpdateEffect ==
  ASSUME Inv, TxnInv, undo_update
  PROVE  LET r == RecordAt(log, UndoLsn)
             n == NextLsn(log)
         IN /\ mode = "undo" /\ rec.to_undo # {}
            /\ r.type = "UPDATE"
            /\ Adds(Compensation(r, rec.att[r.txn]))
            /\ rec'.att \in TxnMap
            /\ DOMAIN rec'.att = DOMAIN rec.att /\ rec'.att[r.txn] = n
            /\ \A u \in DOMAIN rec.att : u # r.txn => rec'.att[u] = rec.att[u]
            /\ rec'.to_undo = (rec.to_undo \ {UndoLsn}) \cup {r.prev}
            /\ rec'.dpt = rec.dpt
            /\ mem' = Restored(r, n)
            /\ dirty' = dirty \cup {r.page}
            /\ UNCHANGED <<disk, platter, att, locks, ckpt, ckpts, mode, crashes>>
<1> DEFINE rs == Records(log)
           r == RecordAt(log, UndoLsn)
           n == NextLsn(log)
           c == Compensation(r, rec.att[r.txn])
<1>1. mode = "undo" /\ rec.to_undo # {} /\ r.type = "UPDATE"
  BY DEF undo_update
<1>2. /\ r = rs[UndoLsn + 1] /\ r \in RecordSet /\ UndoLsn \in rec.to_undo
      /\ r.txn \in DOMAIN rec.att /\ r.txn \in Nat /\ rec.att[r.txn] \in Lsn
  BY <1>1, UndoLsnFacts
<1>3. RecOK(rs, rec) /\ n \in Nat /\ Chained(rs) /\ rs \in Seq(RecordSet) /\ Len(rs) = n
  BY Basics
<1>4. c \in RecordSet
  BY <1>1, <1>2, CompensationIsRecord
<1>5. UndoNext(r) = r.prev /\ r.prev # NoLsn
  <2>1. UndoLsn + 1 \in 1..Len(rs)
    BY <1>1, <1>3, UndoLsnFacts
  <2>2. Chain(rs, UndoLsn + 1)
    BY <1>3, <2>1 DEF Chained
  <2> DEFINE k == UndoLsn + 1
  <2>3. k \in Nat /\ r = rs[k] /\ Chain(rs, k)
    BY <1>2, <2>1, <2>2
  <2> HIDE DEF r, rs, k
  <2>4. r.prev \in 0..(k - 2)
    BY <1>1, <2>3 DEF Chain
  <2> QED BY <1>1, <2>4 DEF UndoNext, NoLsn
<1>6. /\ log' = Appended(Synced(log), c)
      /\ rec' = [rec EXCEPT !.att = With(@, r.txn, n), !.to_undo = ToUndoAfter(r)]
      /\ mem' = Restored(r, n)
      /\ dirty' = dirty \cup {r.page}
      /\ UNCHANGED <<disk, platter, att, locks, ckpt, ckpts, mode, crashes>>
  BY DEF undo_update, txnVars, ckptVars
<1> HIDE DEF c, r, n
<1>7. Adds(c)
  BY <1>4, <1>6, AddsRecord, Basics
<1>8. /\ rec'.att = With(rec.att, r.txn, n)
      /\ rec'.to_undo = ToUndoAfter(r)
      /\ rec'.dpt = rec.dpt
  <2>1. rec \in [att : TxnMap, dpt : PageMap, pos : Lsn, to_undo : SUBSET Nat]
    BY <1>3 DEF RecOK
  <2> QED BY <1>6, <2>1
<1>9. rec'.to_undo = (rec.to_undo \ {UndoLsn}) \cup {r.prev}
  BY <1>5, <1>8 DEF ToUndoAfter
<1>10. rec'.att \in TxnMap
  <2>1. rec.att \in TxnMap
    BY <1>3 DEF RecOK
  <2> QED BY <1>2, <1>3, <1>8, <2>1, WithMap DEF TxnMap
<1>11. DOMAIN rec'.att = DOMAIN rec.att /\ rec'.att[r.txn] = n
       /\ \A u \in DOMAIN rec.att : u # r.txn => rec'.att[u] = rec.att[u]
  BY <1>2, <1>8 DEF With
<1> QED BY <1>1, <1>6, <1>7, <1>8, <1>9, <1>10, <1>11 DEF c, r, n

LEMMA UndoTxnEndEffect ==
  ASSUME Inv, TxnInv, undo_txn_end
  PROVE  LET r == RecordAt(log, UndoLsn) IN
         /\ mode = "undo" /\ rec.to_undo # {}
         /\ r.type = "BEGIN"
         /\ Adds(ControlRecord("TXN_END", r.txn, rec.att[r.txn]))
         /\ rec'.att \in TxnMap
         /\ DOMAIN rec'.att = DOMAIN rec.att \ {r.txn}
         /\ \A u \in DOMAIN rec.att : u # r.txn => rec'.att[u] = rec.att[u]
         /\ rec'.to_undo = rec.to_undo \ {UndoLsn}
         /\ UNCHANGED <<mem, dirty, disk, platter, att, locks, ckpt, ckpts, mode, crashes>>
<1> DEFINE rs == Records(log)
           r == RecordAt(log, UndoLsn)
           c == ControlRecord("TXN_END", r.txn, rec.att[r.txn])
<1>1. mode = "undo" /\ rec.to_undo # {} /\ EndsUndo(r)
  BY DEF undo_txn_end
<1>2. /\ r = rs[UndoLsn + 1] /\ r \in RecordSet /\ UndoLsn \in rec.to_undo
      /\ r.txn \in DOMAIN rec.att /\ r.txn \in Nat /\ rec.att[r.txn] \in Lsn
  BY <1>1, UndoLsnFacts
<1>3. RecOK(rs, rec) /\ NextLsn(log) \in Nat /\ Chained(rs) /\ rs \in Seq(RecordSet) /\ Len(rs) = NextLsn(log)
  BY Basics
<1>4. c \in RecordSet
  BY <1>2, ControlIsRecord
<1>5. r.type = "BEGIN"
  <2>1. UndoLsn + 1 \in 1..Len(rs)
    BY <1>1, <1>3, UndoLsnFacts
  <2>2. Chain(rs, UndoLsn + 1)
    BY <1>3, <2>1 DEF Chained
  <2> DEFINE k == UndoLsn + 1
  <2>3. k \in Nat /\ r = rs[k] /\ Chain(rs, k)
    BY <1>2, <2>1, <2>2
  <2> HIDE DEF r, rs, k
  <2>4. r.type = "CLR" => r.undo_next \in 0..(k - 2)
    BY <1>1, <2>3 DEF Chain
  <2> QED BY <1>1, <2>4 DEF EndsUndo, NoLsn
<1>6. /\ log' = Appended(Synced(log), c)
      /\ rec' = [rec EXCEPT !.att = Without(@, r.txn), !.to_undo = @ \ {UndoLsn}]
      /\ UNCHANGED <<mem, dirty, disk, platter, att, locks, ckpt, ckpts, mode, crashes>>
  BY DEF undo_txn_end, pageVars, txnVars, ckptVars
<1> HIDE DEF c, r
<1>7. Adds(c)
  BY <1>4, <1>6, AddsRecord, Basics
<1>8. rec'.att = Without(rec.att, r.txn) /\ rec'.to_undo = rec.to_undo \ {UndoLsn}
  <2>1. rec \in [att : TxnMap, dpt : PageMap, pos : Lsn, to_undo : SUBSET Nat]
    BY <1>3 DEF RecOK
  <2> QED BY <1>6, <2>1
<1>10. rec'.att \in TxnMap
  <2>1. rec.att \in TxnMap
    BY <1>3 DEF RecOK
  <2> QED BY <1>8, <2>1, WithoutMap DEF TxnMap
<1>11. DOMAIN rec'.att = DOMAIN rec.att \ {r.txn}
       /\ \A u \in DOMAIN rec.att : u # r.txn => rec'.att[u] = rec.att[u]
  BY <1>8 DEF Without
<1> QED BY <1>1, <1>5, <1>6, <1>7, <1>8, <1>10, <1>11 DEF c, r

-----------------------------------------------------------------------------
(* The parts of TxnInv, for a step that appends a record.                  *)

LEMMA AddsFacts ==
  ASSUME Inv, NEW r, Adds(r)
  PROVE  LET rs == Records(log)
             qs == Records(log')
             m  == Len(qs)
         IN /\ rs \in Seq(RecordSet) /\ qs \in Seq(RecordSet) /\ r \in RecordSet
            /\ Len(rs) \in Nat /\ m = Len(rs) + 1 /\ m \in 1..Len(qs) /\ m - 1 = Len(rs)
            /\ Len(rs) = NextLsn(log) /\ Len(rs) \in 0..Len(rs)
            /\ qs[m] = r
            /\ Agree(rs, qs, Len(rs)) /\ \A i \in 1..Len(rs) : qs[i] = rs[i]
            /\ Chained(rs)
<1>1. Records(log) \in Seq(RecordSet) /\ Len(Records(log)) \in Nat /\ Len(Records(log)) = NextLsn(log)
      /\ Chained(Records(log))
  BY Basics
<1> QED BY <1>1 DEF Adds, Grown, Agree

LEMMA LinkedAdds ==
  ASSUME Inv, NEW r, Adds(r), Linked(Records(log)), Continues(Records(log), Len(Records(log)), r)
  PROVE  Linked(Records(log'))
<1>1. Records(log) \in Seq(RecordSet) /\ Chained(Records(log))
  BY Basics
<1>2. UndoOrder(Records(log), Len(Records(log)), r)
  BY <1>1, OrderFollows DEF Adds
<1> QED BY <1>1, <1>2, LinkedGrown DEF Adds

LEMMA PrevsMap ==
  ASSUME NEW a \in Maps(Nat, Transaction)
  PROVE  Prevs(a) \in TxnMap /\ DOMAIN Prevs(a) = DOMAIN a /\ \A t \in DOMAIN a : Prevs(a)[t] = a[t].prev
<1>1. DOMAIN a \in SUBSET Nat /\ \A t \in DOMAIN a : a[t] \in Transaction
  BY MapFacts
<1>2. Prevs(a) \in [DOMAIN a -> Nat]
  BY <1>1 DEF Prevs, Transaction
<1> QED BY <1>1, <1>2, MapIntro DEF TxnMap, Prevs

\* The last record of a transaction that att_ holds.
LEMMA AttLast ==
  ASSUME Inv, TxnInv, mode = "up", NEW t \in DOMAIN att
  PROVE  LET rs == Records(log)
             l  == att[t].prev + 1
         IN /\ LastOf(rs, Len(rs), t, l)
            /\ l \in 1..Len(rs) /\ rs[l].txn = t
            /\ TxnOK(rs, t, att[t])
<1>1. Tracks(Records(log), Len(Records(log)), Prevs(att))
  BY DEF TxnInv, AttExact
<1>2. att \in Maps(Nat, Transaction) /\ TxnOK(Records(log), t, att[t])
  BY Basics
<1>3. t \in DOMAIN Prevs(att) /\ Prevs(att)[t] = att[t].prev
  BY <1>2, PrevsMap
<1>4. LastOf(Records(log), Len(Records(log)), t, att[t].prev + 1)
  BY <1>1, <1>3 DEF Tracks
<1> QED BY <1>2, <1>4 DEF LastOf

\* Where an undo of another transaction stands does not change.
LEMMA UndoKept ==
  ASSUME Inv, TxnInv, mode = "up", NEW r, Adds(r), NEW u \in DOMAIN att, att[u].state = "ABORTED"
  PROVE  att[u].undo + 1 = Frontier(Records(log'), att[u].prev + 1)
<1>1. att[u].undo + 1 = Frontier(Records(log), att[u].prev + 1)
  BY DEF TxnInv, AttExact
<1>2. att[u].prev + 1 \in 1..Len(Records(log))
  BY AttLast
<1> QED BY <1>1, <1>2, AddsFacts, FrontierAgrees

LEMMA AttEnter ==
  ASSUME Inv, Inv', TxnInv, mode = "up", NEW r, Adds(r), NEW t, r.txn = t, NEW state, NEW undo, NEW op,
         Sets(t, NextLsn(log), state, undo, op),
         state = "ABORTED" => undo + 1 = Frontier(Records(log'), Len(Records(log')))
  PROVE  AttExact(Records(log'), att')
<1> DEFINE rs == Records(log)
           qs == Records(log')
           a == Prevs(att)
           b == Prevs(att')
<1>1. /\ rs \in Seq(RecordSet) /\ qs \in Seq(RecordSet) /\ Len(rs) \in Nat /\ Len(rs) \in 0..Len(rs)
      /\ Len(qs) = Len(rs) + 1 /\ Len(qs) \in 1..Len(qs) /\ Len(qs) - 1 = Len(rs)
      /\ Len(rs) = NextLsn(log) /\ qs[Len(qs)] = r /\ Agree(rs, qs, Len(rs))
  BY AddsFacts
<1>2. att \in Maps(Nat, Transaction) /\ att' \in Maps(Nat, Transaction)
  BY Basics DEF Inv, StateOK, TxnsOK
<1>3. a \in TxnMap /\ DOMAIN a = DOMAIN att /\ \A u \in DOMAIN att : a[u] = att[u].prev
  BY <1>2, PrevsMap
<1>4. b \in TxnMap /\ DOMAIN b = DOMAIN att' /\ \A u \in DOMAIN att' : b[u] = att'[u].prev
  BY <1>2, PrevsMap
<1>5. Tracks(rs, Len(rs), a)
  BY DEF TxnInv, AttExact
<1>6. Tracks(qs, Len(qs) - 1, a)
  BY <1>1, <1>5, TracksAgrees
<1>7. DOMAIN b = DOMAIN a \cup {t} /\ b[t] = Len(qs) - 1 /\ \A u \in DOMAIN a : u # t => b[u] = a[u]
  BY <1>1, <1>3, <1>4 DEF Sets
<1>8. Tracks(qs, Len(qs), b)
  <2> HIDE DEF a, b, qs, rs
  <2> QED BY <1>1, <1>4, <1>6, <1>7, TracksEnter
<1>9. ASSUME NEW u \in DOMAIN att', att'[u].state = "ABORTED"
      PROVE  att'[u].undo + 1 = Frontier(qs, att'[u].prev + 1)
  <2>1. CASE u = t
    <3>1. att'[t].prev + 1 = Len(qs) /\ state = "ABORTED" /\ att'[t].undo = undo
      BY <1>1, <1>9, <2>1 DEF Sets
    <3> QED BY <2>1, <3>1
  <2>2. CASE u # t
    <3>1. u \in DOMAIN att /\ att'[u] = att[u]
      BY <2>2 DEF Sets
    <3> QED BY <1>9, <3>1, UndoKept
  <2> QED BY <2>1, <2>2
<1> QED BY <1>8, <1>9 DEF AttExact

LEMMA AttLeave ==
  ASSUME Inv, Inv', TxnInv, mode = "up", NEW r, Adds(r), Ended(r), Drops(r.txn)
  PROVE  AttExact(Records(log'), att')
<1> DEFINE rs == Records(log)
           qs == Records(log')
           a == Prevs(att)
           b == Prevs(att')
<1>1. /\ rs \in Seq(RecordSet) /\ qs \in Seq(RecordSet) /\ Len(rs) \in Nat /\ Len(rs) \in 0..Len(rs)
      /\ Len(qs) = Len(rs) + 1 /\ Len(qs) \in 1..Len(qs) /\ Len(qs) - 1 = Len(rs)
      /\ Len(rs) = NextLsn(log) /\ qs[Len(qs)] = r /\ Agree(rs, qs, Len(rs))
  BY AddsFacts
<1>2. att \in Maps(Nat, Transaction) /\ att' \in Maps(Nat, Transaction)
  BY Basics DEF Inv, StateOK, TxnsOK
<1>3. a \in TxnMap /\ DOMAIN a = DOMAIN att /\ \A u \in DOMAIN att : a[u] = att[u].prev
  BY <1>2, PrevsMap
<1>4. b \in TxnMap /\ DOMAIN b = DOMAIN att' /\ \A u \in DOMAIN att' : b[u] = att'[u].prev
  BY <1>2, PrevsMap
<1>5. Tracks(rs, Len(rs), a)
  BY DEF TxnInv, AttExact
<1>6. Tracks(qs, Len(qs) - 1, a)
  BY <1>1, <1>5, TracksAgrees
<1>7. DOMAIN b = DOMAIN a \ {r.txn} /\ \A u \in DOMAIN a : u # r.txn => b[u] = a[u]
  BY <1>1, <1>3, <1>4 DEF Drops
<1>8. Tracks(qs, Len(qs), b)
  <2> HIDE DEF a, b, qs, rs
  <2> QED BY <1>1, <1>4, <1>6, <1>7, TracksLeave
<1>9. ASSUME NEW u \in DOMAIN att', att'[u].state = "ABORTED"
      PROVE  att'[u].undo + 1 = Frontier(qs, att'[u].prev + 1)
  <2>1. u \in DOMAIN att /\ att'[u] = att[u]
    BY DEF Drops
  <2> QED BY <1>9, <2>1, UndoKept
<1> QED BY <1>8, <1>9 DEF AttExact

LEMMA AttSkip ==
  ASSUME Inv, TxnInv, mode = "up", NEW r, Adds(r), r.txn = NoTxn, att' = att
  PROVE  AttExact(Records(log'), att')
<1> DEFINE rs == Records(log)
           qs == Records(log')
           a == Prevs(att)
<1>1. /\ rs \in Seq(RecordSet) /\ qs \in Seq(RecordSet) /\ Len(rs) \in Nat /\ Len(rs) \in 0..Len(rs)
      /\ Len(qs) = Len(rs) + 1 /\ Len(qs) \in 1..Len(qs) /\ Len(qs) - 1 = Len(rs)
      /\ Len(rs) = NextLsn(log) /\ qs[Len(qs)] = r /\ Agree(rs, qs, Len(rs))
  BY AddsFacts
<1>5. Tracks(rs, Len(rs), a)
  BY DEF TxnInv, AttExact
<1>6. Tracks(qs, Len(qs) - 1, a)
  BY <1>1, <1>5, TracksAgrees
<1>8. Tracks(qs, Len(qs), a)
  <2> HIDE DEF a, qs, rs
  <2> QED BY <1>1, <1>6, TracksSkip
<1>9. \A u \in DOMAIN att : att[u].state = "ABORTED" => att[u].undo + 1 = Frontier(qs, att[u].prev + 1)
  BY UndoKept
<1> QED BY <1>8, <1>9 DEF AttExact

\* TxnInv, for a step of the running engine that appends a record.
LEMMA UpAdds ==
  ASSUME Inv, TxnInv, mode' = "up", NEW r, Adds(r), Continues(Records(log), Len(Records(log)), r),
         Serial', AttExact(Records(log'), att'), ckpt'.phase \notin {"dpt", "end"}
  PROVE  TxnInv'
<1>1. Linked(Records(log'))
  BY LinkedAdds DEF TxnInv
<1> QED BY <1>1 DEF TxnInv

\* ... and for a step that appends nothing and leaves the tables alone.
LEMMA QuietTxn ==
  ASSUME TxnInv, Records(log') = Records(log), UNCHANGED <<att, ckpt, mode, rec>>
  PROVE  TxnInv'
BY DEF TxnInv, Serial, Busy

-----------------------------------------------------------------------------
(* TransactionManager keeps TxnInv.                                        *)

LEMMA BeginTxn ==
  ASSUME Inv, Inv', TxnInv, ~Concurrent, begin
  PROVE  TxnInv'
<1> DEFINE rs == Records(log)
           t == next_txn_id
           r == ControlRecord("BEGIN", t, NoLsn)
<1>1. /\ mode = "up" /\ Idle /\ t \in Nat /\ t \notin DOMAIN att
      /\ Adds(r) /\ Sets(t, NextLsn(log), "GROWING", NoLsn, NoOp) /\ UNCHANGED <<ckpt, mode>>
  BY BeginEffect
<1>2. r.type = "BEGIN" /\ r.txn = t
  BY DEF ControlRecord
<1> HIDE DEF r, t
<1>3. ASSUME NEW j \in 1..Len(rs), LastOf(rs, Len(rs), t, j)
      PROVE  Ended(rs[j])
  <2>1. Tracks(rs, Len(rs), Prevs(att)) /\ DOMAIN Prevs(att) = DOMAIN att
    BY <1>1, PrevsMap, Basics DEF TxnInv, AttExact
  <2>2. rs[j].txn = t /\ t # NoTxn
    BY <1>1, <1>3, EngineAssumption DEF LastOf
  <2> QED BY <1>1, <1>3, <2>1, <2>2 DEF Tracks
<1>4. Continues(rs, Len(rs), r)
  BY <1>2, <1>3 DEF Continues
<1>5. AttExact(Records(log'), att')
  BY <1>1, <1>2, AttEnter
<1>6. Serial' /\ ckpt'.phase = "idle"
  BY <1>1 DEF Serial, Busy, Idle, Sets
<1> QED BY <1>1, <1>4, <1>5, <1>6, UpAdds

LEMMA ModifyTxn ==
  ASSUME Inv, Inv', TxnInv, ~Concurrent, NEW t \in DOMAIN att, NEW p \in Pages, NEW s \in Slots,
         NEW new \in Content, Modify(t, p, s, new)
  PROVE  TxnInv'
<1> DEFINE op == [page |-> p, slot |-> s, old |-> mem[p].slots[s], new |-> new]
<1>1. /\ mode = "up" /\ Idle /\ log' = log /\ att[t].state = "GROWING"
      /\ Sets(t, att[t].prev, "GROWING", att[t].undo, op) /\ UNCHANGED <<ckpt, mode, rec>>
  BY ModifyEffect
<1> HIDE DEF op
<1>2. Serial' /\ ckpt'.phase = "idle"
  BY <1>1 DEF Serial, Busy, Idle, Sets
<1>3. att \in Maps(Nat, Transaction) /\ att' \in Maps(Nat, Transaction)
  BY Basics DEF Inv, StateOK, TxnsOK
<1>4. Prevs(att') = Prevs(att)
  <2>1. DOMAIN att' = DOMAIN att /\ \A u \in DOMAIN att : att'[u].prev = att[u].prev
    BY <1>1 DEF Sets
  <2> QED BY <2>1 DEF Prevs
<1>5. ASSUME NEW u \in DOMAIN att', att'[u].state = "ABORTED"
      PROVE  u \in DOMAIN att /\ att'[u] = att[u]
  BY <1>1, <1>5 DEF Sets
<1>6. AttExact(Records(log'), att')
  BY <1>1, <1>4, <1>5 DEF TxnInv, AttExact
<1> QED BY <1>1, <1>2, <1>6 DEF TxnInv

LEMMA LogUpdateTxn ==
  ASSUME Inv, Inv', TxnInv, NEW t \in DOMAIN att, log_update(t)
  PROVE  TxnInv'
<1> DEFINE rs == Records(log)
           r == UpdateRecord(t, att[t].prev, att[t].op)
<1>1. /\ mode = "up" /\ att[t].op # NoOp /\ att[t].state = "GROWING" /\ Adds(r)
      /\ Sets(t, NextLsn(log), "GROWING", att[t].undo, NoOp) /\ UNCHANGED <<ckpt, mode>>
  BY LogUpdateEffect
<1>2. r.type = "UPDATE" /\ r.txn = t /\ r.prev = att[t].prev
  BY DEF UpdateRecord
<1> HIDE DEF r
<1>3. LastOf(rs, Len(rs), t, r.prev + 1) /\ rs[r.prev + 1].type \in {"BEGIN", "UPDATE"}
  BY <1>1, <1>2, AttLast DEF TxnOK
<1>4. Continues(rs, Len(rs), r)
  BY <1>2, <1>3 DEF Continues
<1>5. AttExact(Records(log'), att')
  BY <1>1, <1>2, AttEnter
<1>6. Serial' /\ ckpt'.phase = "idle"
  BY <1>1 DEF TxnInv, Serial, Busy, Sets
<1> QED BY <1>1, <1>4, <1>5, <1>6, UpAdds

LEMMA CommitTxn ==
  ASSUME Inv, Inv', TxnInv, ~Concurrent, NEW t \in DOMAIN att, commit(t)
  PROVE  TxnInv'
<1> DEFINE rs == Records(log)
           r == ControlRecord("COMMIT", t, att[t].prev)
<1>1. /\ mode = "up" /\ Idle /\ att[t].state = "GROWING" /\ Adds(r)
      /\ Sets(t, NextLsn(log), "COMMITTED", att[t].undo, NoOp) /\ UNCHANGED <<ckpt, mode>>
  BY CommitEffect
<1>2. r.type = "COMMIT" /\ r.txn = t /\ r.prev = att[t].prev
  BY DEF ControlRecord
<1> HIDE DEF r
<1>3. LastOf(rs, Len(rs), t, r.prev + 1) /\ rs[r.prev + 1].type \in {"BEGIN", "UPDATE"}
  BY <1>1, <1>2, AttLast DEF TxnOK
<1>4. Continues(rs, Len(rs), r)
  BY <1>2, <1>3 DEF Continues
<1>5. AttExact(Records(log'), att')
  BY <1>1, <1>2, AttEnter
<1>6. Serial' /\ ckpt'.phase = "idle"
  BY <1>1 DEF Idle, Serial, Busy, Sets
<1> QED BY <1>1, <1>4, <1>5, <1>6, UpAdds

LEMMA AbortTxn ==
  ASSUME Inv, Inv', TxnInv, ~Concurrent, NEW t \in DOMAIN att, abort(t)
  PROVE  TxnInv'
<1> DEFINE rs == Records(log)
           r == ControlRecord("ABORT", t, att[t].prev)
<1>1. /\ mode = "up" /\ Idle /\ att[t].state = "GROWING" /\ Adds(r)
      /\ Sets(t, NextLsn(log), "ABORTED", att[t].prev, NoOp) /\ UNCHANGED <<ckpt, mode>>
  BY AbortEffect
<1>2. r.type = "ABORT" /\ r.txn = t /\ r.prev = att[t].prev
  BY DEF ControlRecord
<1> HIDE DEF r
<1>3. LastOf(rs, Len(rs), t, r.prev + 1) /\ rs[r.prev + 1].type \in {"BEGIN", "UPDATE"}
  BY <1>1, <1>2, AttLast DEF TxnOK
<1>4. Continues(rs, Len(rs), r)
  BY <1>2, <1>3 DEF Continues
<1>5. Frontier(Records(log'), Len(Records(log'))) = att[t].prev + 1
  <2>1. Records(log')[Len(Records(log'))] = r
    BY <1>1, AddsFacts
  <2> QED BY <1>2, <2>1 DEF Frontier, UndoNext
<1>6. AttExact(Records(log'), att')
  BY <1>1, <1>2, <1>5, AttEnter
<1>7. Serial' /\ ckpt'.phase = "idle"
  BY <1>1 DEF Idle, Serial, Busy, Sets
<1> QED BY <1>1, <1>4, <1>6, <1>7, UpAdds

LEMMA CommitForceTxn ==
  ASSUME Inv, Inv', TxnInv, NEW t \in DOMAIN att, commit_force(t)
  PROVE  TxnInv'
<1> DEFINE rs == Records(log)
           r == ControlRecord("TXN_END", t, att[t].prev)
<1>1. /\ mode = "up" /\ att[t].state = "COMMITTED" /\ Adds(r) /\ Drops(t) /\ UNCHANGED <<ckpt, mode>>
  BY CommitForceEffect
<1>2. r.type = "TXN_END" /\ r.txn = t /\ r.prev = att[t].prev
  BY DEF ControlRecord
<1> HIDE DEF r
<1>3. LastOf(rs, Len(rs), t, r.prev + 1) /\ rs[r.prev + 1].type = "COMMIT"
  BY <1>1, <1>2, AttLast DEF TxnOK
<1>4. Continues(rs, Len(rs), r)
  BY <1>2, <1>3 DEF Continues
<1>5. AttExact(Records(log'), att')
  BY <1>1, <1>2, AttLeave DEF Ended
<1>6. Serial' /\ ckpt'.phase = "idle"
  BY <1>1 DEF TxnInv, Serial, Busy, Drops
<1> QED BY <1>1, <1>4, <1>5, <1>6, UpAdds

LEMMA AbortEndTxn ==
  ASSUME Inv, Inv', TxnInv, NEW t \in DOMAIN att, abort_end(t)
  PROVE  TxnInv'
<1> DEFINE rs == Records(log)
           r == ControlRecord("TXN_END", t, att[t].prev)
           l == att[t].prev + 1
<1>1. /\ mode = "up" /\ att[t].state = "ABORTED" /\ FullyUndone(t)
      /\ Adds(r) /\ Drops(t) /\ UNCHANGED <<ckpt, mode>>
  BY AbortEndEffect
<1>2. r.type = "TXN_END" /\ r.txn = t /\ r.prev + 1 = l
  BY DEF ControlRecord
<1> HIDE DEF r
<1>3. LastOf(rs, Len(rs), t, l) /\ rs[l].type \in {"ABORT", "CLR"} /\ l \in 1..Len(rs)
  BY <1>1, AttLast DEF TxnOK
<1>4. rs[Frontier(rs, l)].type = "BEGIN"
  <2>1. rs \in Seq(RecordSet) /\ Chained(rs)
    BY Basics
  <2>2. Frontier(rs, l) \in 1..l /\ att[t].undo + 1 = Frontier(rs, l)
    BY <1>1, <1>3, <2>1, FrontierRange DEF Live, TxnInv, AttExact
  <2>3. att[t].undo # NoLsn
    BY <2>2 DEF NoLsn
  <2> QED BY <1>1, <2>2, <2>3 DEF FullyUndone, RecordAt
<1>5. Continues(rs, Len(rs), r)
  BY <1>2, <1>3, <1>4 DEF Continues, Live
<1>6. AttExact(Records(log'), att')
  BY <1>1, <1>2, AttLeave DEF Ended
<1>7. Serial' /\ ckpt'.phase = "idle"
  BY <1>1 DEF TxnInv, Serial, Busy, Drops
<1> QED BY <1>1, <1>5, <1>6, <1>7, UpAdds

\* A compensation continues its transaction.
LEMMA CompensationContinues ==
  ASSUME NEW rs \in Seq(RecordSet), NEW n \in Nat, NEW t \in Nat, NEW prev \in Nat,
         LastOf(rs, n, t, prev + 1), rs[prev + 1].type \in Live,
         NEW u \in RecordSet, u = rs[Frontier(rs, prev + 1)], u.type = "UPDATE", u.txn = t
  PROVE  LET c == Compensation(u, prev) IN
         /\ c.type = "CLR" /\ c.txn = t /\ c.prev = prev /\ c.undo_next = u.prev
         /\ c.page = u.page /\ c.slot = u.slot /\ c.new = u.old
         /\ Continues(rs, n, c)
<1> DEFINE c == Compensation(u, prev)
<1>1. /\ c.type = "CLR" /\ c.txn = t /\ c.prev = prev /\ c.undo_next = u.prev
      /\ c.page = u.page /\ c.slot = u.slot /\ c.new = u.old
  BY DEF Compensation, ClrRecord
<1> HIDE DEF c
<1>2. Undoes(c, u)
  BY <1>1 DEF Undoes
<1>3. Continues(rs, n, c)
  BY <1>1, <1>2 DEF Continues
<1> QED BY <1>1, <1>3 DEF c

LEMMA AbortStepTxn ==
  ASSUME Inv, Inv', TxnInv, NEW t \in DOMAIN att, abort_step(t)
  PROVE  TxnInv'
<1> DEFINE rs == Records(log)
           l == att[t].prev + 1
           u == rs[Frontier(rs, l)]
           c == Compensation(u, att[t].prev)
<1>1. /\ mode = "up" /\ att[t].state = "ABORTED" /\ u \in RecordSet /\ u.type = "UPDATE" /\ u.txn = t
      /\ Adds(c) /\ Sets(t, NextLsn(log), "ABORTED", u.prev, NoOp) /\ UNCHANGED <<ckpt, mode>>
  BY AbortStepEffect
<1>2. LastOf(rs, Len(rs), t, l) /\ rs[l].type \in Live /\ l \in 1..Len(rs) /\ rs \in Seq(RecordSet)
  BY <1>1, AttLast, Basics DEF TxnOK, Live
<1>3. c.type = "CLR" /\ c.txn = t /\ c.undo_next = u.prev /\ Continues(rs, Len(rs), c)
  <2>1. u = rs[Frontier(rs, att[t].prev + 1)]
    OBVIOUS
  <2>2. Len(rs) \in Nat /\ t \in Nat /\ att[t].prev \in Nat
    BY <1>2, Basics DEF Transaction
  <2> HIDE DEF u, rs
  <2> QED BY <1>1, <1>2, <2>1, <2>2, CompensationContinues, SMTT(30)
<1> HIDE DEF c, u
<1>4. Frontier(Records(log'), Len(Records(log'))) = u.prev + 1
  <2>1. Records(log')[Len(Records(log'))] = c
    BY <1>1, AddsFacts
  <2> QED BY <1>3, <2>1 DEF Frontier, UndoNext
<1>5. AttExact(Records(log'), att')
  BY <1>1, <1>3, <1>4, AttEnter
<1>6. Serial' /\ ckpt'.phase = "idle"
  BY <1>1 DEF TxnInv, Serial, Busy, Sets
<1> QED BY <1>1, <1>3, <1>5, <1>6, UpAdds

-----------------------------------------------------------------------------
(* The other steps of the running engine keep TxnInv.                      *)

\* Flushes, page writes and redo append nothing.
LEMMA QuietLog ==
  ASSUME Inv, \/ log' = log
              \/ log' = Synced(log)
              \/ \E n \in Int : log' = FlushedTo(log, n)
              \/ log' = ForcedForPages(log)
  PROVE  Records(log') = Records(log) /\ NextLsn(log') = NextLsn(log)
         /\ Len(log.stable) <= Len(log'.stable)
<1>1. Flushed(log')
  BY FlushedLog, ForcedForPagesFacts DEF Inv
<1> QED BY <1>1 DEF Flushed

LEMMA WritePageEffect ==
  ASSUME Inv, NEW p \in Pages, WritePage(p)
  PROVE  Records(log') = Records(log) /\ UNCHANGED <<mem, platter, att, locks, ckpt, ckpts, mode, rec, crashes>>
<1>1. mem[p].lsn \in Int
  BY DEF Inv, StateOK, PagesOK, Page
<1> QED BY <1>1, QuietLog DEF WritePage, txnVars, ckptVars, runVars

LEMMA CheckpointTxn ==
  ASSUME Inv, Inv', TxnInv, ~Concurrent, checkpoint
  PROVE  TxnInv'
<1> DEFINE r == ControlRecord("CHECKPOINT_BEGIN", NoTxn, NoLsn)
<1>1. r \in RecordSet /\ r.type = "CHECKPOINT_BEGIN" /\ r.txn = NoTxn
  BY DEF ControlRecord, RecordSet
<1>2. mode = "up" /\ Idle
  BY CallBegins DEF checkpoint
<1>3. log' = Appended(log, r) /\ UNCHANGED <<att, mode>> /\ ckpt' = [ckpt EXCEPT !.phase = "att"]
  BY DEF checkpoint, txnVars, runVars
<1> HIDE DEF r
<1>4. Adds(r)
  BY <1>1, <1>3, AddsRecord, Basics
<1>5. Continues(Records(log), Len(Records(log)), r)
  BY <1>1 DEF Continues
<1>6. AttExact(Records(log'), att')
  BY <1>1, <1>2, <1>3, <1>4, AttSkip
<1>7. ckpt'.phase = "att"
  BY <1>3, Basics DEF CkptOK
<1>8. Serial'
  BY <1>2, <1>3 DEF Serial, Busy, Idle
<1> QED BY <1>2, <1>3, <1>4, <1>5, <1>6, <1>7, <1>8, UpAdds

LEMMA AttSnapshotTxn ==
  ASSUME Inv, TxnInv, get_att_snapshot
  PROVE  TxnInv'
<1> DEFINE rs == Records(log)
<1>1. /\ mode = "up" /\ ckpt.phase = "att" /\ log' = log /\ UNCHANGED <<att, mode, rec>>
      /\ ckpt' = [ckpt EXCEPT !.phase = "dpt", !.att = [t \in DOMAIN att |-> att[t].prev]]
  BY DEF get_att_snapshot, logVars, txnVars, runVars
<1>2. ckpt'.phase = "dpt" /\ ckpt'.att = Prevs(att)
  <2>1. ckpt \in [phase : {"idle", "att", "dpt", "end", "flush", "force"},
                  att : TxnMap, dpt : PageMap, lsn : Lsn]
    BY Basics DEF CkptOK
  <2>2. ckpt'.phase = "dpt" /\ ckpt'.att = [t \in DOMAIN att |-> att[t].prev]
    BY <1>1, <2>1
  <2> QED BY <2>2 DEF Prevs
<1>3. ASSUME NEW t \in DOMAIN Prevs(att)
      PROVE  ~Ended(rs[Prevs(att)[t] + 1])
  <2>1. t \in DOMAIN att /\ Prevs(att)[t] = att[t].prev
    BY DEF Prevs
  <2>2. att[t].state = "GROWING"
    BY <1>1, <2>1 DEF TxnInv, Serial, Busy
  <2>3. rs[att[t].prev + 1].type \in {"BEGIN", "UPDATE"}
    BY <1>1, <2>1, <2>2, AttLast DEF TxnOK
  <2> QED BY <2>1, <2>3 DEF Ended
<1>4. Exact(rs, Len(rs), ckpt'.att)
  BY <1>1, <1>2, <1>3 DEF TxnInv, AttExact, Exact
<1>5. Serial'
  BY <1>1 DEF TxnInv, Serial, Busy
<1> QED BY <1>1, <1>2, <1>4, <1>5 DEF TxnInv

LEMMA DirtySnapshotTxn ==
  ASSUME Inv, TxnInv, get_dirty_pages
  PROVE  TxnInv'
<1>1. /\ mode = "up" /\ ckpt.phase = "dpt" /\ log' = log /\ UNCHANGED <<att, mode, rec>>
      /\ ckpt' = [ckpt EXCEPT !.phase = "end", !.dpt = [p \in dirty |-> mem[p].lsn]]
  BY DEF get_dirty_pages, logVars, txnVars, runVars
<1>2. ckpt'.phase = "end" /\ ckpt'.att = ckpt.att
  BY <1>1, Basics DEF CkptOK
<1>3. Serial'
  BY <1>1 DEF TxnInv, Serial, Busy
<1> QED BY <1>1, <1>2, <1>3 DEF TxnInv

LEMMA CheckpointEndEffect ==
  ASSUME Inv, checkpoint_end
  PROVE  LET r == CheckpointEnd(ckpt.att, ckpt.dpt) IN
         /\ mode = "up" /\ ckpt.phase = "end"
         /\ Adds(r)
         /\ r.type = "CHECKPOINT_END" /\ r.txn = NoTxn /\ r.att = ckpt.att /\ r.dpt = ckpt.dpt
         /\ ckpt'.phase = "flush" /\ ckpt'.lsn = NextLsn(log)
         /\ UNCHANGED <<mem, dirty, disk, platter, att, locks, ckpts, mode, rec, crashes>>
<1> DEFINE r == CheckpointEnd(ckpt.att, ckpt.dpt)
<1>1. ckpt.att \in TxnMap /\ ckpt.dpt \in PageMap
  BY Basics DEF CkptOK
<1>2. r \in RecordSet
  BY <1>1, CheckpointsAreRecords
<1>3. r.type = "CHECKPOINT_END" /\ r.txn = NoTxn /\ r.att = ckpt.att /\ r.dpt = ckpt.dpt
  BY DEF CheckpointEnd
<1>4. log' = Appended(log, r)
  BY DEF checkpoint_end
<1>5. Adds(r)
  BY <1>2, <1>4, AddsRecord, Basics
<1>6. ckpt'.phase = "flush" /\ ckpt'.lsn = NextLsn(log)
  BY DEF checkpoint_end, IdleCheckpoint
<1> QED BY <1>3, <1>5, <1>6 DEF checkpoint_end, pageVars, txnVars, runVars

LEMMA CheckpointEndTxn ==
  ASSUME Inv, Inv', TxnInv, checkpoint_end
  PROVE  TxnInv'
<1> DEFINE r == CheckpointEnd(ckpt.att, ckpt.dpt)
<1>1. /\ mode = "up" /\ ckpt.phase = "end" /\ Adds(r)
      /\ r.type = "CHECKPOINT_END" /\ r.txn = NoTxn /\ r.att = ckpt.att
      /\ ckpt'.phase = "flush" /\ UNCHANGED <<att, mode>>
  BY CheckpointEndEffect
<1> HIDE DEF r
<1>2. Continues(Records(log), Len(Records(log)), r)
  BY <1>1 DEF TxnInv, Continues
<1>3. AttExact(Records(log'), att')
  BY <1>1, AttSkip
<1>4. Serial'
  BY <1>1 DEF TxnInv, Serial, Busy
<1> QED BY <1>1, <1>2, <1>3, <1>4, UpAdds

LEMMA CheckpointFlushTxn ==
  ASSUME Inv, TxnInv, checkpoint_flush \/ checkpoint_force
  PROVE  TxnInv'
<1>1. ckpt \in [phase : {"idle", "att", "dpt", "end", "flush", "force"},
                att : TxnMap, dpt : PageMap, lsn : Lsn]
  BY Basics DEF CkptOK
<1>2. ckpt.lsn \in Int
  BY <1>1 DEF Lsn, NoLsn
<1>3. Records(log') = Records(log)
  BY <1>2, QuietLog DEF checkpoint_flush, checkpoint_force
<1>4. mode = "up" /\ ckpt.phase \in {"flush", "force"} /\ UNCHANGED <<att, mode, rec>>
  BY DEF checkpoint_flush, checkpoint_force, txnVars, runVars
<1>5. ckpt'.phase \in {"force", "idle"}
  BY <1>1 DEF checkpoint_flush, checkpoint_force, IdleCheckpoint
<1>6. Serial'
  BY <1>4 DEF TxnInv, Serial, Busy
<1> QED BY <1>3, <1>4, <1>5, <1>6 DEF TxnInv

LEMMA CrashEffect ==
  ASSUME Inv, NEW k \in 0..Len(log.pending), Crash(k)
  PROVE  /\ Agree(Records(log), Records(log'), Len(Records(log')))
         /\ Records(log') \in Seq(RecordSet)
         /\ Records(log') = log'.stable
         /\ Len(Records(log')) = Len(log.stable) + k
         /\ Len(Records(log')) \in Len(log.stable)..NextLsn(log)
         /\ mode' = "down" /\ att' = <<>> /\ DOMAIN att' = {} /\ ckpt'.phase = "idle"
<1>1. log \in LogSet
  BY Basics
<1>2. log' = Reopened(log, k)
  BY DEF Crash
<1>3. mode' = "down" /\ att' = <<>> /\ ckpt'.phase = "idle"
  BY DEF Crash, IdleCheckpoint
<1>4. log' \in LogSet
  BY <1>1, <1>2, ReopenedFacts
<1> QED BY <1>1, <1>2, <1>3, <1>4, ReopenedFacts, LogFacts

LEMMA CrashTxn ==
  ASSUME Inv, TxnInv, NEW k \in 0..Len(log.pending), Crash(k)
  PROVE  TxnInv'
<1>1. /\ Agree(Records(log), Records(log'), Len(Records(log')))
      /\ Records(log') \in Seq(RecordSet)
      /\ mode' = "down" /\ DOMAIN att' = {} /\ ckpt'.phase = "idle"
  BY CrashEffect
<1>2. Linked(Records(log'))
  BY <1>1, LinkedCut, Basics DEF TxnInv
<1>3. Serial'
  BY <1>1 DEF Serial
<1> QED BY <1>1, <1>2, <1>3 DEF TxnInv

-----------------------------------------------------------------------------
(* RecoveryManager keeps TxnInv.                                           *)

\* No transaction runs and no checkpoint is in progress during recovery.
LEMMA RecoveryAlone ==
  ASSUME Inv, mode # "up"
  PROVE  att = <<>> /\ DOMAIN att = {} /\ ckpt.phase = "idle"
<1>1. att = <<>> /\ ckpt = IdleCheckpoint
  BY DEF Inv, StateOK
<1> QED BY <1>1 DEF IdleCheckpoint

\* The table that a checkpoint leaves in the log is exact behind it.
LEMMA SeedExact ==
  ASSUME NEW rs \in Seq(RecordSet), Linked(rs)
  PROVE  LET c == LastCheckpoint(rs) IN
         Exact(rs, c, IF c = 0 THEN <<>> ELSE rs[c].att)
<1> DEFINE c == LastCheckpoint(rs)
<1>1. c \in 0..Len(rs) /\ (c # 0 => rs[c].type = "CHECKPOINT_END")
  BY LastCheckpointFacts
<1> HIDE DEF c
<1>2. CASE c = 0
  <2>1. <<>> \in TxnMap /\ DOMAIN <<>> = {}
    BY EmptyMap DEF TxnMap
  <2>2. \A i \in 1..0 : FALSE
    OBVIOUS
  <2>3. Exact(rs, 0, <<>>)
    BY <2>1, <2>2 DEF Exact, Tracks
  <2> QED BY <1>2, <2>3 DEF c
<1>3. CASE c # 0
  <2>1. c \in 1..Len(rs) /\ rs[c] \in RecordSet
    BY <1>1, <1>3
  <2>2. Exact(rs, c - 1, rs[c].att)
    BY <1>1, <1>3, <2>1 DEF Linked, Continues
  <2>3. rs[c].txn = NoTxn
    BY <1>1, <1>3, <2>1, RecordFacts
  <2>4. Exact(rs, c, rs[c].att)
    BY <2>1, <2>2, <2>3, ExactSkip
  <2> QED BY <1>3, <2>4 DEF c
<1> QED BY <1>2, <1>3

LEMMA AnalyzeTxn ==
  ASSUME Inv, TxnInv, analyze
  PROVE  TxnInv'
<1> DEFINE rs == log.stable
           c == LastCheckpoint(rs)
           a == IF c = 0 THEN <<>> ELSE rs[c].att
           d == IF c = 0 THEN <<>> ELSE rs[c].dpt
<1>1. mode = "down" /\ mode' = "redo" /\ log' = log /\ UNCHANGED <<att, ckpt>>
      /\ rec' = [att |-> ScanAtt(rs, c, a), dpt |-> ScanDpt(rs, c, d), pos |-> NoLsn, to_undo |-> {}]
  BY DEF analyze, logVars, txnVars, ckptVars
<1>2. Records(log) = rs /\ rs \in Seq(RecordSet)
  <2>1. log.pending = <<>> /\ log \in LogSet
    BY <1>1, Basics DEF Inv, StateOK
  <2> QED BY <2>1, LogFacts DEF LogSet
<1>3. Exact(rs, c, a) /\ c \in 0..Len(rs)
  BY <1>2, SeedExact, LastCheckpointFacts DEF TxnInv
<1>4. rec'.att = ScanAtt(rs, c, a)
  BY <1>1
<1> HIDE DEF a, c
<1>5. Exact(rs, Len(rs), rec'.att)
  BY <1>2, <1>3, <1>4, ScanExact
<1>6. Serial'
  BY <1>1 DEF TxnInv, Serial, Busy
<1> QED BY <1>1, <1>2, <1>5, <1>6 DEF TxnInv

LEMMA RedoTxn ==
  ASSUME Inv, TxnInv, redo
  PROVE  TxnInv'
<1>1. mode = "redo" /\ log' = log /\ UNCHANGED <<att, ckpt, mode>> /\ \E n : rec' = [rec EXCEPT !.pos = n]
  BY DEF redo, logVars, txnVars, ckptVars
<1>2. rec'.att = rec.att
  BY <1>1, Basics DEF RecOK
<1>3. Serial'
  BY <1>1 DEF TxnInv, Serial, Busy
<1> QED BY <1>1, <1>2, <1>3 DEF TxnInv

LEMMA RedoEndTxn ==
  ASSUME Inv, TxnInv, redo_end
  PROVE  TxnInv'
<1> DEFINE rs == Records(log)
<1>1. /\ mode = "redo" /\ mode' = "undo" /\ log' = log /\ UNCHANGED <<att, ckpt>>
      /\ rec' = [rec EXCEPT !.to_undo = {rec.att[t] : t \in DOMAIN rec.att} \ {NoLsn}]
  BY DEF redo_end, logVars, txnVars, ckptVars
<1>2. RecOK(rs, rec)
  BY Basics
<1>3. rec'.att = rec.att /\ rec'.to_undo = {rec.att[t] : t \in DOMAIN rec.att} \ {NoLsn}
  BY <1>1, <1>2 DEF RecOK
<1>4. \A t \in DOMAIN rec.att : rec.att[t] # NoLsn /\ rs[rec.att[t] + 1].txn = t
  BY <1>2 DEF RecOK, Running, Names, NoLsn
<1>5. UndoExact(rs, rec')
  BY <1>3, <1>4 DEF UndoExact
<1>6. Serial'
  BY <1>1 DEF TxnInv, Serial, Busy
<1> QED BY <1>1, <1>3, <1>5, <1>6 DEF TxnInv

LEMMA UndoSkipTxn ==
  ASSUME Inv, TxnInv, ~FetchFails, undo_skip
  PROVE  TxnInv'
<1> DEFINE rs == Records(log)
           r == RecordAt(log, UndoLsn)
           l == rec.att[r.txn] + 1
<1>1. /\ mode = "undo" /\ rec.to_undo # {} /\ r.type # "UPDATE" /\ ~EndsUndo(r) /\ log' = Synced(log)
      /\ rec' = [rec EXCEPT !.to_undo = ToUndoAfter(r)] /\ UNCHANGED <<att, ckpt, mode>>
  BY DEF undo_skip, txnVars, ckptVars
<1>2. /\ r = rs[UndoLsn + 1] /\ r.type \in Live /\ UndoLsn \in rec.to_undo /\ r.txn \in DOMAIN rec.att
      /\ l \in 1..Len(rs) /\ rs[l].txn = r.txn /\ rs[l].type \in Live
      /\ r.type \in {"CLR", "ABORT"} => UndoLsn + 1 = l
  BY <1>1, UndoPosition
<1>3. r.type \in {"CLR", "ABORT"} /\ r = rs[l]
  BY <1>1, <1>2 DEF Live, EndsUndo
<1>4. rs \in Seq(RecordSet) /\ Chained(rs) /\ RecOK(rs, rec) /\ Records(log') = rs
  BY <1>1, Basics, QuietLog
<1>5. rec'.att = rec.att /\ rec'.to_undo = ToUndoAfter(r)
  BY <1>1, <1>4 DEF RecOK
<1> HIDE DEF r, l, rs
<1>6. Frontier(rs, l) = UndoNext(r) + 1 /\ UndoNext(r) # NoLsn /\ rs[Frontier(rs, l)].txn = r.txn
  <2>1. Frontier(rs, l) \in 1..l /\ rs[Frontier(rs, l)].txn = rs[l].txn
    BY <1>2, <1>4, FrontierRange
  <2>2. Frontier(rs, l) = UndoNext(r) + 1
    BY <1>3 DEF Frontier
  <2> QED BY <1>2, <2>1, <2>2 DEF NoLsn
<1>7. rec'.to_undo = (rec.to_undo \ {UndoLsn}) \cup {UndoNext(r)}
  BY <1>5, <1>6 DEF ToUndoAfter
<1>8. UndoExact(rs, rec)
  BY <1>1 DEF TxnInv, rs
<1>9. ASSUME NEW t \in DOMAIN rec.att
      PROVE  \E u \in rec'.to_undo : rs[u + 1].txn = t
  <2>1. CASE t = r.txn
    BY <1>6, <1>7, <2>1
  <2>2. CASE t # r.txn
    <3>1. PICK u \in rec.to_undo : rs[u + 1].txn = t
      BY <1>8 DEF UndoExact
    <3>2. u # UndoLsn
      BY <1>2, <2>2, <3>1
    <3> QED BY <1>7, <3>1, <3>2
  <2> QED BY <2>1, <2>2
<1>10. ASSUME NEW u \in rec'.to_undo
       PROVE  u + 1 \in {rec.att[rs[u + 1].txn] + 1, Frontier(rs, rec.att[rs[u + 1].txn] + 1)}
  <2>1. CASE u = UndoNext(r)
    BY <1>6, <2>1 DEF l
  <2>2. CASE u \in rec.to_undo
    BY <1>8, <2>2 DEF UndoExact
  <2> QED BY <1>7, <2>1, <2>2
<1>11. UndoExact(rs, rec')
  BY <1>5, <1>9, <1>10 DEF UndoExact
<1>12. Serial'
  BY <1>1 DEF TxnInv, Serial, Busy
<1> QED BY <1>1, <1>4, <1>5, <1>11, <1>12 DEF TxnInv, rs

\* The positions of the other losers, in a log with one more record.
LEMMA OthersKept ==
  ASSUME Inv, TxnInv, mode = "undo", NEW c, Adds(c), NEW u \in rec.to_undo
  PROVE  LET rs == Records(log)
             qs == Records(log')
             t  == rs[u + 1].txn
             l  == rec.att[t] + 1
         IN qs[u + 1] = rs[u + 1] /\ t \in DOMAIN rec.att /\ u + 1 \in {l, Frontier(qs, l)}
<1> DEFINE rs == Records(log)
           qs == Records(log')
           t == rs[u + 1].txn
           l == rec.att[t] + 1
<1>1. /\ rs \in Seq(RecordSet) /\ qs \in Seq(RecordSet) /\ Len(rs) \in Nat /\ Chained(rs)
      /\ Agree(rs, qs, Len(rs)) /\ \A i \in 1..Len(rs) : qs[i] = rs[i]
  BY AddsFacts
<1>2. RecOK(rs, rec)
  BY Basics
<1>3. u \in 0..(Len(rs) - 1) /\ t \in DOMAIN rec.att
  BY <1>2 DEF RecOK
<1>4. u + 1 \in {l, Frontier(rs, l)}
  BY DEF TxnInv, UndoExact
<1>5. l \in 1..Len(rs)
  BY <1>1, <1>2, <1>3 DEF RecOK, Running, Names
<1> HIDE DEF l, rs, qs
<1>6. Frontier(qs, l) = Frontier(rs, l)
  BY <1>1, <1>5, FrontierAgrees
<1>7. qs[u + 1] = rs[u + 1]
  BY <1>1, <1>3
<1> QED BY <1>3, <1>4, <1>6, <1>7 DEF l, rs, qs

LEMMA UndoUpdateTxn ==
  ASSUME Inv, Inv', TxnInv, undo_update
  PROVE  TxnInv'
<1> DEFINE rs == Records(log)
           qs == Records(log')
           r == RecordAt(log, UndoLsn)
           t == r.txn
           l == rec.att[t] + 1
           c == Compensation(r, rec.att[t])
<1>1. /\ mode = "undo" /\ rec.to_undo # {} /\ r.type = "UPDATE" /\ Adds(c) /\ rec'.att \in TxnMap
      /\ DOMAIN rec'.att = DOMAIN rec.att /\ rec'.att[t] = NextLsn(log)
      /\ \A u \in DOMAIN rec.att : u # t => rec'.att[u] = rec.att[u]
      /\ rec'.to_undo = (rec.to_undo \ {UndoLsn}) \cup {r.prev}
      /\ UNCHANGED <<att, ckpt, mode>>
  BY UndoUpdateEffect
<1>2. /\ r = rs[UndoLsn + 1] /\ r \in RecordSet /\ UndoLsn \in rec.to_undo /\ t \in DOMAIN rec.att /\ t \in Nat
      /\ l \in 1..Len(rs) /\ rs[l].txn = t /\ rs[l].type \in Live /\ LastOf(rs, Len(rs), t, l)
      /\ UndoLsn + 1 = Frontier(rs, l)
  BY <1>1, UndoPosition
<1>3. /\ rs \in Seq(RecordSet) /\ qs \in Seq(RecordSet) /\ Len(rs) \in Nat /\ Chained(rs)
      /\ Len(rs) \in 0..Len(rs) /\ Len(qs) = Len(rs) + 1 /\ Len(qs) \in 1..Len(qs) /\ Len(qs) - 1 = Len(rs)
      /\ Len(rs) = NextLsn(log) /\ qs[Len(qs)] = c
      /\ Agree(rs, qs, Len(rs)) /\ \A i \in 1..Len(rs) : qs[i] = rs[i]
  BY <1>1, AddsFacts
<1>4. RecOK(rs, rec) /\ Linked(rs) /\ Exact(rs, Len(rs), rec.att) /\ UndoExact(rs, rec)
  BY <1>1, Basics DEF TxnInv
<1>5. rec.att[t] \in Nat
  BY <1>2, <1>4, MapFacts DEF RecOK, TxnMap
<1>6. c.type = "CLR" /\ c.txn = t /\ c.undo_next = r.prev /\ Continues(rs, Len(rs), c)
  <2>1. r = rs[Frontier(rs, rec.att[t] + 1)]
    BY <1>2
  <2> DEFINE prev == rec.att[t]
  <2>2. /\ prev \in Nat /\ r = rs[Frontier(rs, prev + 1)] /\ r.txn = t /\ c = Compensation(r, prev)
        /\ LastOf(rs, Len(rs), t, prev + 1) /\ rs[prev + 1].type \in Live
    BY <1>2, <1>5, <2>1
  <2>3. /\ c.type = "CLR" /\ c.txn = t /\ c.undo_next = r.prev /\ c.prev = prev
        /\ c.page = r.page /\ c.slot = r.slot /\ c.new = r.old
    BY DEF Compensation, ClrRecord
  <2> HIDE DEF r, t, rs, c, prev
  <2>4. Undoes(c, r)
    BY <1>1, <2>3 DEF Undoes
  <2> QED BY <2>2, <2>3, <2>4 DEF Continues
<1> HIDE DEF r, t, c, l, rs, qs
<1>7. Linked(qs)
  BY <1>1, <1>4, <1>6, LinkedAdds DEF rs, qs
<1>8. Exact(qs, Len(qs), rec'.att)
  <2>1. Exact(qs, Len(qs) - 1, rec.att)
    BY <1>3, <1>4, ExactAgrees
  <2>2. DOMAIN rec'.att = DOMAIN rec.att \cup {t} /\ rec'.att[t] = Len(qs) - 1
    BY <1>1, <1>2, <1>3
  <2>3. ~Ended(qs[Len(qs)]) /\ qs[Len(qs)].txn = t
    BY <1>3, <1>6 DEF Ended
  <2> DEFINE a == rec.att
             b == rec'.att
             m == Len(qs)
  <2>4. /\ m \in 1..Len(qs) /\ Exact(qs, m - 1, a) /\ ~Ended(qs[m]) /\ b \in TxnMap
        /\ DOMAIN b = DOMAIN a \cup {qs[m].txn} /\ b[qs[m].txn] = m - 1
        /\ \A u \in DOMAIN a : u # qs[m].txn => b[u] = a[u]
    BY <1>1, <1>3, <2>1, <2>2, <2>3
  <2> HIDE DEF a, b, m
  <2>5. Exact(qs, m, b)
    BY <1>3, <2>4, ExactEnter
  <2> QED BY <2>5 DEF b, m
<1>9. r.prev \in 0..(UndoLsn - 1) /\ qs[r.prev + 1].txn = t /\ UndoLsn \in Nat
  <2> DEFINE k == UndoLsn + 1
  <2>1. UndoLsn \in 0..(Len(rs) - 1)
    BY <1>2, <1>4 DEF RecOK
  <2>2. k \in 1..Len(rs) /\ r = rs[k]
    BY <1>2, <1>3, <2>1
  <2> HIDE DEF k
  <2>3. Chain(rs, k)
    BY <1>3, <2>2 DEF Chained
  <2>4. r.prev \in 0..(k - 2) /\ rs[r.prev + 1].txn = r.txn
    BY <1>1, <2>2, <2>3 DEF Chain
  <2>5. r.prev + 1 \in 1..Len(rs)
    BY <1>3, <2>2, <2>4
  <2>6. r.prev \in 0..(UndoLsn - 1)
    BY <2>1, <2>4 DEF k
  <2> QED BY <1>3, <2>1, <2>4, <2>5, <2>6 DEF t
<1>10. Frontier(qs, Len(qs)) = r.prev + 1
  BY <1>3, <1>6 DEF Frontier, UndoNext
<1>11. ASSUME NEW x \in DOMAIN rec'.att
       PROVE  \E u \in rec'.to_undo : qs[u + 1].txn = x
  <2>1. CASE x = t
    BY <1>1, <1>9, <2>1
  <2>2. CASE x # t
    <3>1. PICK u \in rec.to_undo : rs[u + 1].txn = x
      BY <1>1, <1>4 DEF UndoExact
    <3>2. u # UndoLsn
      BY <1>2, <2>2, <3>1 DEF t
    <3>3. qs[u + 1] = rs[u + 1]
      BY <1>1, <3>1, OthersKept DEF rs, qs
    <3> QED BY <1>1, <3>1, <3>2, <3>3
  <2> QED BY <2>1, <2>2
<1>12. ASSUME NEW u \in rec'.to_undo
       PROVE  u + 1 \in {rec'.att[qs[u + 1].txn] + 1, Frontier(qs, rec'.att[qs[u + 1].txn] + 1)}
  <2>1. CASE u = r.prev
    <3>1. rec'.att[qs[u + 1].txn] + 1 = Len(qs)
      BY <1>1, <1>3, <1>9, <2>1
    <3> QED BY <1>10, <2>1, <3>1
  <2>2. CASE u \in rec.to_undo /\ u # UndoLsn
    <3>1. qs[u + 1] = rs[u + 1] /\ rs[u + 1].txn \in DOMAIN rec.att
          /\ u + 1 \in {rec.att[rs[u + 1].txn] + 1, Frontier(qs, rec.att[rs[u + 1].txn] + 1)}
      BY <1>1, <2>2, OthersKept DEF rs, qs
    <3>2. rs[u + 1].txn # t
      BY <1>2, <1>4, <2>2 DEF RecOK, t
    <3>3. rec'.att[rs[u + 1].txn] = rec.att[rs[u + 1].txn]
      BY <1>1, <3>1, <3>2
    <3> QED BY <3>1, <3>3
  <2> QED BY <1>1, <2>1, <2>2
<1>13. UndoExact(qs, rec')
  BY <1>11, <1>12 DEF UndoExact
<1>14. Serial'
  BY <1>1 DEF TxnInv, Serial, Busy
<1> QED BY <1>1, <1>7, <1>8, <1>13, <1>14 DEF TxnInv, qs

LEMMA UndoTxnEndTxn ==
  ASSUME Inv, Inv', TxnInv, undo_txn_end
  PROVE  TxnInv'
<1> DEFINE rs == Records(log)
           qs == Records(log')
           r == RecordAt(log, UndoLsn)
           t == r.txn
           l == rec.att[t] + 1
           c == ControlRecord("TXN_END", t, rec.att[t])
<1>1. /\ mode = "undo" /\ rec.to_undo # {} /\ r.type = "BEGIN" /\ Adds(c) /\ rec'.att \in TxnMap
      /\ DOMAIN rec'.att = DOMAIN rec.att \ {t}
      /\ \A u \in DOMAIN rec.att : u # t => rec'.att[u] = rec.att[u]
      /\ rec'.to_undo = rec.to_undo \ {UndoLsn}
      /\ UNCHANGED <<att, ckpt, mode>>
  BY UndoTxnEndEffect
<1>2. /\ r = rs[UndoLsn + 1] /\ UndoLsn \in rec.to_undo /\ t \in DOMAIN rec.att
      /\ l \in 1..Len(rs) /\ rs[l].txn = t /\ rs[l].type \in Live /\ LastOf(rs, Len(rs), t, l)
      /\ UndoLsn + 1 = Frontier(rs, l)
  BY <1>1, UndoPosition
<1>3. /\ rs \in Seq(RecordSet) /\ qs \in Seq(RecordSet) /\ Len(rs) \in Nat /\ Chained(rs)
      /\ Len(rs) \in 0..Len(rs) /\ Len(qs) = Len(rs) + 1 /\ Len(qs) \in 1..Len(qs) /\ Len(qs) - 1 = Len(rs)
      /\ qs[Len(qs)] = c
      /\ Agree(rs, qs, Len(rs)) /\ \A i \in 1..Len(rs) : qs[i] = rs[i]
  BY <1>1, AddsFacts
<1>4. RecOK(rs, rec) /\ Linked(rs) /\ Exact(rs, Len(rs), rec.att) /\ UndoExact(rs, rec)
  BY <1>1, Basics DEF TxnInv
<1>5. c.type = "TXN_END" /\ c.txn = t /\ c.prev + 1 = l
  BY DEF ControlRecord
<1>6. rs[Frontier(rs, l)].type = "BEGIN"
  BY <1>1, <1>2
<1> HIDE DEF r, t, c, l, rs, qs
<1>a. Continues(rs, Len(rs), c)
  BY <1>2, <1>5, <1>6 DEF Continues
<1>7. Linked(qs)
  BY <1>1, <1>4, <1>a, LinkedAdds DEF rs, qs
<1>8. Exact(qs, Len(qs), rec'.att)
  <2>1. Exact(qs, Len(qs) - 1, rec.att)
    BY <1>3, <1>4, ExactAgrees
  <2>3. Ended(qs[Len(qs)]) /\ qs[Len(qs)].txn = t
    BY <1>3, <1>5 DEF Ended
  <2> DEFINE a == rec.att
             b == rec'.att
             m == Len(qs)
  <2>4. /\ m \in 1..Len(qs) /\ Exact(qs, m - 1, a) /\ Ended(qs[m]) /\ b \in TxnMap
        /\ DOMAIN b = DOMAIN a \ {qs[m].txn}
        /\ \A u \in DOMAIN a : u # qs[m].txn => b[u] = a[u]
    BY <1>1, <1>3, <2>1, <2>3
  <2> HIDE DEF a, b, m
  <2>5. Exact(qs, m, b)
    BY <1>3, <2>4, ExactLeave
  <2> QED BY <2>5 DEF b, m
<1>11. ASSUME NEW x \in DOMAIN rec'.att
       PROVE  \E u \in rec'.to_undo : qs[u + 1].txn = x
  <2>1. x \in DOMAIN rec.att /\ x # t
    BY <1>1
  <2>2. PICK u \in rec.to_undo : rs[u + 1].txn = x
    BY <1>4, <2>1 DEF UndoExact
  <2>3. u # UndoLsn
    BY <1>2, <2>1, <2>2 DEF t
  <2>4. qs[u + 1] = rs[u + 1]
    BY <1>1, <2>2, OthersKept DEF rs, qs
  <2> QED BY <1>1, <2>2, <2>3, <2>4
<1>12. ASSUME NEW u \in rec'.to_undo
       PROVE  u + 1 \in {rec'.att[qs[u + 1].txn] + 1, Frontier(qs, rec'.att[qs[u + 1].txn] + 1)}
  <2>2. u \in rec.to_undo /\ u # UndoLsn
    BY <1>1
  <2>3. qs[u + 1] = rs[u + 1] /\ rs[u + 1].txn \in DOMAIN rec.att
        /\ u + 1 \in {rec.att[rs[u + 1].txn] + 1, Frontier(qs, rec.att[rs[u + 1].txn] + 1)}
    BY <1>1, <2>2, OthersKept DEF rs, qs
  <2>4. rs[u + 1].txn # t
    BY <1>2, <1>4, <2>2 DEF RecOK, t
  <2>5. rec'.att[rs[u + 1].txn] = rec.att[rs[u + 1].txn]
    BY <1>1, <2>3, <2>4
  <2> QED BY <2>3, <2>5
<1>13. UndoExact(qs, rec')
  BY <1>11, <1>12 DEF UndoExact
<1>14. Serial'
  BY <1>1 DEF TxnInv, Serial, Busy
<1> QED BY <1>1, <1>7, <1>8, <1>13, <1>14 DEF TxnInv, qs

\* When nothing is left to undo, no transaction is left without its end.
LEMMA RecoverEndTxn ==
  ASSUME Inv, TxnInv, recover_end
  PROVE  TxnInv'
<1> DEFINE rs == Records(log)
<1>1. mode = "undo" /\ rec.to_undo = {} /\ log' = Synced(log) /\ mode' = "up" /\ UNCHANGED <<att, ckpt>>
  BY DEF recover_end, txnVars, ckptVars
<1>2. Records(log') = rs
  BY <1>1, QuietLog
<1>3. att = <<>> /\ DOMAIN att = {} /\ ckpt.phase = "idle"
  BY <1>1, RecoveryAlone
<1>4. Exact(rs, Len(rs), rec.att) /\ DOMAIN rec.att = {}
  BY <1>1 DEF TxnInv, UndoExact
<1>5. Prevs(att) \in TxnMap /\ DOMAIN Prevs(att) = {}
  BY <1>3, PrevsMap, Basics
<1>6. Tracks(rs, Len(rs), Prevs(att))
  BY <1>4, <1>5 DEF Exact, Tracks
<1>7. AttExact(rs, att)
  BY <1>3, <1>6 DEF AttExact
<1>8. Serial'
  BY <1>1 DEF TxnInv, Serial, Busy
<1> QED BY <1>1, <1>2, <1>3, <1>7, <1>8 DEF TxnInv

-----------------------------------------------------------------------------
(* The theorems.                                                           *)

LEMMA InitTxn ==
  ASSUME Init
  PROVE  TxnInv
<1>1. log = EmptyLog /\ att = <<>> /\ ckpt = IdleCheckpoint /\ mode = "up"
  BY DEF Init
<1>2. DOMAIN att = {} /\ ckpt.phase = "idle"
  BY <1>1 DEF IdleCheckpoint
<1>3. Records(log) = <<>> /\ Len(Records(log)) = 0
  BY <1>1 DEF Records, EmptyLog
<1>4. \A i \in 1..0 : FALSE
  OBVIOUS
<1>5. Prevs(att) \in TxnMap /\ DOMAIN Prevs(att) = {}
  <2>1. att \in Maps(Nat, Transaction)
    BY <1>1, EmptyMap
  <2> QED BY <1>2, <2>1, PrevsMap
<1>6. Tracks(Records(log), 0, Prevs(att))
  BY <1>4, <1>5 DEF Tracks
<1>7. AttExact(Records(log), att)
  BY <1>2, <1>3, <1>6 DEF AttExact
<1>8. Linked(Records(log))
  BY <1>3, <1>4 DEF Linked
<1> QED BY <1>1, <1>2, <1>7, <1>8 DEF TxnInv, Serial

LEMMA NextTxn ==
  ASSUME Inv, Inv', TxnInv, ~Concurrent, ~FetchFails, [Next]_vars
  PROVE  TxnInv'
<1>1. CASE begin
  BY <1>1, BeginTxn
<1>2. ASSUME NEW t \in DOMAIN att,
             \/ \E p \in Pages, v \in Value : Insert(t, p, v)
             \/ \E p \in Pages, s \in Slots, v \in Value : Update(t, p, s, v)
             \/ \E p \in Pages, s \in Slots : Delete(t, p, s)
      PROVE  TxnInv'
  <2>1. \E p \in Pages, s \in Slots, v \in Content : Modify(t, p, s, v)
    BY <1>2, ClientChange
  <2> QED BY <2>1, ModifyTxn
<1>3. ASSUME NEW t \in DOMAIN att,
             \/ log_update(t) \/ commit(t) \/ commit_force(t)
             \/ abort(t) \/ abort_step(t) \/ abort_skip(t) \/ abort_end(t)
      PROVE  TxnInv'
  <2>1. ~abort_skip(t)
    BY DEF abort_skip
  <2> QED BY <1>3, <2>1, LogUpdateTxn, CommitTxn, CommitForceTxn, AbortTxn, AbortStepTxn, AbortEndTxn
<1>4. CASE Checkpoints
  BY <1>4, CheckpointTxn, AttSnapshotTxn, DirtySnapshotTxn, CheckpointEndTxn, CheckpointFlushTxn DEF Checkpoints
<1>5. CASE FlushLog
  BY <1>5, QuietLog, QuietTxn DEF FlushLog, txnVars, ckptVars, runVars
<1>6. ASSUME NEW p \in Pages, WritePage(p)
      PROVE  TxnInv'
  BY <1>6, WritePageEffect, QuietTxn
<1>7. ASSUME NEW p \in Pages, WriteBack(p)
      PROVE  TxnInv'
  BY <1>7, QuietTxn DEF WriteBack, logVars, txnVars, ckptVars, runVars
<1>8. ASSUME NEW k \in 0..Len(log.pending), Crash(k)
      PROVE  TxnInv'
  BY <1>8, CrashTxn
<1>9. CASE Recovery
  <2>1. ~redo_skip
    BY DEF redo_skip
  <2> QED BY <1>9, <2>1, AnalyzeTxn, RedoTxn, RedoEndTxn, UndoUpdateTxn, UndoSkipTxn, UndoTxnEndTxn,
             RecoverEndTxn DEF Recovery
<1>10. CASE UNCHANGED vars
  BY <1>10, QuietTxn DEF vars, logVars, txnVars, ckptVars, runVars
<1>11. CASE Transactions
  BY <1>1, <1>2, <1>3, <1>11 DEF Transactions
<1> QED BY <1>4, <1>5, <1>6, <1>7, <1>8, <1>9, <1>10, <1>11 DEF Next

\* When one thread at a time calls the managers and no fetch fails, every
\* record of the log continues its transaction's last one and the tables
\* follow the log.
THEOREM TxnInvHolds ==
  ASSUME ~Concurrent, ~FetchFails
  PROVE  Spec => []TxnInv
<1>1. Init => Inv /\ TxnInv
  BY InitInv, InitTxn
<1>2. Inv /\ TxnInv /\ [Next]_vars => Inv' /\ TxnInv'
  BY NextInv, NextTxn
<1> QED BY <1>1, <1>2, PTL DEF Spec

\* analyze: from a checkpoint's ATT, which the fuzzy checkpoint read before it
\* wrote CHECKPOINT_END, it finds the losers that a scan of the whole log finds.
THEOREM AnalysisIsExact ==
  ASSUME ~Concurrent, ~FetchFails
  PROVE  Spec => []AnalysisExact
<1>1. Inv /\ TxnInv => AnalysisExact
  <2> SUFFICES ASSUME Inv, TxnInv, mode = "redo"
               PROVE  rec.att = ScanAtt(log.stable, 0, <<>>)
    BY DEF AnalysisExact
  <2>1. log.pending = <<>> /\ log \in LogSet
    BY Basics DEF Inv, StateOK
  <2>2. Records(log) = log.stable /\ log.stable \in Seq(RecordSet)
    BY <2>1, LogFacts DEF LogSet
  <2>3. Exact(log.stable, 0, <<>>)
    <3>1. <<>> \in TxnMap /\ DOMAIN <<>> = {} /\ \A i \in 1..0 : FALSE
      BY EmptyMap DEF TxnMap
    <3> QED BY <3>1 DEF Exact, Tracks
  <2>4. Exact(log.stable, Len(log.stable), ScanAtt(log.stable, 0, <<>>))
    BY <2>2, <2>3, ScanExact
  <2>5. Exact(log.stable, Len(log.stable), rec.att)
    BY <2>2 DEF TxnInv
  <2> QED BY <2>2, <2>4, <2>5, ExactUnique
<1> QED BY <1>1, InvHolds, TxnInvHolds, PTL

\* abort and recovery's undo: however often an undo is interrupted by a crash
\* and taken up again, no change is compensated twice.
THEOREM NothingUndoneTwice ==
  ASSUME ~Concurrent, ~FetchFails
  PROVE  Spec => []UndoneOnce
<1>1. Inv /\ TxnInv => UndoneOnce
  <2> DEFINE rs == Records(log)
  <2> SUFFICES ASSUME Inv, TxnInv,
                      NEW i \in 1..Len(rs), NEW j \in 1..Len(rs), i < j,
                      rs[i].type = "CLR", rs[j].type = "CLR", rs[i].undo_next = rs[j].undo_next
               PROVE  FALSE
    <3>1. Inv => Len(rs) = NextLsn(log) /\ Len(rs) \in Nat
      BY Basics
    <3> QED BY <3>1 DEF UndoneOnce
  <2>1. rs \in Seq(RecordSet) /\ Chained(rs) /\ Linked(rs) /\ Len(rs) \in Nat
    BY Basics DEF TxnInv
  <2> HIDE DEF rs
  <2>2. Chain(rs, i) /\ Chain(rs, j) /\ UndoOrder(rs, j - 1, rs[j])
    BY <2>1 DEF Chained, Linked
  <2>3. /\ rs[i].undo_next \in 0..(i - 2) /\ rs[rs[i].undo_next + 1].txn = rs[i].txn
        /\ rs[rs[j].undo_next + 1].txn = rs[j].txn
    BY <2>2 DEF Chain
  <2>4. rs[i].txn = rs[j].txn /\ i \in 1..(j - 1)
    BY <2>3
  <2>5. Restarted(rs, rs[j].txn, i, j - 1) \/ rs[j].undo_next < rs[i].undo_next
    BY <2>2, <2>4 DEF UndoOrder
  <2>6. CASE Restarted(rs, rs[j].txn, i, j - 1)
    <3>1. PICK b \in (i + 1)..(j - 1) : rs[b].type = "BEGIN" /\ rs[b].txn = rs[j].txn
      BY <2>6 DEF Restarted
    <3>2. b \in 1..(j - 1)
      BY <3>1
    <3>3. b <= rs[j].undo_next + 1
      BY <2>2, <3>1, <3>2 DEF UndoOrder
    <3> QED BY <2>3, <3>1, <3>3
  <2>7. CASE rs[j].undo_next < rs[i].undo_next
    BY <2>3, <2>7
  <2> QED BY <2>5, <2>6, <2>7
<1> QED BY <1>1, InvHolds, TxnInvHolds, PTL
=============================================================================
