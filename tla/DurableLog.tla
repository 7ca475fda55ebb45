----------------------------- MODULE DurableLog -----------------------------
(***************************************************************************)
(* What LogManager promises: an append-only log whose buffered suffix may  *)
(* be made durable as a whole, and of which a crash may only cut a suffix  *)
(* of the records that were never flushed.                                 *)
(***************************************************************************)
EXTENDS LogOps

CONSTANT Data

VARIABLE lg

TypeOK ==
  lg \in [stable : Seq(Data), pending : Seq(Data), flushed : Int]

Init == lg = EmptyLog

AppendRecord == \E d \in Data : lg' = Appended(lg, d)

Sync == lg' = Synced(lg)

Lose == \E k \in 0..Len(lg.pending) : lg' = Reopened(lg, k)

Next == AppendRecord \/ Sync \/ Lose

Spec == Init /\ [][Next]_lg
=============================================================================
