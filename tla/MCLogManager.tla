---------------------------- MODULE MCLogManager ----------------------------
EXTENDS LogManager

\* Two kinds of record, a short and a long one.
MCSize == [d \in Data |-> IF d = "marker" THEN 2 ELSE 3]
=============================================================================
