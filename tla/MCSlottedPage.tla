--------------------------- MODULE MCSlottedPage ---------------------------
(* Small instances of SlottedPage for TLC. *)
EXTENDS SlottedPage

MCPayloads == {<<5>>, <<6, 7>>}
=============================================================================
