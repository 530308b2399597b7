----------------------------- MODULE MCGetLatest -----------------------------
(* Small instances of GetLatest for TLC.                                   *)
EXTENDS GetLatest

(* The lowest heights have transactions; it is their blocks that are sent. *)
MCNumTxs == [h \in 1..Top |-> CASE h = 1 -> 3 [] h = 4 -> 1 [] OTHER -> 0]

(* On a chain of 5 with BatchLimit = 2 the newest batch is 4..5: two       *)
(* batches to add, the boundary block only, a bad payload.                 *)
FewLastHeights == {1, 4, BadPayload}
TwoBatches == {1}
=============================================================================
