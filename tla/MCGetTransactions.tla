------------------------- MODULE MCGetTransactions -------------------------
(* Small instances of GetTransactions for TLC.                             *)
EXTENDS GetTransactions

(* With PerPage = 2: a block of two pages, the second one short; a block   *)
(* of one page; blocks without transactions.                               *)
MCNumTxs == [h \in 1..Top |-> CASE h = 1 -> 3 [] h = 3 -> 1 [] OTHER -> 0]

(* On a chain of 4 heights with BigPage = 3 and BatchLimit = 2: two pages, *)
(* the first of two batches; a range from height 0; ranges past the tip of *)
(* the chain; a payload without an end and one that does not unmarshal.    *)
AllRequests == {<<1, 4>>, <<0, 2>>, <<3, 5>>, <<4, 5>>, <<2, 1>>, <<1, 0>>, BadPayload}
TwoPages == {<<1, 3>>}

(* On a chain of 3 with BigPage = 2: the second range fails on its second  *)
(* page, when items of the first are already on their way.                 *)
FewRequests == {<<1, 2>>, <<2, 5>>, <<1, 0>>, BadPayload}

ZeroEnd == {<<1, 0>>}
=============================================================================
