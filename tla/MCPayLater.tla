------------------------------ MODULE MCPayLater ------------------------------
(* A plan of three instalments, the shortest on offer, with an order for each *)
(* and a second one for the middle instalment, on which an attempt may fail.  *)
EXTENDS PayLater

AnOrderEachAndOneTwice == {<<1, 1>>, <<2, 1>>, <<2, 2>>, <<3, 1>>}
TheDoubledOne == {<<2, 1>>}
=============================================================================
