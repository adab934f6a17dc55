---------------------------- MODULE MCSyncFiles ----------------------------
(* Chunks of two additions: none, one, a full chunk, a full and a partial one, *)
(* and one more than the capacity.                                             *)
EXTENDS SyncFiles

MCCounts == {<<0, 1>>, <<1, 0>>, <<2, 1>>, <<3, 0>>, <<4, 0>>}
=============================================================================
