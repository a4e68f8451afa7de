---- MODULE MCSyncLifecycle ----
(* SyncLifecycle for TLC: up to two batches, of two commands and of one; the *)
(* first and the last command create an asset.                               *)
EXTENDS SyncLifecycle, TLC

MCN == 2
MCCut == 0 :> 0 @@ 1 :> 2 @@ 2 :> 3
MCCreates == {1, 3}
====
