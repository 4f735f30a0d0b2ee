-------------------------- MODULE MCTxScheduler --------------------------
(* Small instances of TxScheduler for TLC. *)
EXTENDS TxScheduler

CONSTANTS r, x, l, m    \* a relayed packet, its multi-ack copy, two local packets

MixedTasks == {r, x, l}
MixedWraps == [k \in MixedTasks |-> IF k = x THEN r ELSE k]
MixedAir   == [k \in MixedTasks |-> IF k = l THEN 2 ELSE 1]
=============================================================================
