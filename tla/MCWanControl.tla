---------------------------- MODULE MCWanControl ----------------------------
(* Instances of WanControl and WanSolo for TLC: two callers.                 *)
EXTENDS WanSolo
=============================================================================
