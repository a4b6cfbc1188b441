------------------------------ MODULE MCWanPage -------------------------------
(* Instances of WanPage: one click, two polls.                                 *)
EXTENDS WanPage
===============================================================================
