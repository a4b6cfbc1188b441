------------------------------ MODULE MCAuthGate ------------------------------
(***************************************************************************)
(* Small instances of AuthGate.                                            *)
(***************************************************************************)
EXTENDS AuthGate, TLC

Symmetry == Permutations(Req)
===============================================================================
