----------------------------- MODULE MCSessions -----------------------------
(***************************************************************************)
(* TLC instances of Sessions.                                              *)
(***************************************************************************)
EXTENDS Sessions, TLC

Names == Permutations(Text) \cup Permutations(Device)
=============================================================================
