-------------------------------- MODULE MCOlm --------------------------------
(***************************************************************************)
(* TLC instance of OlmStore: two frames of a session the peer started with *)
(* a one-time key, and an answer to the session this device starts.        *)
(***************************************************************************)
EXTENDS OlmStore, TLC

CONSTANTS e1, f1, f2, r1, a, k, fallback

Chains == f1 :> a @@ f2 :> a @@ r1 :> 1
Keys == a :> k
Symmetry == Permutations({f1, f2})
=============================================================================
