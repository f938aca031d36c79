------------------------------ MODULE MCStatus ------------------------------
(* Instance of StatusTracker for model checking: the cfg gives every constant *)
(* its value; the devices of the peer are interchangeable.                    *)
EXTENDS StatusTracker, TLC

Devices == Permutations(Dev)
=============================================================================
