------------------------------- MODULE MCChat -------------------------------
(* Instance of Conversation for model checking: the cfg gives every constant  *)
(* its value.  Two jobs may overlap on one device only, so that the devices   *)
(* of a user are not interchangeable.                                         *)
EXTENDS Conversation
=============================================================================
