-------------------------------- MODULE MCWs --------------------------------
(* Instance of Indicator, and so of WsClient and Typing, for model checking: *)
(* the cfg gives every constant its value.                                   *)
EXTENDS Indicator
=============================================================================
