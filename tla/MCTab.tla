-------------------------------- MODULE MCTab --------------------------------
(***************************************************************************)
(* TLC instance of TabLock: MCTab.cfg gives the constants their values.    *)
(***************************************************************************)
EXTENDS TabLock
=============================================================================
