------------------------------ MODULE MCOutbox ------------------------------
(* Instance of Outbox for model checking: the cfg gives every constant its value. *)
EXTENDS Outbox

=============================================================================
