------------------------------ MODULE Delivery ------------------------------
(***************************************************************************)
(* What the receiving device promises about one envelope, whatever paths   *)
(* and duplicates the wire puts between the two clients: it is handed to   *)
(* the application at most once, and only if it was sent                   *)
(* (docs/delivery-semantics.md "At-least-once + dedup").                   *)
(***************************************************************************)
EXTENDS Naturals

CONSTANT Env  \* envelopes, by envelopeUuid

VARIABLES
  sent,       \* envelopes the peer has sent
  delivered   \* how often an envelope reached messages.put

Init ==
  /\ sent = {}
  /\ delivered = [e \in Env |-> 0]

Send(e) ==
  /\ e \notin sent
  /\ sent' = sent \cup {e}
  /\ UNCHANGED delivered

Deliver(e) ==
  /\ e \in sent
  /\ delivered[e] = 0
  /\ delivered' = [delivered EXCEPT ![e] = 1]
  /\ UNCHANGED sent

Next == \E e \in Env : Send(e) \/ Deliver(e)

Spec == Init /\ [][Next]_<<sent, delivered>>
=============================================================================
