---------------------------- MODULE AtomicSession ----------------------------
(***************************************************************************)
(* What the adapter promises about the stored session with one device of   *)
(* the peer: every call reads it, works on it and writes it as one step,   *)
(* from where the last call left it, and no message is encrypted under a   *)
(* key that was used before (src/sessions.ts clearSessionCache "so we      *)
(* never ratchet from a stale fork").  Nothing is promised once two calls  *)
(* have collided.                                                          *)
(***************************************************************************)
EXTENDS Naturals

CONSTANTS
  Chain,  \* the sessions the peer starts; those of this device are numbers
  None

VARIABLES
  session, \* its chain, the ratchet key it sends under, and how often it sent
  made,    \* ratchet keys made
  used,    \* keys of the messages encrypted
  raced    \* calls have collided

Init == session = None /\ made = 0 /\ used = {} /\ raced = FALSE

\* The next message goes out under this key.
Sends(r, n) == <<r, n>> \notin used /\ used' = used \cup {<<r, n>>}

\* The first message of a session this device starts,
Start ==
  /\ session = None
  /\ made' = made + 1
  /\ session' = [chain |-> made + 1, ratchet |-> made + 1, sent |-> 1]
  /\ Sends(made + 1, 1)

\* the first one after the peer has said something,
Turn ==
  /\ session # None /\ session.ratchet = 0
  /\ made' = made + 1
  /\ session' = [chain |-> session.chain, ratchet |-> made + 1, sent |-> 1]
  /\ Sends(made + 1, 1)

\* and the others.
Send ==
  /\ session # None /\ session.ratchet # 0
  /\ session' = [chain |-> session.chain, ratchet |-> session.ratchet, sent |-> session.sent + 1]
  /\ Sends(session.ratchet, session.sent + 1)
  /\ UNCHANGED made

\* A first message of the peer starts a session only where there is none,
Accept ==
  /\ session = None
  /\ \E c \in Chain : session' = [chain |-> c, ratchet |-> 0, sent |-> 0]
  /\ UNCHANGED <<made, used>>

\* and an answer turns the one it belongs to.
Answer ==
  /\ session # None /\ session.chain \notin Chain
  /\ session' = [chain |-> session.chain, ratchet |-> 0, sent |-> 0]
  /\ UNCHANGED <<made, used>>

\* A frame the session does not fit makes the recovery drop it.
Forget == session # None /\ session' = None /\ UNCHANGED <<made, used>>

Collide == raced'

Next ==
  \/ (Start \/ Turn \/ Send \/ Accept \/ Answer \/ Forget) /\ UNCHANGED raced
  \/ Collide

Spec == Init /\ [][Next]_<<session, made, used, raced>>
=============================================================================
