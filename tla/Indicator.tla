------------------------------ MODULE Indicator ------------------------------
(***************************************************************************)
(* The typing indicator over the connection: what the manager (Typing)     *)
(* emits is an ephemeral, put on the socket if the client (WsClient) is    *)
(* open and dropped if it is not (src/index.ts sendContentInner).          *)
(* disconnect() shuts the manager down and closes the client.              *)
(*                                                                         *)
(* Encryption takes no time here.                                          *)
(***************************************************************************)
EXTENDS WsClient, Typing

VARIABLES
  shown,  \* what went out to the peer last
  missed  \* history: those for whom a signal was dropped since

indicator == <<typing, shown, missed>>
allVars == <<vars, indicator>>

IndicatorInit ==
  /\ Init /\ TypingInit
  /\ shown = [p \in Peer |-> "stopped"]
  /\ missed = {}

\* The ephemeral branch: what the step before it emitted goes out, or is lost.
Emit(p) ==
  IF state = "open"
  THEN shown' = [shown EXCEPT ![p] = said'[p]] /\ missed' = missed \ {p}
  ELSE missed' = missed \cup {p} /\ UNCHANGED shown

Silent == UNCHANGED <<shown, missed>>

Keystroke(p) == StartTyping(p) /\ Emit(p)
AnotherKeystroke(p) ==
  KeepTyping(p) /\ IF since[p] >= StartedRefresh THEN Emit(p) ELSE Silent
StopOrSend(p) == StopTyping(p) /\ Emit(p)

\* Mutant: the timer ends the run and nobody is told.
TimeoutQuiet(p) == AutoStop(p) /\ Silent

Timeout(p) == AutoStop(p) /\ IF isActive[p] = "active" THEN Emit(p) ELSE Silent

\* disconnect(): the typing manager first, the socket then.
Disconnect == Shutdown /\ Silent /\ Close

IndicatorNext ==
  \/ \E p \in Peer :
       (Keystroke(p) \/ AnotherKeystroke(p) \/ StopOrSend(p) \/ Timeout(p)) /\ UNCHANGED vars
  \/ Tick /\ Silent /\ UNCHANGED vars
  \/ Disconnect
  \/ Next /\ UNCHANGED indicator

IndicatorSpec == IndicatorInit /\ [][IndicatorNext]_allVars

\* The connection as it is in WsClient; a timer fires unless it is cleared.
IndicatorFairSpec ==
  /\ IndicatorSpec
  /\ WF_vars(TimerFires)
  /\ \A k \in Starter : WF_vars(MintFails(k) \/ \E s \in Sock : MintOk(k, s))
  /\ \A s \in Sock :
       /\ WF_vars(ready[s] # "open" /\ SockClosed(s))
       /\ SF_vars(SockOpen(s))
  /\ WF_allVars(Tick /\ Silent /\ UNCHANGED vars)
  /\ \A p \in Peer : WF_allVars(Timeout(p) /\ UNCHANGED vars)

-----------------------------------------------------------------------------
\* A peer is left with an indicator only if the signal that ends it found no
\* open socket, or disconnect() forgot the run.
ShownEnds ==
  \A p \in Peer : shown[p] = "started" => isActive[p] \in {"active", "none"} \/ p \in missed

\* Whatever the connection does, a run ends, unless the user types on for ever.
RunsEnd ==
  \A p \in Peer : []<>(isActive[p] # "active") \/ []<><<AnotherKeystroke(p)>>_allVars
=============================================================================
