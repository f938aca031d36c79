------------------------------ MODULE WsClient ------------------------------
(***************************************************************************)
(* The WebSocket client (src/transport/ws.ts): connect() and close() of    *)
(* the SDK, the token it awaits before each socket, the events of every    *)
(* socket it ever created, and the timer that reconnects.                  *)
(*                                                                         *)
(* An attempt to connect is in one of three places: it awaits getToken(),  *)
(* it is a socket, or it waits for the reconnect timer.  this.socket and   *)
(* this.state are shared by all of them, and the handlers of an old socket *)
(* write to both.  Back-off delays and frames are left out; a socket that  *)
(* is closed is forgotten and its name used again.                         *)
(***************************************************************************)
EXTENDS Naturals, FiniteSets

CONSTANTS
  Sock,   \* names for the sockets alive at the same time; bounds the attempts
  NoSock  \* this.socket is null

ASSUME SockAssumption == IsFiniteSet(Sock) /\ NoSock \notin Sock

VARIABLES
  state,         \* this.state
  socket,        \* this.socket
  explicitClose, \* this.explicitClose
  pingTimer,     \* this.pingTimer is set
  ready,         \* readyState of each socket; "none" once it is closed
  minting,       \* attempts awaiting getToken(), by who started them
  timers,        \* reconnect timers that have not fired
  waiting,       \* sockets whose connect() promise is neither resolved nor rejected
  \* history
  wanted,        \* "up" after a connect() that did something, "down" after close()
  overlapped,    \* connect() started an attempt while another one was alive
  straggled,     \* close() found an attempt that had not become an open socket
  mintFailed,    \* a getToken() was rejected
  leaked,        \* an interval of pings was overwritten, and can never be cleared
  hung           \* a connect() promise that nothing will ever settle

fields == <<state, socket, explicitClose, pingTimer>>
history == <<wanted, overlapped, straggled, mintFailed, leaked, hung>>
vars == <<state, socket, explicitClose, pingTimer, ready, minting, timers, waiting,
          wanted, overlapped, straggled, mintFailed, leaked, hung>>

WsState == {"connecting", "open", "closing", "closed", "reconnecting"}
Starter == {"call", "timer"}

TypeOK ==
  /\ state \in WsState
  /\ socket \in Sock \cup {NoSock}
  /\ explicitClose \in BOOLEAN
  /\ pingTimer \in BOOLEAN
  /\ ready \in [Sock -> {"none", "connecting", "open", "closing"}]
  /\ minting \in [Starter -> Nat]
  /\ timers \in Nat
  /\ waiting \subseteq Sock
  /\ wanted \in {"up", "down"}
  /\ overlapped \in BOOLEAN /\ straggled \in BOOLEAN /\ mintFailed \in BOOLEAN
  /\ leaked \in BOOLEAN /\ hung \in BOOLEAN

Init ==
  /\ state = "closed"
  /\ socket = NoSock
  /\ explicitClose = FALSE
  /\ pingTimer = FALSE
  /\ ready = [s \in Sock |-> "none"]
  /\ minting = [k \in Starter |-> 0]
  /\ timers = 0
  /\ waiting = {}
  /\ wanted = "down"
  /\ overlapped = FALSE /\ straggled = FALSE /\ mintFailed = FALSE
  /\ leaked = FALSE /\ hung = FALSE

Alive == {s \in Sock : ready[s] # "none"}
Attempts == minting["call"] + minting["timer"] + timers + Cardinality(Alive)

\* Attempts that have not become an open socket, and may still do so.
Straggler ==
  \/ minting["call"] + minting["timer"] + timers > 0
  \/ \E s \in Sock : ready[s] = "connecting"

-----------------------------------------------------------------------------
\* connect(): a no-op on an open or connecting client.
Connect ==
  /\ state \notin {"open", "connecting"}
  /\ Attempts < Cardinality(Sock)
  /\ explicitClose' = FALSE
  /\ state' = "connecting"
  /\ minting' = [minting EXCEPT !["call"] = @ + 1]
  /\ wanted' = "up"
  /\ overlapped' = (overlapped \/ Attempts > 0)
  /\ UNCHANGED <<socket, pingTimer, ready, timers, waiting, straggled, mintFailed, leaked, hung>>

\* Mutant: close() does not record that it was called.
CloseForgotten ==
  /\ state' = "closing"
  /\ pingTimer' = FALSE
  /\ ready' = IF socket # NoSock /\ ready[socket] = "open"
              THEN [ready EXCEPT ![socket] = "closing"] ELSE ready
  /\ wanted' = "down"
  /\ straggled' = (straggled \/ Straggler)
  /\ UNCHANGED <<socket, explicitClose, minting, timers, waiting, overlapped, mintFailed, leaked, hung>>

\* close(): closes this.socket if it is open, and nothing else.
Close ==
  /\ explicitClose' = TRUE
  /\ state' = "closing"
  /\ pingTimer' = FALSE
  /\ ready' = IF socket # NoSock /\ ready[socket] = "open"
              THEN [ready EXCEPT ![socket] = "closing"] ELSE ready
  /\ wanted' = "down"
  /\ straggled' = (straggled \/ Straggler)
  /\ UNCHANGED <<socket, minting, timers, waiting, overlapped, mintFailed, leaked, hung>>

\* Mutant: this.socket is assigned by nobody.
MintOkDetached(k, s) ==
  /\ minting[k] > 0
  /\ ready[s] = "none"
  /\ minting' = [minting EXCEPT ![k] = @ - 1]
  /\ ready' = [ready EXCEPT ![s] = "connecting"]
  /\ waiting' = IF k = "call" THEN waiting \cup {s} ELSE waiting
  /\ UNCHANGED <<state, socket, explicitClose, pingTimer, timers, history>>

\* connectInternal() past its await: a new socket replaces this.socket.
MintOk(k, s) ==
  /\ minting[k] > 0
  /\ ready[s] = "none"
  /\ minting' = [minting EXCEPT ![k] = @ - 1]
  /\ ready' = [ready EXCEPT ![s] = "connecting"]
  /\ socket' = s
  /\ waiting' = IF k = "call" THEN waiting \cup {s} ELSE waiting
  /\ UNCHANGED <<state, explicitClose, pingTimer, timers, history>>

\* getToken() is rejected: the attempt is over, and the state stays as it is.
MintFails(k) ==
  /\ minting[k] > 0
  /\ minting' = [minting EXCEPT ![k] = @ - 1]
  /\ mintFailed' = TRUE
  /\ UNCHANGED <<fields, ready, timers, waiting, wanted, overlapped, straggled, leaked, hung>>

\* onopen, whatever was called meanwhile; the interval of pings is started.
SockOpen(s) ==
  /\ ready[s] = "connecting"
  /\ ready' = [ready EXCEPT ![s] = "open"]
  /\ state' = "open"
  /\ pingTimer' = TRUE
  /\ leaked' = (leaked \/ pingTimer)
  /\ waiting' = waiting \ {s}
  /\ UNCHANGED <<socket, explicitClose, minting, timers, wanted, overlapped, straggled, mintFailed, hung>>

StopPing == pingTimer' = FALSE

\* Mutant: onerror rejects the promise only of a client that is not connecting.
SettleInverted(s) ==
  /\ waiting' = waiting \ {s}
  /\ hung' = (hung \/ (s \in waiting /\ state = "connecting"))

\* onerror rejects a promise still waiting, but only if the client is connecting.
Settle(s) ==
  /\ waiting' = waiting \ {s}
  /\ hung' = (hung \/ (s \in waiting /\ state # "connecting"))

\* Mutant: onclose leaves it to the application to connect again.
AfterCloseNoTimer ==
  /\ state' = IF explicitClose THEN "closed" ELSE "reconnecting"
  /\ UNCHANGED timers

\* Closed for good, or a timer for the next attempt.
AfterClose ==
  /\ state' = IF explicitClose THEN "closed" ELSE "reconnecting"
  /\ timers' = IF explicitClose THEN timers ELSE timers + 1

\* onerror, if the attempt failed, and onclose: this.socket is cleared even if
\* it is another socket by now.
SockClosed(s) ==
  /\ ready[s] # "none"
  /\ ready' = [ready EXCEPT ![s] = "none"]
  /\ socket' = NoSock
  /\ StopPing
  /\ Settle(s)
  /\ AfterClose
  /\ UNCHANGED <<explicitClose, minting, wanted, overlapped, straggled, mintFailed, leaked>>

\* The reconnect timer: connectInternal() without a look at explicitClose.
TimerFires ==
  /\ timers > 0
  /\ timers' = timers - 1
  /\ state' = "connecting"
  /\ minting' = [minting EXCEPT !["timer"] = @ + 1]
  /\ UNCHANGED <<socket, explicitClose, pingTimer, ready, waiting, history>>

Next ==
  \/ Connect
  \/ Close
  \/ \E k \in Starter : MintFails(k) \/ \E s \in Sock : MintOk(k, s)
  \/ \E s \in Sock : SockOpen(s) \/ SockClosed(s)
  \/ TimerFires

Spec == Init /\ [][Next]_vars

\* Timers fire, getToken() is settled, a socket that is being closed is closed,
\* and a network that is tried again and again lets a connection through.  The
\* last is the environment's, the others the runtime's.
FairSpec ==
  /\ Spec
  /\ WF_vars(TimerFires)
  /\ \A k \in Starter : WF_vars(MintFails(k) \/ \E s \in Sock : MintOk(k, s))
  /\ \A s \in Sock :
       /\ WF_vars(ready[s] # "open" /\ SockClosed(s))
       /\ SF_vars(SockOpen(s))

-----------------------------------------------------------------------------
Regular == ~overlapped

\* As long as connect() was only called with no attempt alive, there is one
\* attempt at a time: reconnects never multiply sockets (ws.ts onclose, the
\* timer, connectInternal).
OneAttempt == Regular => Attempts <= 1

\* As long as attempts did not overlap, a client that says it is open holds the
\* socket that is open, so that send() does not throw on it, and no other
\* socket, so that frames do not arrive twice (ws.ts send, onopen, onclose).
OpenIsUsable ==
  Regular /\ state = "open" =>
    /\ socket # NoSock
    /\ ready[socket] = "open"

\* As long as attempts did not overlap, the pings run exactly while the client
\* is open, and no interval outlives its socket (ws.ts startPing, stopPing).
PingsWhileOpen ==
  Regular => ~leaked /\ (pingTimer <=> state = "open")

\* close() is final if it found no attempt on its way: nothing of the client
\* is left that could open a socket (ws.ts close).
CloseIsFinal ==
  Regular /\ ~straggled /\ wanted = "down" =>
    ~Straggler /\ \A s \in Sock : ready[s] # "open"

\* A connect() is resolved or rejected in the end of its attempt, unless the
\* client was closed in the middle of an attempt or attempts overlapped
\* (ws.ts onerror).
NoHungConnect == Regular /\ ~straggled => ~hung

\* The client the application wants open is open in the end, if getToken()
\* never fails, whatever the network does in between (ws.ts onclose).
Reconnects ==
  wanted = "up" ~> (state = "open" \/ wanted = "down" \/ mintFailed)

=============================================================================
