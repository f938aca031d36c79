------------------------------ MODULE WsProofs ------------------------------
(***************************************************************************)
(* Proofs about WsClient and, over it, Indicator: what a client whose      *)
(* attempts never overlapped can rely on, for any number of sockets,       *)
(* failures and reconnects, and what the peer is left to see of a typing   *)
(* run, for any peers and times.                                           *)
(***************************************************************************)
EXTENDS Indicator, FiniteSetTheorems, TLAPS

\* Attempts that are not a socket.
Pending == minting["call"] + minting["timer"] + timers

\* Every step keeps the types; a mint or a timer that is used up was there.
LEMMA TypeStep == TypeOK /\ [Next]_vars => TypeOK'
<1> SUFFICES ASSUME TypeOK, [Next]_vars PROVE TypeOK'
  OBVIOUS
<1> USE DEF TypeOK, WsState, Starter
<1>1. CASE Connect
  <2>1. minting' \in [Starter -> Nat]
    BY <1>1 DEF Connect
  <2>2. QED
    BY <1>1, <2>1 DEF Connect
<1>2. CASE Close
  BY <1>2 DEF Close
<1>3. ASSUME NEW k \in Starter, MintFails(k) PROVE TypeOK'
  <2>1. minting' \in [Starter -> Nat]
    BY <1>3 DEF MintFails
  <2>2. QED
    BY <1>3, <2>1 DEF MintFails, fields
<1>4. ASSUME NEW k \in Starter, NEW s \in Sock, MintOk(k, s) PROVE TypeOK'
  <2>1. minting' \in [Starter -> Nat]
    BY <1>4 DEF MintOk
  <2>2. QED
    BY <1>4, <2>1 DEF MintOk, history
<1>5. ASSUME NEW s \in Sock, SockOpen(s) PROVE TypeOK'
  <2>1. ready' \in [Sock -> {"none", "connecting", "open", "closing"}]
    BY <1>5 DEF SockOpen
  <2>2. leaked' \in BOOLEAN
    BY <1>5 DEF SockOpen
  <2>3. QED
    BY <1>5, <2>1, <2>2 DEF SockOpen
<1>6. ASSUME NEW s \in Sock, SockClosed(s) PROVE TypeOK'
  <2>1. ready' \in [Sock -> {"none", "connecting", "open", "closing"}]
    BY <1>6 DEF SockClosed
  <2>2. hung' \in BOOLEAN
    BY <1>6 DEF SockClosed, Settle
  <2>3. state' \in WsState /\ timers' \in Nat
    BY <1>6 DEF SockClosed, AfterClose
  <2>4. waiting' \subseteq Sock /\ pingTimer' \in BOOLEAN /\ socket' \in Sock \cup {NoSock}
    BY <1>6 DEF SockClosed, Settle, StopPing
  <2>5. QED
    BY <1>6, <2>1, <2>2, <2>3, <2>4 DEF SockClosed
<1>7. CASE TimerFires
  <2>1. minting' \in [Starter -> Nat] /\ timers' \in Nat
    BY <1>7 DEF TimerFires
  <2>2. QED
    BY <1>7, <2>1 DEF TimerFires, history
<1>8. CASE UNCHANGED vars
  BY <1>8 DEF vars
<1>9. QED
  BY <1>1, <1>2, <1>3, <1>4, <1>5, <1>6, <1>7, <1>8 DEF Next

\* The type invariant.
THEOREM TypeCorrect == Spec => []TypeOK
<1>1. Init => TypeOK
  <2> SUFFICES ASSUME Init PROVE TypeOK
    OBVIOUS
  <2>1. minting \in [Starter -> Nat] /\ ready \in [Sock -> {"none", "connecting", "open", "closing"}]
    BY DEF Init
  <2>2. QED
    BY <2>1 DEF Init, TypeOK, WsState
<1>2. QED
  BY <1>1, TypeStep, PTL DEF Spec

-----------------------------------------------------------------------------
\* A client counts no attempt exactly when none is pending and no socket lives.
LEMMA NoAttempts ==
  ASSUME TypeOK
  PROVE  /\ Attempts \in Nat /\ Pending \in Nat
         /\ Attempts = 0 <=> (Pending = 0 /\ Alive = {})
<1>1. IsFiniteSet(Alive)
  BY FS_Subset, SockAssumption DEF Alive
<1>2. Cardinality(Alive) \in Nat /\ (Cardinality(Alive) = 0 <=> Alive = {})
  BY <1>1, FS_CardinalityType, FS_EmptySet
<1>3. minting["call"] \in Nat /\ minting["timer"] \in Nat /\ timers \in Nat
  BY DEF TypeOK, Starter
<1>4. QED
  BY <1>2, <1>3 DEF Attempts, Pending

\* One attempt at a time: at most one pending, or else one socket, which is
\* this.socket and whose readyState the state mirrors.
OneChain ==
  /\ Pending <= 1
  /\ Pending = 1 => Alive = {}
  /\ \A s \in Sock : ready[s] # "none" => socket = s
  /\ state = "open" => \E s \in Sock : ready[s] = "open"
  /\ \A s \in Sock : ready[s] = "open" => state = "open"
  /\ \A s \in Sock : ready[s] = "closing" => state = "closing"

\* The pings follow the state.
Pings == ~leaked /\ (pingTimer <=> state = "open")

\* After a close() that found no straggler, all that is left is a socket on its
\* way down, whose onclose knows it was asked for.
Down ==
  /\ explicitClose => wanted = "down"
  /\ ~straggled /\ wanted = "down" =>
       /\ Pending = 0
       /\ \A s \in Sock : ready[s] # "none" => ready[s] = "closing" /\ explicitClose

\* A promise waits for a connecting socket, and while nobody closed the client
\* in the middle of an attempt, the state is connecting meanwhile.
Promises ==
  /\ \A s \in waiting : ready[s] = "connecting"
  /\ ~straggled =>
       /\ ~hung
       /\ \A s \in Sock : ready[s] = "connecting" => state = "connecting"
       /\ minting["call"] + minting["timer"] > 0 => state = "connecting"

ChainInv == ~overlapped => OneChain /\ Pings /\ Down /\ Promises

\* connect() starts an attempt where none was.
LEMMA ConnectChain ==
  ASSUME TypeOK, ChainInv, Connect
  PROVE  ChainInv'
<1> SUFFICES ASSUME ~overlapped' PROVE (OneChain /\ Pings /\ Down /\ Promises)'
  BY DEF ChainInv
<1>1. ~overlapped /\ Attempts = 0
  <2>1. ~overlapped /\ ~(Attempts > 0)
    BY Zenon DEF Connect
  <2>2. QED
    BY <2>1, NoAttempts
<1>2. Pending = 0 /\ Alive = {}
  BY <1>1, NoAttempts
<1>3. \A s \in Sock : ready[s] = "none"
  BY <1>2 DEF Alive
<1>4. minting["call"] = 0 /\ minting["timer"] = 0 /\ timers = 0
  BY <1>2 DEF Pending, TypeOK, Starter
<1>5. minting'["call"] = 1 /\ minting'["timer"] = 0 /\ timers' = 0
  BY <1>4 DEF Connect, TypeOK, Starter
<1>6. Pending' = 1
  BY <1>5 DEF Pending
<1>7. OneChain /\ Pings /\ Down /\ Promises
  BY <1>1 DEF ChainInv
<1>8. state' = "connecting" /\ ready' = ready /\ Alive' = {}
  BY <1>2 DEF Connect, Alive
<1>9. OneChain'
  BY <1>3, <1>6, <1>8 DEF OneChain
<1>10. Pings'
  BY <1>3, <1>7, <1>8 DEF Connect, Pings, OneChain
<1>11. Down'
  BY <1>8 DEF Connect, Down
<1>12. Promises'
  BY <1>3, <1>7, <1>8 DEF Connect, Promises, TypeOK
<1>13. QED
  BY <1>9, <1>10, <1>11, <1>12

\* close() leaves a straggler only where it says so.
LEMMA CloseChain ==
  ASSUME TypeOK, ChainInv, Close
  PROVE  ChainInv'
<1> SUFFICES ASSUME ~overlapped' PROVE (OneChain /\ Pings /\ Down /\ Promises)'
  BY DEF ChainInv
<1>1. ~overlapped /\ OneChain /\ Pings /\ Down /\ Promises
  BY DEF Close, ChainInv
<1>2. Pending' = Pending
  BY DEF Close, Pending
<1>3. \A s \in Sock : ready'[s] = IF ready[s] = "open" THEN "closing" ELSE ready[s]
  <2>1. \A s \in Sock : ready[s] = "open" => socket = s
    BY <1>1 DEF OneChain
  <2>2. CASE socket # NoSock /\ ready[socket] = "open"
    <3>1. ready' = [ready EXCEPT ![socket] = "closing"] /\ socket \in Sock
      BY <2>2 DEF Close, TypeOK
    <3>2. QED
      BY <2>1, <2>2, <3>1 DEF TypeOK
  <2>3. CASE ~(socket # NoSock /\ ready[socket] = "open")
    <3>1. ready' = ready
      BY <2>3 DEF Close
    <3>2. \A s \in Sock : ready[s] # "open"
      BY <2>1, <2>3, SockAssumption
    <3>3. QED
      BY <3>1, <3>2
  <2>4. QED
    BY <2>2, <2>3
<1>4. Alive' = Alive
  BY <1>3 DEF Alive
<1>5. OneChain'
  BY <1>1, <1>2, <1>3, <1>4 DEF Close, OneChain
<1>6. Pings'
  BY <1>1 DEF Close, Pings
<1>7. ~straggled' => ~straggled /\ ~Straggler
  BY DEF Close, TypeOK
<1>8. ~straggled' => Pending = 0 /\ \A s \in Sock : ready[s] # "connecting"
  BY <1>7, NoAttempts DEF Straggler, Pending
<1>9. Down'
  BY <1>1, <1>2, <1>3, <1>8 DEF Close, Down, TypeOK
<1>10. ~straggled' => minting["call"] + minting["timer"] = 0
  BY <1>8 DEF Pending, TypeOK, Starter
<1>11. Promises'
  BY <1>1, <1>3, <1>7, <1>8, <1>10 DEF Close, Promises, TypeOK
<1>12. QED
  BY <1>5, <1>6, <1>9, <1>11

\* A rejected getToken() ends the attempt.
LEMMA MintFailsChain ==
  ASSUME TypeOK, ChainInv, NEW k \in Starter, MintFails(k)
  PROVE  ChainInv'
<1> SUFFICES ASSUME ~overlapped' PROVE (OneChain /\ Pings /\ Down /\ Promises)'
  BY DEF ChainInv
<1>1. ~overlapped /\ OneChain /\ Pings /\ Down /\ Promises
  BY DEF MintFails, ChainInv
<1>2. /\ minting'["call"] + minting'["timer"] = minting["call"] + minting["timer"] - 1
      /\ minting'["call"] \in Nat /\ minting'["timer"] \in Nat
  BY DEF MintFails, TypeOK, Starter
<1>3. Pending >= 1 /\ Pending' = Pending - 1
  BY <1>2 DEF MintFails, Pending, TypeOK, Starter
<1>4. Alive' = Alive
  BY DEF MintFails, Alive
<1>5. UNCHANGED <<state, socket, explicitClose, pingTimer, ready, timers, waiting, wanted,
                  straggled, leaked, hung>>
  BY DEF MintFails, fields
<1>6. OneChain'
  BY <1>1, <1>3, <1>4, <1>5, NoAttempts DEF OneChain
<1>7. Pings' /\ Down'
  BY <1>1, <1>3, <1>5, NoAttempts DEF Pings, Down
<1>8. Promises'
  BY <1>1, <1>2, <1>5 DEF Promises, TypeOK, Starter
<1>9. QED
  BY <1>6, <1>7, <1>8

\* A token turns the attempt into the only socket.
LEMMA MintOkChain ==
  ASSUME TypeOK, ChainInv, NEW k \in Starter, NEW s \in Sock, MintOk(k, s)
  PROVE  ChainInv'
<1> SUFFICES ASSUME ~overlapped' PROVE (OneChain /\ Pings /\ Down /\ Promises)'
  BY DEF ChainInv
<1>1. ~overlapped /\ OneChain /\ Pings /\ Down /\ Promises
  BY DEF MintOk, history, ChainInv
<1>2. /\ minting'["call"] + minting'["timer"] = minting["call"] + minting["timer"] - 1
      /\ minting'["call"] \in Nat /\ minting'["timer"] \in Nat
      /\ minting["call"] + minting["timer"] > 0
  BY DEF MintOk, TypeOK, Starter
<1>3. Pending >= 1 /\ Pending' = Pending - 1
  BY <1>2 DEF MintOk, Pending, TypeOK, Starter
<1>4. Pending = 1 /\ Pending' = 0 /\ Alive = {}
  BY <1>1, <1>3, NoAttempts DEF OneChain
<1>5. \A t \in Sock : ready[t] = "none"
  BY <1>4 DEF Alive
<1>6. /\ UNCHANGED <<state, explicitClose, pingTimer, timers, wanted, straggled, leaked, hung>>
      /\ socket' = s
      /\ ready' = [ready EXCEPT ![s] = "connecting"]
      /\ waiting' \in {waiting, waiting \cup {s}}
  BY DEF MintOk, history
<1>7. ready'[s] = "connecting" /\ \A t \in Sock \ {s} : ready'[t] = "none"
  BY <1>5, <1>6 DEF TypeOK
<1>8. state # "open"
  BY <1>1, <1>5 DEF OneChain
<1>9. OneChain'
  BY <1>4, <1>6, <1>7, <1>8 DEF OneChain
<1>10. Pings'
  BY <1>1, <1>6 DEF Pings
<1>11. Down'
  BY <1>1, <1>4, <1>6 DEF Down
<1>12. ~straggled => state = "connecting"
  BY <1>1, <1>2 DEF Promises
<1>13. waiting = {}
  BY <1>1, <1>5 DEF Promises, TypeOK
<1>14. Promises'
  BY <1>1, <1>6, <1>7, <1>12, <1>13 DEF Promises
<1>15. QED
  BY <1>9, <1>10, <1>11, <1>14

\* The only socket opens.
LEMMA SockOpenChain ==
  ASSUME TypeOK, ChainInv, NEW s \in Sock, SockOpen(s)
  PROVE  ChainInv'
<1> SUFFICES ASSUME ~overlapped' PROVE (OneChain /\ Pings /\ Down /\ Promises)'
  BY DEF ChainInv
<1>1. ~overlapped /\ OneChain /\ Pings /\ Down /\ Promises
  BY DEF SockOpen, ChainInv
<1>2. ready[s] = "connecting" /\ socket = s /\ Alive # {}
  BY <1>1 DEF SockOpen, OneChain, Alive
<1>3. \A t \in Sock \ {s} : ready[t] = "none"
  BY <1>1, <1>2 DEF OneChain
<1>4. ready'[s] = "open" /\ \A t \in Sock \ {s} : ready'[t] = "none"
  BY <1>3 DEF SockOpen, TypeOK
<1>5. Pending = 0 /\ Pending' = 0
  BY <1>1, <1>2, NoAttempts DEF OneChain, SockOpen, Pending
<1>6. OneChain'
  BY <1>2, <1>4, <1>5 DEF SockOpen, OneChain
<1>7. state # "open"
  BY <1>1, <1>2, <1>3 DEF OneChain
<1>8. Pings'
  BY <1>1, <1>7 DEF SockOpen, Pings
<1>9. straggled \/ wanted # "down"
  BY <1>1, <1>2 DEF Down
<1>10. Down'
  BY <1>1, <1>9 DEF SockOpen, Down
<1>11. minting'["call"] + minting'["timer"] = 0 /\ waiting' = {}
  <2>1. waiting' = {}
    BY <1>1, <1>2, <1>3 DEF SockOpen, Promises, TypeOK
  <2>2. minting["call"] + minting["timer"] = 0
    BY <1>5 DEF Pending, TypeOK, Starter
  <2>3. QED
    BY <2>1, <2>2 DEF SockOpen
<1>12. Promises'
  BY <1>1, <1>4, <1>11 DEF SockOpen, Promises
<1>13. QED
  BY <1>6, <1>8, <1>10, <1>12

\* The only socket closes, and becomes a timer unless that was asked for.
LEMMA SockClosedChain ==
  ASSUME TypeOK, ChainInv, NEW s \in Sock, SockClosed(s)
  PROVE  ChainInv'
<1> SUFFICES ASSUME ~overlapped' PROVE (OneChain /\ Pings /\ Down /\ Promises)'
  BY DEF ChainInv
<1> USE DEF SockClosed, StopPing, Settle, AfterClose
<1>1. ~overlapped /\ OneChain /\ Pings /\ Down /\ Promises
  BY DEF ChainInv
<1>2. ready[s] # "none" /\ socket = s /\ Alive # {}
  BY <1>1 DEF OneChain, Alive
<1>3. \A t \in Sock : ready'[t] = "none"
  BY <1>1, <1>2 DEF OneChain, TypeOK
<1>4. Alive' = {}
  BY <1>3 DEF Alive
<1>5. Pending = 0
  BY <1>1, <1>2, NoAttempts DEF OneChain
<1>6. minting["call"] = 0 /\ minting["timer"] = 0 /\ timers = 0
  BY <1>5 DEF Pending, TypeOK, Starter
<1>7. Pending' = IF explicitClose THEN 0 ELSE 1
  BY <1>6 DEF Pending
<1>8. OneChain'
  BY <1>3, <1>4, <1>7 DEF OneChain
<1>9. Pings'
  BY <1>1 DEF Pings
<1>10. Down'
  BY <1>1, <1>2, <1>3, <1>7 DEF Down
<1>11. waiting' = {}
  BY <1>1, <1>2 DEF OneChain, Promises, TypeOK
<1>12. Promises'
  <2>1. ~straggled => ~hung'
    BY <1>1, <1>2 DEF Promises
  <2>2. QED
    BY <2>1, <1>3, <1>6, <1>11 DEF Promises
<1>13. QED
  BY <1>8, <1>9, <1>10, <1>12

\* The timer becomes the pending attempt.
LEMMA TimerChain ==
  ASSUME TypeOK, ChainInv, TimerFires
  PROVE  ChainInv'
<1> SUFFICES ASSUME ~overlapped' PROVE (OneChain /\ Pings /\ Down /\ Promises)'
  BY DEF ChainInv
<1>1. ~overlapped /\ OneChain /\ Pings /\ Down /\ Promises
  BY DEF TimerFires, history, ChainInv
<1>2. /\ minting'["call"] + minting'["timer"] = minting["call"] + minting["timer"] + 1
      /\ timers' = timers - 1 /\ timers > 0
  BY DEF TimerFires, TypeOK, Starter
<1>3. Pending' = Pending /\ Pending = 1
  BY <1>1, <1>2, NoAttempts DEF Pending, OneChain, TypeOK, Starter
<1>4. \A s \in Sock : ready[s] = "none"
  BY <1>1, <1>3 DEF OneChain, Alive
<1>5. /\ UNCHANGED <<socket, explicitClose, pingTimer, ready, waiting, wanted, straggled, leaked, hung>>
      /\ state' = "connecting"
  BY DEF TimerFires, history
<1>6. Alive' = {}
  BY <1>4, <1>5 DEF Alive
<1>7. state # "open"
  BY <1>1, <1>4 DEF OneChain
<1>8. OneChain'
  BY <1>3, <1>4, <1>5, <1>6 DEF OneChain
<1>9. Pings'
  BY <1>1, <1>5, <1>7 DEF Pings
<1>10. Down'
  BY <1>1, <1>3, <1>4, <1>5 DEF Down
<1>11. Promises'
  BY <1>1, <1>4, <1>5 DEF Promises, TypeOK
<1>12. QED
  BY <1>8, <1>9, <1>10, <1>11

\* The inductive invariant of the chain of attempts.
THEOREM ChainInvariant == Spec => []ChainInv
<1>1. Init => ChainInv
  <2> SUFFICES ASSUME Init PROVE ChainInv
    OBVIOUS
  <2>1. Pending = 0 /\ minting["call"] + minting["timer"] = 0
    BY DEF Init, Pending, Starter
  <2>2. QED
    BY <2>1 DEF Init, ChainInv, OneChain, Pings, Down, Promises
<1>2. TypeOK /\ ChainInv /\ [Next]_vars => ChainInv'
  <2> SUFFICES ASSUME TypeOK, ChainInv, [Next]_vars PROVE ChainInv'
    OBVIOUS
  <2>1. CASE UNCHANGED vars
    BY <2>1 DEF vars, ChainInv, OneChain, Pings, Down, Promises, Pending, Alive
  <2>2. QED
    BY <2>1, ConnectChain, CloseChain, MintFailsChain, MintOkChain, SockOpenChain,
       SockClosedChain, TimerChain DEF Next
<1>3. QED
  BY <1>1, <1>2, TypeCorrect, PTL DEF Spec

-----------------------------------------------------------------------------
\* Reconnects never multiply attempts (ws.ts onclose, connectInternal).
THEOREM NeverTwoAttempts == Spec => []OneAttempt
<1>1. TypeOK /\ ChainInv => OneAttempt
  <2> SUFFICES ASSUME TypeOK, ChainInv, ~overlapped PROVE Attempts <= 1
    BY DEF OneAttempt, Regular
  <2>1. OneChain /\ Pending \in Nat
    BY NoAttempts DEF ChainInv
  <2>2. Attempts = Pending + Cardinality(Alive)
    BY DEF Attempts, Pending
  <2>3. CASE Alive = {}
    BY <2>1, <2>2, <2>3, FS_EmptySet DEF OneChain
  <2>4. CASE Alive # {}
    <3>1. PICK s \in Sock : Alive = {s}
      BY <2>1, <2>4 DEF OneChain, Alive
    <3>2. Cardinality(Alive) = 1
      BY <3>1, FS_Singleton
    <3>3. Pending = 0
      BY <2>1, <2>4 DEF OneChain
    <3>4. QED
      BY <2>2, <3>2, <3>3
  <2>5. QED
    BY <2>3, <2>4
<1>2. QED
  BY <1>1, TypeCorrect, ChainInvariant, PTL

\* A client that says it is open can send (ws.ts send).
THEOREM OpenMeansUsable == Spec => []OpenIsUsable
<1>1. TypeOK /\ ChainInv => OpenIsUsable
  BY SockAssumption DEF ChainInv, OneChain, OpenIsUsable, Regular
<1>2. QED
  BY <1>1, TypeCorrect, ChainInvariant, PTL

\* The pings live exactly as long as the open connection (ws.ts startPing).
THEOREM PingsFollowState == Spec => []PingsWhileOpen
<1>1. ChainInv => PingsWhileOpen
  BY DEF ChainInv, Pings, PingsWhileOpen, Regular
<1>2. QED
  BY <1>1, ChainInvariant, PTL

\* close() is final for a client without an attempt on its way (ws.ts close).
THEOREM ClosedForGood == Spec => []CloseIsFinal
<1>1. TypeOK /\ ChainInv => CloseIsFinal
  <2> SUFFICES ASSUME TypeOK, ChainInv, ~overlapped, ~straggled, wanted = "down"
               PROVE  ~Straggler /\ \A s \in Sock : ready[s] # "open"
    BY DEF CloseIsFinal, Regular
  <2>1. Pending = 0 /\ \A s \in Sock : ready[s] # "none" => ready[s] = "closing"
    BY DEF ChainInv, Down
  <2>2. ~Straggler
    BY <2>1 DEF Straggler, Pending
  <2>3. QED
    BY <2>1, <2>2
<1>2. QED
  BY <1>1, TypeCorrect, ChainInvariant, PTL

\* connect() is settled at the end of its attempt (ws.ts onerror).
THEOREM ConnectSettles == Spec => []NoHungConnect
<1>1. ChainInv => NoHungConnect
  BY DEF ChainInv, Promises, NoHungConnect, Regular
<1>2. QED
  BY <1>1, ChainInvariant, PTL

-----------------------------------------------------------------------------
\* What Reconnects needs of every state

\* The client the application wants open never runs out of attempts: until a
\* getToken() fails, one awaits its token, a timer waits to start one, or there
\* is a socket, whose onclose leaves a timer - even if attempts overlap and
\* close() is called in the middle of them (ws.ts onclose, connectInternal).
NeverAbandoned ==
  wanted = "up" /\ ~mintFailed => Pending > 0 \/ Alive # {}
WantedInv == NeverAbandoned /\ (wanted = "up" => ~explicitClose)

LEMMA WantedStep == ASSUME TypeOK, WantedInv, [Next]_vars PROVE WantedInv'
<1>1. /\ minting["call"] \in Nat /\ minting["timer"] \in Nat /\ timers \in Nat
      /\ minting \in [Starter -> Nat] /\ "call" \in Starter /\ "timer" \in Starter
  BY DEF TypeOK, Starter
<1>2. CASE Connect
  <2>1. minting'["call"] = minting["call"] + 1 /\ minting'["timer"] = minting["timer"] /\ timers' = timers
    BY <1>1, <1>2 DEF Connect
  <2> QED BY <1>1, <1>2, <2>1 DEF Connect, WantedInv, NeverAbandoned, Pending
<1>3. CASE Close
  BY <1>3 DEF Close, WantedInv, NeverAbandoned, Pending
<1>4. ASSUME NEW k \in Starter, MintFails(k) PROVE WantedInv'
  BY <1>4 DEF MintFails, fields, WantedInv, NeverAbandoned, Pending
<1>5. ASSUME NEW k \in Starter, NEW s \in Sock, MintOk(k, s) PROVE WantedInv'
  <2>1. s \in Alive'
    BY <1>5 DEF MintOk, Alive, TypeOK
  <2>2. UNCHANGED <<wanted, explicitClose, mintFailed>>
    BY <1>5 DEF MintOk, history
  <2> QED BY <2>1, <2>2 DEF WantedInv, NeverAbandoned, Pending
<1>6. ASSUME NEW s \in Sock, SockOpen(s) PROVE WantedInv'
  <2>1. s \in Alive'
    BY <1>6 DEF SockOpen, Alive, TypeOK
  <2> QED BY <1>6, <2>1 DEF SockOpen, WantedInv, NeverAbandoned, Pending
<1>7. ASSUME NEW s \in Sock, SockClosed(s) PROVE WantedInv'
  <2>1. UNCHANGED <<wanted, explicitClose, mintFailed, minting>>
    BY <1>7 DEF SockClosed
  <2>2. wanted = "up" => timers' = timers + 1
    BY <1>7 DEF SockClosed, AfterClose, WantedInv
  <2>3. wanted = "up" => Pending' > 0
    BY <1>1, <2>1, <2>2 DEF Pending
  <2> QED BY <2>1, <2>3 DEF WantedInv, NeverAbandoned, Pending
<1>8. CASE TimerFires
  <2>1. minting'["timer"] = minting["timer"] + 1 /\ minting'["call"] = minting["call"] /\ timers' \in Nat
    BY <1>1, <1>8 DEF TimerFires
  <2>2. UNCHANGED <<wanted, explicitClose, mintFailed>>
    BY <1>8 DEF TimerFires, history
  <2> QED BY <1>1, <2>1, <2>2 DEF WantedInv, NeverAbandoned, Pending
<1>9. CASE UNCHANGED vars
  <2>1. Alive' = Alive
    BY <1>9 DEF vars, Alive
  <2> QED BY <1>9, <2>1 DEF vars, WantedInv, NeverAbandoned, Pending
<1> QED BY <1>2, <1>3, <1>4, <1>5, <1>6, <1>7, <1>8, <1>9 DEF Next

\* In every reachable state of any number of sockets, timers and calls, a client
\* wanted open has a next step to take (connect(), onclose, the reconnect timer).
THEOREM WantedIsPursued == Spec => []NeverAbandoned
<1>1. Init => WantedInv
  BY DEF Init, WantedInv, NeverAbandoned, Pending
<1>2. WantedInv => NeverAbandoned
  BY DEF WantedInv
<1> QED BY <1>1, <1>2, WantedStep, TypeCorrect, PTL DEF Spec

-----------------------------------------------------------------------------
\* The typing manager, and what the peer sees of it.

\* Every step of the manager keeps the types.
LEMMA TypingTypes == ASSUME TypingTypeOK, [TypingNext]_typing PROVE TypingTypeOK'
<1> USE TimesAssumption DEF TypingTypeOK, State
<1>1. ASSUME NEW p \in Peer, StartTyping(p) PROVE TypingTypeOK'
  BY <1>1 DEF StartTyping, scheduleAutoStop, Started
<1>2. ASSUME NEW p \in Peer, KeepTyping(p) PROVE TypingTypeOK'
  BY <1>2 DEF KeepTyping, scheduleAutoStop, Started
<1>3. ASSUME NEW p \in Peer, StopTyping(p) PROVE TypingTypeOK'
  BY <1>3 DEF StopTyping, cancelAutoStop, Stopped
<1>4. ASSUME NEW p \in Peer, AutoStop(p) PROVE TypingTypeOK'
  BY <1>4 DEF AutoStop, cancelAutoStop, Stopped
<1>5. CASE Shutdown
  BY <1>5 DEF Shutdown
<1>6. CASE Tick
  <2>1. \A p \in Peer : since'[p] \in 0..StartedRefresh
    BY <1>6 DEF Tick, Later
  <2>2. \A p \in Peer : timer'[p] \in 0..AutoStoppedAfter \cup {NoTimer}
    BY <1>6 DEF Tick
  <2>3. QED
    BY <1>6, <2>1, <2>2 DEF Tick
<1>7. CASE UNCHANGED typing
  BY <1>7 DEF typing
<1>8. QED
  BY <1>1, <1>2, <1>3, <1>4, <1>5, <1>6, <1>7 DEF TypingNext

\* Every step of the manager keeps run, timer and signal together.
LEMMA EndsStep == ASSUME TypingTypeOK, IndicatorEnds, [TypingNext]_typing PROVE IndicatorEnds'
<1> USE TimesAssumption DEF TypingTypeOK, State, IndicatorEnds
<1>1. ASSUME NEW p \in Peer, StartTyping(p) PROVE IndicatorEnds'
  BY <1>1 DEF StartTyping, scheduleAutoStop, Started
<1>2. ASSUME NEW p \in Peer, KeepTyping(p) PROVE IndicatorEnds'
  BY <1>2 DEF KeepTyping, scheduleAutoStop, Started
<1>3. ASSUME NEW p \in Peer, StopTyping(p) PROVE IndicatorEnds'
  BY <1>3 DEF StopTyping, cancelAutoStop, Stopped
<1>4. ASSUME NEW p \in Peer, AutoStop(p) PROVE IndicatorEnds'
  BY <1>4 DEF AutoStop, cancelAutoStop, Stopped
<1>5. CASE Shutdown
  BY <1>5 DEF Shutdown
<1>6. CASE Tick
  <2>1. \A p \in Peer : timer'[p] = NoTimer <=> timer[p] = NoTimer
    BY <1>6 DEF Tick
  <2>2. QED
    BY <1>6, <2>1 DEF Tick
<1>7. CASE UNCHANGED typing
  BY <1>7 DEF typing
<1>8. QED
  BY <1>1, <1>2, <1>3, <1>4, <1>5, <1>6, <1>7 DEF TypingNext

\* Nothing is said, and no timer armed, at the start.
LEMMA TypingStarts == TypingInit => TypingTypeOK /\ IndicatorEnds
  BY TimesAssumption DEF TypingInit, TypingTypeOK, IndicatorEnds, State

\* The manager (setTyping, clearOnSend, the timer, shutdown): every run has a
\* timer that ends it, and what was said last is `started' just in a run, or
\* before a shutdown.
THEOREM EveryRunHasItsEnd == TypingSpec => [](TypingTypeOK /\ IndicatorEnds)
<1>1. TypingTypeOK /\ IndicatorEnds /\ [TypingNext]_typing => (TypingTypeOK /\ IndicatorEnds)'
  BY TypingTypes, EndsStep
<1>2. QED
  BY <1>1, TypingStarts, PTL DEF TypingSpec

-----------------------------------------------------------------------------
\* What went out last is what was said last, unless a signal was lost since.
Heard ==
  /\ shown \in [Peer -> {"stopped", "started"}] /\ missed \subseteq Peer
  /\ \A p \in Peer : p \in missed \/ shown[p] = said[p]

IndicatorInv == TypingTypeOK /\ IndicatorEnds /\ Heard

\* A step of the composition is a step of the manager, or leaves it alone.
LEMMA ManagerSteps == [IndicatorNext]_allVars => [TypingNext]_typing
  BY DEF IndicatorNext, allVars, indicator, typing, TypingNext, Keystroke, AnotherKeystroke,
         StopOrSend, Timeout, Disconnect

\* A signal that is emitted goes out or is missed.
LEMMA EmitStep ==
  ASSUME TypingTypeOK, TypingTypeOK', Heard, NEW p \in Peer, Emit(p),
         \A q \in Peer \ {p} : said'[q] = said[q]
  PROVE Heard'
<1>1. CASE state = "open"
  BY <1>1 DEF Heard, Emit, TypingTypeOK
<1>2. CASE state # "open"
  BY <1>2 DEF Heard, Emit, TypingTypeOK
<1>3. QED
  BY <1>1, <1>2

\* A step that emits nothing leaves what was said, and what was heard, alone.
LEMMA SilentStep == ASSUME Heard, Silent, said' = said PROVE Heard'
  BY DEF Heard, Silent

\* So every step of the composition keeps what the peer sees and what was said
\* last together, the lost signals apart.
LEMMA HeardStep ==
  ASSUME TypingTypeOK, TypingTypeOK', Heard, [IndicatorNext]_allVars PROVE Heard'
<1>1. ASSUME NEW p \in Peer, Keystroke(p) PROVE Heard'
  <2>1. \A q \in Peer \ {p} : said'[q] = said[q]
    BY <1>1 DEF Keystroke, StartTyping, Started, TypingTypeOK
  <2>2. QED
    BY <1>1, <2>1, EmitStep DEF Keystroke
<1>2. ASSUME NEW p \in Peer, AnotherKeystroke(p) PROVE Heard'
  <2>1. \A q \in Peer \ {p} : said'[q] = said[q]
    BY <1>2 DEF AnotherKeystroke, KeepTyping, Started, TypingTypeOK
  <2>2. CASE since[p] >= StartedRefresh
    BY <1>2, <2>1, <2>2, EmitStep DEF AnotherKeystroke
  <2>3. CASE ~(since[p] >= StartedRefresh)
    BY <1>2, <2>3, SilentStep DEF AnotherKeystroke, KeepTyping
  <2>4. QED
    BY <2>2, <2>3
<1>3. ASSUME NEW p \in Peer, StopOrSend(p) PROVE Heard'
  <2>1. \A q \in Peer \ {p} : said'[q] = said[q]
    BY <1>3 DEF StopOrSend, StopTyping, Stopped, TypingTypeOK
  <2>2. QED
    BY <1>3, <2>1, EmitStep DEF StopOrSend
<1>4. ASSUME NEW p \in Peer, Timeout(p) PROVE Heard'
  <2>1. \A q \in Peer \ {p} : said'[q] = said[q]
    BY <1>4 DEF Timeout, AutoStop, Stopped, TypingTypeOK
  <2>2. CASE isActive[p] = "active"
    BY <1>4, <2>1, <2>2, EmitStep DEF Timeout
  <2>3. CASE isActive[p] # "active"
    BY <1>4, <2>3, SilentStep DEF Timeout, AutoStop
  <2>4. QED
    BY <2>2, <2>3
<1>5. CASE Tick /\ Silent
  BY <1>5, SilentStep DEF Tick
<1>6. CASE Disconnect
  BY <1>6, SilentStep DEF Disconnect, Shutdown
<1>7. CASE UNCHANGED indicator
  BY <1>7, SilentStep DEF indicator, typing, Silent
<1>8. QED
  BY <1>1, <1>2, <1>3, <1>4, <1>5, <1>6, <1>7 DEF IndicatorNext, allVars

\* The composition of manager and client: whatever the connection does, a peer
\* sees `typing' only in a run, or after a signal found no open socket, or
\* after disconnect() (typing.ts, the ephemeral branch of sendContentInner()).
THEOREM ShownIndicatorEnds == IndicatorSpec => []ShownEnds
<1>1. IndicatorInit => IndicatorInv
  BY TypingStarts DEF IndicatorInit, IndicatorInv, Heard, TypingInit
<1>2. IndicatorInv /\ [IndicatorNext]_allVars => IndicatorInv'
  BY ManagerSteps, TypingTypes, EndsStep, HeardStep DEF IndicatorInv
<1>3. IndicatorInv => ShownEnds
  BY DEF IndicatorInv, Heard, IndicatorEnds, ShownEnds, TypingTypeOK
<1>4. QED
  BY <1>1, <1>2, <1>3, PTL DEF IndicatorSpec
=============================================================================
