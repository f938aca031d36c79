------------------------------- MODULE TabLock -------------------------------
(***************************************************************************)
(* Tab coordination (src/index.ts): the tabs of one user share a Web Lock, *)
(* and the tab that holds it is primary and runs the WebSocket.  A tab     *)
(* asks for the lock once when it boots, waits for it while it is          *)
(* secondary, and steals it in takeOver().                                 *)
(*                                                                         *)
(* Every request has a callback of its own, which activates the tab and    *)
(* then awaits its own lockHold; releaseHeldLock is one field, that the    *)
(* request made last has written.  The browser tells a tab in order what   *)
(* became of its requests, and each tab hears of it in its own time.       *)
(*                                                                         *)
(* Of the WebSocket client (module WsClient) is kept what activations      *)
(* await: the attempt a connect() began, through its reconnects.  A socket *)
(* that close() finds open is closed at once.                              *)
(***************************************************************************)
EXTENDS Naturals, Sequences

CONSTANTS
  Tab,          \* the tabs, or pages, of one user
  MaxTakeovers, \* bound: calls of takeOver(), in all tabs
  MaxFaults,    \* bound: failures of storage, HTTP and network
  NoReq         \* no request

ASSUME BoundsAssumption == MaxTakeovers \in Nat /\ MaxFaults \in Nat

\* A tab requests the lock when it boots, when it becomes secondary, and for
\* every takeover, which may make it secondary again.
Req == Tab \X (1..(2 + 2 * MaxTakeovers))

ASSUME NoReqAssumption == NoReq \notin Req

VARIABLES
  life,            \* what the application has of the tab's SDK
  primary,         \* tabs whose isPrimaryFlag is set
  releaseHeldLock, \* the request whose lockHold the field resolves
  asked,           \* how many requests the tab made
  phase,           \* how far a request's callback, or the bootstrap, is
  released,        \* requests whose lockHold is resolved
  state,           \* the state of the tab's WebSocket client
  explicitClose,   \* tabs whose close() was called after the last connect()
  conn,            \* the attempt the activation of a request began
  holder, queue,   \* the browser's lock, and the requests waiting for it;
                   \* those of a page that is gone are passed over
  inbox,           \* what the browser has told a tab and the tab not heard yet
  takeovers, faults, \* counted for the bounds
  \* history
  failed,          \* tabs an activation of which failed
  strayed          \* tabs demoted or disconnected with an attempt under way, or
                   \* activated after they were disconnected

tab == <<life, primary, releaseHeldLock, asked, phase, released>>
ws == <<state, explicitClose, conn>>
browser == <<holder, queue, inbox>>
history == <<failed, strayed>>
vars == <<tab, ws, browser, takeovers, faults, history>>

TypeOK ==
  /\ life \in [Tab -> {"new", "booting", "up", "failed", "left", "gone"}]
  /\ primary \subseteq Tab
  /\ releaseHeldLock \in [Tab -> Req \cup {NoReq}]
  /\ asked \in [Tab -> Nat]
  /\ phase \in [Req -> {"none", "asked", "preparing", "connecting", "hung", "holding", "over"}]
  /\ released \subseteq Req
  /\ state \in [Tab -> {"closed", "connecting", "open", "reconnecting"}]
  /\ explicitClose \subseteq Tab
  /\ conn \in [Req -> {"none", "trying", "open", "backoff"}]
  /\ holder \in Req \cup {NoReq}
  /\ queue \in Seq(Req)
  /\ inbox \in [Tab -> Seq({"granted", "seized", "busy", "stolen"} \X Req)]
  /\ takeovers \in Nat /\ faults \in Nat
  /\ failed \subseteq Tab /\ strayed \subseteq Tab

Init ==
  /\ life = [t \in Tab |-> "new"]
  /\ primary = Tab
  /\ releaseHeldLock = [t \in Tab |-> NoReq]
  /\ asked = [t \in Tab |-> 0]
  /\ phase = [r \in Req |-> "none"]
  /\ released = {}
  /\ state = [t \in Tab |-> "closed"]
  /\ explicitClose = {}
  /\ conn = [r \in Req |-> "none"]
  /\ holder = NoReq /\ queue = <<>>
  /\ inbox = [t \in Tab |-> <<>>]
  /\ takeovers = 0 /\ faults = 0
  /\ failed = {} /\ strayed = {}

Requests(t) == {r \in Req : r[1] = t}
Gone(r) == life[r[1]] = "gone"
Holds(t) == holder \in Requests(t)
Tell(box, t, what, r) == [box EXCEPT ![t] = Append(@, <<what, r>>)]

NextRequest(t) == <<t, asked[t] + 1>>

\* A request, whose lockHold is resolved through the field from now on.  There
\* is always one left.
Ask(t) ==
  /\ NextRequest(t) \in Req
  /\ asked' = [asked EXCEPT ![t] = @ + 1]
  /\ phase' = [phase EXCEPT ![NextRequest(t)] = "asked"]
  /\ releaseHeldLock' = [releaseHeldLock EXCEPT ![t] = NextRequest(t)]

\* Mutant: the tab asks, but the request is not queued.
ArmBackgroundLockWaitLost(t) == Ask(t) /\ UNCHANGED queue

armBackgroundLockWait(t) ==
  /\ Ask(t)
  /\ queue' = Append(queue, NextRequest(t))

-----------------------------------------------------------------------------
\* The WebSocket client.

Chains(t) == {r \in Requests(t) : conn[r] # "none"}
OpenChains(t) == {r \in Requests(t) : conn[r] = "open"}

\* Mutant: close() leaves the socket alone.
CloseWsNot(t) ==
  /\ explicitClose' = explicitClose \cup {t}
  /\ state' = [state EXCEPT ![t] = "closed"]
  /\ UNCHANGED conn

\* ws.close() closes this.socket if it is open.  Which one that is, is left
\* open where the client has several attempts.
CloseWs(t) ==
  /\ explicitClose' = explicitClose \cup {t}
  /\ state' = [state EXCEPT ![t] = "closed"]
  /\ \/ \E r \in OpenChains(t) : conn' = [conn EXCEPT ![r] = "none"]
     \/ /\ OpenChains(t) = {} \/ Chains(t) # OpenChains(t)
        /\ UNCHANGED conn

\* What may open a socket after a close().
UnderWay(t) ==
  \E r \in Requests(t) : phase[r] \in {"preparing", "connecting"} \/ conn[r] \in {"trying", "backoff"}
Stray(t) == strayed' = strayed \cup {t}

\* ws.connect() is a no-op on an open or connecting client.
ConnectIsNoOp(t) == state[t] \in {"open", "connecting"}

\* The activation of request r is done, or failed: what is left of it awaits
\* lockHold.  A bootstrap that fails leaves the flag and takes the SDK along.
Activated(r) ==
  /\ phase' = [phase EXCEPT ![r] = "holding"]
  /\ life' = IF r[2] = 1 /\ life[r[1]] = "booting" THEN [life EXCEPT ![r[1]] = "up"] ELSE life
  /\ UNCHANGED <<primary, failed>>

ActivationFailed(r) ==
  /\ phase' = [phase EXCEPT ![r] = "holding"]
  /\ IF r[2] = 1
     THEN life' = [life EXCEPT ![r[1]] = "failed"] /\ UNCHANGED primary
     ELSE primary' = primary \ {r[1]} /\ UNCHANGED life
  /\ failed' = failed \cup {r[1]}

Fault == faults < MaxFaults /\ faults' = faults + 1

WsOpens(r) ==
  /\ conn[r] = "trying"
  /\ conn' = [conn EXCEPT ![r] = "open"]
  /\ state' = [state EXCEPT ![r[1]] = "open"]
  /\ IF phase[r] = "connecting" THEN Activated(r) ELSE UNCHANGED <<phase, life, primary, failed>>
  /\ UNCHANGED <<releaseHeldLock, asked, released, explicitClose, browser, takeovers, faults, strayed>>

\* The end of a socket: for good after a close(), else the back-off begins.
ChainEnds(r) ==
  /\ conn' = [conn EXCEPT ![r] = IF r[1] \in explicitClose THEN "none" ELSE "backoff"]
  /\ state' = [state EXCEPT ![r[1]] = IF r[1] \in explicitClose THEN "closed" ELSE "reconnecting"]

\* connect() is rejected only by a client that is still connecting, and never
\* settled otherwise.
WsFails(r) ==
  /\ conn[r] = "trying"
  /\ Fault
  /\ ChainEnds(r)
  /\ IF phase[r] # "connecting" THEN UNCHANGED <<phase, life, primary, failed>>
     ELSE IF state[r[1]] = "connecting" THEN ActivationFailed(r)
     ELSE phase' = [phase EXCEPT ![r] = "hung"] /\ UNCHANGED <<life, primary, failed>>
  /\ UNCHANGED <<releaseHeldLock, asked, released, explicitClose, browser, takeovers, strayed>>

WsDrops(r) ==
  /\ conn[r] = "open"
  /\ Fault
  /\ ChainEnds(r)
  /\ UNCHANGED <<tab, explicitClose, browser, takeovers, history>>

TimerFires(r) ==
  /\ conn[r] = "backoff"
  /\ conn' = [conn EXCEPT ![r] = "trying"]
  /\ state' = [state EXCEPT ![r[1]] = "connecting"]
  /\ UNCHANGED <<tab, explicitClose, browser, takeovers, faults, history>>

-----------------------------------------------------------------------------
\* connect(), up to the request for the lock: only if it is available.
acquireLockOrWait(t) ==
  /\ life[t] = "new"
  /\ life' = [life EXCEPT ![t] = "booting"]
  /\ Ask(t)
  /\ IF holder = NoReq /\ \A i \in 1..Len(queue) : Gone(queue[i])
     THEN holder' = NextRequest(t) /\ inbox' = Tell(inbox, t, "granted", NextRequest(t))
     ELSE inbox' = Tell(inbox, t, "busy", NextRequest(t)) /\ UNCHANGED holder
  /\ UNCHANGED <<primary, released, ws, queue, takeovers, faults, history>>

\* takeOver() of a secondary: stealAndActivate().
takeOver(t) ==
  /\ life[t] = "up"
  /\ t \notin primary
  /\ takeovers < MaxTakeovers
  /\ takeovers' = takeovers + 1
  /\ Ask(t)
  /\ holder' = NextRequest(t)
  /\ LET told == IF holder = NoReq THEN inbox ELSE Tell(inbox, holder[1], "stolen", holder)
     IN  inbox' = Tell(told, t, "seized", NextRequest(t))
  /\ UNCHANGED <<life, primary, released, ws, queue, faults, failed, strayed>>

disconnect(t) ==
  /\ life[t] = "up"
  /\ life' = [life EXCEPT ![t] = "left"]
  /\ CloseWs(t)
  /\ IF UnderWay(t) THEN Stray(t) ELSE UNCHANGED strayed
  /\ released' = released \cup ({releaseHeldLock[t]} \ {NoReq})
  /\ releaseHeldLock' = [releaseHeldLock EXCEPT ![t] = NoReq]
  /\ UNCHANGED <<primary, asked, phase, browser, takeovers, faults, failed>>

\* The page is closed or reloaded: the browser drops all it asked for.
Unload(t) ==
  /\ life[t] \notin {"new", "gone"}
  /\ life' = [life EXCEPT ![t] = "gone"]
  /\ phase' = [r \in Req |-> IF r[1] = t THEN "over" ELSE phase[r]]
  /\ conn' = [r \in Req |-> IF r[1] = t THEN "none" ELSE conn[r]]
  /\ state' = [state EXCEPT ![t] = "closed"]
  /\ holder' = IF Holds(t) THEN NoReq ELSE holder
  /\ inbox' = [inbox EXCEPT ![t] = <<>>]
  /\ UNCHANGED <<queue, primary, releaseHeldLock, asked, released, explicitClose, takeovers, faults, history>>

-----------------------------------------------------------------------------
\* What a tab hears of its requests.

Hears(t, what, r) ==
  /\ inbox[t] # <<>>
  /\ Head(inbox[t]) = <<what, r>>
  /\ inbox' = [inbox EXCEPT ![t] = Tail(@)]

\* The boot request found the lock taken.
HearBusy(t, r) ==
  /\ Hears(t, "busy", r)
  /\ life' = [life EXCEPT ![t] = "up"]
  /\ primary' = primary \ {t}
  /\ armBackgroundLockWait(t)
  /\ UNCHANGED <<released, ws, holder, takeovers, faults, history>>

\* The lock is granted: a tab that is primary by now only holds it.
HearGranted(t, r) ==
  /\ Hears(t, "granted", r)
  /\ phase' = [phase EXCEPT ![r] = IF t \in primary /\ r[2] # 1 THEN "holding" ELSE "preparing"]
  /\ primary' = primary \cup {t}
  /\ IF life[t] = "left" THEN Stray(t) ELSE UNCHANGED strayed
  /\ UNCHANGED <<life, releaseHeldLock, asked, released, ws, holder, queue, takeovers, faults, failed>>

HearSeized(t, r) ==
  /\ Hears(t, "seized", r)
  /\ phase' = [phase EXCEPT ![r] = "preparing"]
  /\ primary' = primary \cup {t}
  /\ IF life[t] = "left" THEN Stray(t) ELSE UNCHANGED strayed
  /\ UNCHANGED <<life, releaseHeldLock, asked, released, ws, holder, queue, takeovers, faults, failed>>

\* Mutant: the flag survives the demotion.
DemoteFlagKept(t) ==
  /\ CloseWs(t)
  /\ armBackgroundLockWait(t)
  /\ IF UnderWay(t) THEN Stray(t) ELSE UNCHANGED strayed
  /\ UNCHANGED primary

demoteFromPrimary(t) ==
  /\ primary' = primary \ {t}
  /\ CloseWs(t)
  /\ armBackgroundLockWait(t)
  /\ IF UnderWay(t) THEN Stray(t) ELSE UNCHANGED strayed

\* The lock was stolen: the request is rejected, its callback goes on.
HearStolen(t, r) ==
  /\ Hears(t, "stolen", r)
  /\ IF t \in primary THEN demoteFromPrimary(t)
     ELSE UNCHANGED <<primary, asked, phase, releaseHeldLock, queue, ws, strayed>>
  /\ UNCHANGED <<life, released, holder, takeovers, faults, failed>>

Hear(t) ==
  \E r \in Requests(t) : HearBusy(t, r) \/ HearGranted(t, r) \/ HearSeized(t, r) \/ HearStolen(t, r)

\* activatePrimary() past storage and the key bundle: ws.connect().
Prepared(r) ==
  /\ phase[r] = "preparing"
  /\ IF ConnectIsNoOp(r[1])
     THEN Activated(r) /\ UNCHANGED ws
     ELSE /\ phase' = [phase EXCEPT ![r] = "connecting"]
          /\ conn' = [conn EXCEPT ![r] = "trying"]
          /\ state' = [state EXCEPT ![r[1]] = "connecting"]
          /\ explicitClose' = explicitClose \ {r[1]}
          /\ UNCHANGED <<life, primary, failed>>
  /\ UNCHANGED <<releaseHeldLock, asked, released, browser, takeovers, faults, strayed>>

PrepareFails(r) ==
  /\ phase[r] = "preparing"
  /\ Fault
  /\ ActivationFailed(r)
  /\ UNCHANGED <<releaseHeldLock, asked, released, ws, browser, takeovers, strayed>>

\* lockHold is resolved and the callback returns, which releases the lock if
\* it is still the one it was granted.
Return(r) ==
  /\ phase[r] = "holding"
  /\ r \in released
  /\ phase' = [phase EXCEPT ![r] = "over"]
  /\ holder' = IF holder = r THEN NoReq ELSE holder
  /\ UNCHANGED <<life, primary, releaseHeldLock, asked, released, ws, queue, inbox, takeovers, faults, history>>

\* The browser grants the lock to the request that waits longest.
Grant ==
  /\ holder = NoReq
  /\ \E i \in 1..Len(queue) :
       /\ ~Gone(queue[i]) /\ \A j \in 1..(i - 1) : Gone(queue[j])
       /\ holder' = queue[i]
       /\ queue' = SubSeq(queue, i + 1, Len(queue))
       /\ inbox' = Tell(inbox, queue[i][1], "granted", queue[i])
  /\ UNCHANGED <<tab, ws, takeovers, faults, history>>

Call(t) ==
  \/ acquireLockOrWait(t)
  \/ takeOver(t)
  \/ disconnect(t)
  \/ Unload(t)

Progress(r) ==
  \/ Prepared(r)
  \/ WsOpens(r)
  \/ TimerFires(r)
  \/ Return(r)

Trouble(r) ==
  \/ PrepareFails(r)
  \/ WsFails(r)
  \/ WsDrops(r)

Next ==
  \/ \E t \in Tab : Call(t) \/ Hear(t)
  \/ \E r \in Req : Progress(r) \/ Trouble(r)
  \/ Grant

Spec == Init /\ [][Next]_vars

\* The browser and the runtime do what they have begun; faults are bounded.
FairSpec ==
  /\ Spec
  /\ WF_vars(Grant)
  /\ \A t \in Tab : WF_vars(Hear(t))
  /\ \A r \in Req : WF_vars(Progress(r))

-----------------------------------------------------------------------------
HasHeard(t) == inbox[t] = <<>>
Robbed(t) == \E i \in 1..Len(inbox[t]) : inbox[t][i][1] = "stolen"

\* The role follows the lock: a tab in use that calls itself primary holds the
\* lock or has yet to hear that it was stolen, and one that holds the lock and
\* has heard so is primary, unless an activation of it failed (index.ts
\* isPrimaryFlag against the Web Lock).
RoleFollowsLock ==
  \A t \in Tab :
    life[t] = "up" =>
      /\ t \in primary => Holds(t) \/ Robbed(t)
      /\ Holds(t) /\ HasHeard(t) /\ t \notin failed => t \in primary

\* Only the tab that holds the lock runs a WebSocket, or one that has yet to
\* hear of its loss: no two tabs fight for the slot on the node.  Excepted are
\* tabs that closed their client while an activation or an attempt was under
\* way, tabs that were given the lock after they were disconnected, and tabs an
\* activation of which failed: their client goes on reconnecting (index.ts
\* demoteFromPrimary, disconnect).
OnlyHolderRuns ==
  \A t \in Tab \ (strayed \cup failed) : OpenChains(t) # {} => Holds(t) \/ Robbed(t)

\* A request that holds the lock for good: nobody can resolve its lockHold any
\* more, or its activation never ends.
Stuck(t) ==
  /\ life[t] \in {"left", "failed"}
  /\ holder \in Requests(t)
  /\ phase[holder] = "hung" \/ (phase[holder] = "holding" /\ holder \notin released)

\* A promotion that fails leaves a secondary that holds the lock; once it is
\* stolen from there, nothing arms another wait.
Queued(t) == \E i \in 1..Len(queue) : queue[i] \in Requests(t)
GaveUp(t) == t \in failed /\ HasHeard(t) /\ ~Queued(t)

\* A secondary does not wait for ever for a lock nobody uses: some tab in use
\* gets it, unless a tab that is out of use is stuck on it, or its own promotion
\* failed and it gave up (index.ts armBackgroundLockWait).
Secondary(t) == life[t] = "up" /\ t \notin primary
InUse == \E u \in Tab : life[u] = "up" /\ Holds(u)
Promotes ==
  \A t \in Tab : Secondary(t) ~> (~Secondary(t) \/ InUse \/ GaveUp(t) \/ \E u \in Tab : Stuck(u))
=============================================================================
