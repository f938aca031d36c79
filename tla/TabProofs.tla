------------------------------ MODULE TabProofs ------------------------------
(***************************************************************************)
(* Proofs about TabLock: the role of a tab follows the lock, and only the  *)
(* tab that holds it runs a socket, for any number of tabs, takeovers and  *)
(* faults.                                                                 *)
(***************************************************************************)
EXTENDS TabLock, SequenceTheorems, TLAPS

-----------------------------------------------------------------------------
\* Types

Message == {"granted", "seized", "busy", "stolen"} \X Req

\* Each request belongs to its tab, and NoReq to none.
LEMMA Names ==
  /\ \A r \in Req : r[1] \in Tab
  /\ \A t \in Tab : \A r \in Requests(t) : r \in Req /\ r[1] = t
  /\ \A t \in Tab : NextRequest(t) \in Req => NextRequest(t) \in Requests(t)
  /\ NoReq \notin Req
  BY NoReqAssumption DEF Req, Requests, NextRequest

\* What a tab is told joins its inbox.
LEMMA TellTypes ==
  ASSUME NEW box \in [Tab -> Seq(Message)], NEW t \in Tab, NEW r \in Req,
         NEW what \in {"granted", "seized", "busy", "stolen"}
  PROVE  /\ Tell(box, t, what, r) \in [Tab -> Seq(Message)]
         /\ \A u \in Tab : Tell(box, t, what, r)[u] = IF u = t THEN Append(box[t], <<what, r>>) ELSE box[u]
<1>1. <<what, r>> \in Message
  BY DEF Message
<1>2. Append(box[t], <<what, r>>) \in Seq(Message)
  BY <1>1
<1>3. QED
  BY <1>2 DEF Tell

\* Every step keeps the types.
LEMMA TypesStep == ASSUME TypeOK, [Next]_vars PROVE TypeOK'
<1>0. inbox \in [Tab -> Seq(Message)]
  BY DEF TypeOK, Message
<1>1. ASSUME inbox' \in [Tab -> Seq(Message)], queue' \in Seq(Req), holder' \in Req \cup {NoReq},
             life' \in [Tab -> {"new", "booting", "up", "failed", "left", "gone"}],
             primary' \subseteq Tab, releaseHeldLock' \in [Tab -> Req \cup {NoReq}],
             asked' \in [Tab -> Nat],
             phase' \in [Req -> {"none", "asked", "preparing", "connecting", "hung", "holding", "over"}],
             released' \subseteq Req, failed' \subseteq Tab, strayed' \subseteq Tab,
             takeovers' \in Nat, faults' \in Nat,
             state' \in [Tab -> {"closed", "connecting", "open", "reconnecting"}],
             explicitClose' \subseteq Tab,
             conn' \in [Req -> {"none", "trying", "open", "backoff"}]
      PROVE  TypeOK'
  BY <1>1 DEF TypeOK, Message
<1>2. ASSUME NEW t \in Tab, Ask(t)
      PROVE  /\ asked' \in [Tab -> Nat] /\ releaseHeldLock' \in [Tab -> Req \cup {NoReq}]
             /\ phase' \in [Req -> {"none", "asked", "preparing", "connecting", "hung", "holding", "over"}]
  BY <1>2 DEF Ask, TypeOK
<1>3. ASSUME NEW t \in Tab, CloseWs(t)
      PROVE  /\ explicitClose' \subseteq Tab
             /\ state' \in [Tab -> {"closed", "connecting", "open", "reconnecting"}]
             /\ conn' \in [Req -> {"none", "trying", "open", "backoff"}]
  BY <1>3 DEF CloseWs, TypeOK, OpenChains, Requests
<1>4. ASSUME NEW t \in Tab, armBackgroundLockWait(t) PROVE queue' \in Seq(Req) /\ Ask(t)
  BY <1>4 DEF armBackgroundLockWait, Ask, TypeOK
<1>5. ASSUME NEW t \in Tab, acquireLockOrWait(t) PROVE TypeOK'
  <2>1. NextRequest(t) \in Req /\ Ask(t)
    BY <1>5 DEF acquireLockOrWait, Ask
  <2>2. inbox' \in [Tab -> Seq(Message)] /\ holder' \in Req \cup {NoReq}
    <3>1. \A what \in {"granted", "busy"} :
            Tell(inbox, t, what, NextRequest(t)) \in [Tab -> Seq(Message)]
      BY <1>0, <2>1, TellTypes
    <3>2. \/ holder' = NextRequest(t) /\ inbox' = Tell(inbox, t, "granted", NextRequest(t))
          \/ holder' = holder /\ inbox' = Tell(inbox, t, "busy", NextRequest(t))
      BY <1>5 DEF acquireLockOrWait
    <3>3. holder \in Req \cup {NoReq}
      BY DEF TypeOK
    <3>4. QED
      BY <2>1, <3>1, <3>2, <3>3
  <2>3. QED
    BY <1>1, <1>2, <1>5, <2>1, <2>2 DEF acquireLockOrWait, TypeOK, ws, history
<1>6. ASSUME NEW t \in Tab, takeOver(t) PROVE TypeOK'
  <2>1. NextRequest(t) \in Req /\ Ask(t)
    BY <1>6 DEF takeOver, Ask
  <2> DEFINE told == IF holder = NoReq THEN inbox ELSE Tell(inbox, holder[1], "stolen", holder)
  <2>2. told \in [Tab -> Seq(Message)]
    BY <1>0, Names, TellTypes DEF TypeOK
  <2>3. inbox' = Tell(told, t, "seized", NextRequest(t))
    BY <1>6 DEF takeOver
  <2> HIDE DEF told
  <2>4. inbox' \in [Tab -> Seq(Message)]
    BY <2>1, <2>2, <2>3, TellTypes
  <2>5. QED
    BY <1>1, <1>2, <1>6, <2>1, <2>4 DEF takeOver, TypeOK, ws
<1>7. ASSUME NEW t \in Tab, disconnect(t) PROVE TypeOK'
  <2>1. releaseHeldLock' \in [Tab -> Req \cup {NoReq}] /\ released' \subseteq Req
    BY <1>7 DEF disconnect, TypeOK
  <2>2. strayed' \subseteq Tab
    BY <1>7 DEF disconnect, TypeOK, Stray
  <2>3. QED
    BY <1>0, <1>1, <1>3, <1>7, <2>1, <2>2 DEF disconnect, TypeOK, browser
<1>8. ASSUME NEW t \in Tab, Unload(t) PROVE TypeOK'
  <2>1. inbox' \in [Tab -> Seq(Message)] /\ holder' \in Req \cup {NoReq}
    BY <1>0, <1>8 DEF Unload, TypeOK
  <2>2. QED
    BY <1>1, <1>8, <2>1 DEF Unload, TypeOK, history
<1>9. ASSUME NEW t \in Tab, NEW what, NEW r, Hears(t, what, r) PROVE inbox' \in [Tab -> Seq(Message)]
  BY <1>0, <1>9 DEF Hears
<1>10. ASSUME NEW t \in Tab, NEW r \in Requests(t), HearBusy(t, r) PROVE TypeOK'
  BY <1>1, <1>2, <1>4, <1>9, <1>10 DEF HearBusy, TypeOK, ws, history
<1>11. ASSUME NEW t \in Tab, NEW r \in Requests(t), HearGranted(t, r) \/ HearSeized(t, r) PROVE TypeOK'
  <2>1. strayed' \subseteq Tab /\ primary' \subseteq Tab
    BY <1>11 DEF HearGranted, HearSeized, Stray, TypeOK
  <2>2. phase' \in [Req -> {"none", "asked", "preparing", "connecting", "hung", "holding", "over"}]
    BY <1>11 DEF HearGranted, HearSeized, TypeOK
  <2>3. inbox' \in [Tab -> Seq(Message)]
    BY <1>9, <1>11 DEF HearGranted, HearSeized
  <2>4. UNCHANGED <<life, releaseHeldLock, asked, released, ws, holder, queue, takeovers, faults, failed>>
    BY <1>11 DEF HearGranted, HearSeized
  <2>5. QED
    BY <1>1, <2>1, <2>2, <2>3, <2>4 DEF TypeOK, ws
<1>12. ASSUME NEW t \in Tab, NEW r \in Requests(t), HearStolen(t, r) PROVE TypeOK'
  <2>1. CASE t \in primary
    <3>1. strayed' \subseteq Tab
      BY <1>12, <2>1 DEF HearStolen, demoteFromPrimary, Stray, TypeOK
    <3>2. QED
      BY <1>1, <1>2, <1>3, <1>4, <1>9, <1>12, <2>1, <3>1 DEF HearStolen, demoteFromPrimary, TypeOK
  <2>2. CASE t \notin primary
    BY <1>1, <1>9, <1>12, <2>2 DEF HearStolen, TypeOK, ws
  <2>3. QED
    BY <2>1, <2>2
<1>13. ASSUME NEW r \in Req, Activated(r) \/ ActivationFailed(r)
       PROVE  /\ life' \in [Tab -> {"new", "booting", "up", "failed", "left", "gone"}]
              /\ primary' \subseteq Tab /\ failed' \subseteq Tab
              /\ phase' \in [Req -> {"none", "asked", "preparing", "connecting", "hung", "holding", "over"}]
  <2>1. r[1] \in Tab
    BY Names
  <2>2. phase' \in [Req -> {"none", "asked", "preparing", "connecting", "hung", "holding", "over"}]
    BY <1>13 DEF Activated, ActivationFailed, TypeOK
  <2>3. life' \in [Tab -> {"new", "booting", "up", "failed", "left", "gone"}]
    <3>1. \/ life' = life \/ life' = [life EXCEPT ![r[1]] = "up"]
          \/ life' = [life EXCEPT ![r[1]] = "failed"]
      BY <1>13 DEF Activated, ActivationFailed
    <3>2. life \in [Tab -> {"new", "booting", "up", "failed", "left", "gone"}]
      BY DEF TypeOK
    <3>3. QED
      BY <2>1, <3>1, <3>2
  <2>4. primary' \subseteq Tab /\ failed' \subseteq Tab
    BY <1>13, <2>1 DEF Activated, ActivationFailed, TypeOK
  <2>5. QED
    BY <2>2, <2>3, <2>4
<1>14. ASSUME NEW r \in Req, ChainEnds(r)
       PROVE  /\ state' \in [Tab -> {"closed", "connecting", "open", "reconnecting"}]
              /\ conn' \in [Req -> {"none", "trying", "open", "backoff"}]
  BY <1>14 DEF ChainEnds, TypeOK
<1>15. ASSUME Fault PROVE faults' \in Nat
  BY <1>15 DEF Fault, TypeOK
<1>16. ASSUME NEW r \in Req, Prepared(r) PROVE TypeOK'
  <2>1. CASE ConnectIsNoOp(r[1])
    BY <1>0, <1>1, <1>13, <1>16, <2>1 DEF Prepared, TypeOK, ws, browser
  <2>2. CASE ~ConnectIsNoOp(r[1])
    BY <1>0, <1>1, <1>16, <2>2 DEF Prepared, TypeOK, browser
  <2>3. QED
    BY <2>1, <2>2
<1>17. ASSUME NEW r \in Req, WsOpens(r) PROVE TypeOK'
  <2>1. CASE phase[r] = "connecting"
    BY <1>0, <1>1, <1>13, <1>17, <2>1 DEF WsOpens, TypeOK, browser
  <2>2. CASE phase[r] # "connecting"
    BY <1>0, <1>1, <1>17, <2>2 DEF WsOpens, TypeOK, browser
  <2>3. QED
    BY <2>1, <2>2
<1>18. ASSUME NEW r \in Req, TimerFires(r) \/ WsDrops(r) PROVE TypeOK'
  BY <1>0, <1>1, <1>14, <1>15, <1>18 DEF TimerFires, WsDrops, TypeOK, tab, browser, history
<1>19. ASSUME NEW r \in Req, Return(r) PROVE TypeOK'
  BY <1>0, <1>1, <1>19 DEF Return, TypeOK, ws, history
<1>20. ASSUME NEW r \in Req, PrepareFails(r) PROVE TypeOK'
  BY <1>0, <1>1, <1>13, <1>15, <1>20 DEF PrepareFails, TypeOK, ws, browser
<1>21. ASSUME NEW r \in Req, WsFails(r) PROVE TypeOK'
  <2>1. CASE phase[r] # "connecting"
    BY <1>0, <1>1, <1>14, <1>15, <1>21, <2>1 DEF WsFails, TypeOK, browser
  <2>2. CASE phase[r] = "connecting" /\ state[r[1]] = "connecting"
    BY <1>0, <1>1, <1>13, <1>14, <1>15, <1>21, <2>2 DEF WsFails, TypeOK, browser
  <2>3. CASE phase[r] = "connecting" /\ state[r[1]] # "connecting"
    <3>1. phase' = [phase EXCEPT ![r] = "hung"] /\ UNCHANGED <<life, primary, failed>>
      BY <1>21, <2>3 DEF WsFails
    <3>2. phase' \in [Req -> {"none", "asked", "preparing", "connecting", "hung", "holding", "over"}]
      BY <3>1 DEF TypeOK
    <3>3. ChainEnds(r) /\ Fault /\ UNCHANGED <<releaseHeldLock, asked, released, explicitClose, browser, takeovers, strayed>>
      BY <1>21 DEF WsFails
    <3>4. QED
      BY <1>0, <1>1, <1>14, <1>15, <3>1, <3>2, <3>3 DEF TypeOK, browser
  <2>4. QED
    BY <2>1, <2>2, <2>3
<1>22. CASE Grant
  <2>1. PICK i \in 1..Len(queue) :
          /\ holder' = queue[i] /\ queue' = SubSeq(queue, i + 1, Len(queue))
          /\ inbox' = Tell(inbox, queue[i][1], "granted", queue[i])
    BY <1>22 DEF Grant
  <2>2. queue[i] \in Req /\ queue[i][1] \in Tab /\ queue' \in Seq(Req)
    BY <2>1, Names DEF TypeOK
  <2>3. inbox' \in [Tab -> Seq(Message)]
    BY <1>0, <2>1, <2>2, TellTypes
  <2>4. QED
    BY <1>1, <1>22, <2>1, <2>2, <2>3 DEF Grant, TypeOK, tab, ws, history
<1>23. CASE UNCHANGED vars
  BY <1>0, <1>1, <1>23 DEF TypeOK, vars, tab, ws, browser, history
<1>24. QED
  BY <1>5, <1>6, <1>7, <1>8, <1>10, <1>11, <1>12, <1>16, <1>17, <1>18, <1>19, <1>20, <1>21,
     <1>22, <1>23
  DEF Next, Call, Hear, Progress, Trouble

\* The types of the tabs, the lock and what the browser tells.
THEOREM TabTypes == Spec => []TypeOK
<1>1. Init => TypeOK
  BY DEF Init, TypeOK
<1>2. TypeOK /\ [Next]_vars => TypeOK'
  BY TypesStep
<1>3. QED
  BY <1>1, <1>2, PTL DEF Spec

-----------------------------------------------------------------------------
\* Talks between the browser and a tab

Acquired(m) == m[1] \in {"granted", "seized"}

\* What a tab in use is told goes back and forth between the lock and its loss.
Alternates(s) ==
  \A i, j \in 1..Len(s) : j = i + 1 => (Acquired(s[j]) <=> ~Acquired(s[i]))

\* The answers to the request a tab boots with, none of which is in s from k on.
Boots(m) == m[1] = "busy" \/ (Acquired(m) /\ m[2][2] = 1)
NoBoot(s, k) == \A i \in k..Len(s) : ~Boots(s[i])

\* The news s that tab t has yet to hear ends with how it is, where h holds the
\* lock; and what t has to believe before it hears them.
Talks(t, s, h) == Alternates(s) /\ (s # <<>> => (h \in Requests(t) <=> Acquired(s[Len(s)])))
Sees(t, s, h) == IF s = <<>> THEN h \in Requests(t) ELSE ~Acquired(s[1])

\* News that change who holds the lock go on with what was said before.
LEMMA Said ==
  ASSUME NEW t, NEW h, NEW g, NEW s \in Seq(Message), NEW m \in Message, Talks(t, s, h),
         h \in Requests(t) <=> ~Acquired(m), g \in Requests(t) <=> Acquired(m)
  PROVE  /\ Talks(t, Append(s, m), g) /\ Append(s, m) # <<>>
         /\ Sees(t, Append(s, m), g) <=> Sees(t, s, h)
         /\ s # <<>> => Append(s, m)[1] = s[1]
         /\ \A k \in {1, 2} : NoBoot(s, k) /\ ~Boots(m) => NoBoot(Append(s, m), k)
<1> DEFINE n == Append(s, m)
<1>1. /\ n # <<>> /\ Len(n) = Len(s) + 1 /\ Len(s) \in Nat /\ n[Len(s) + 1] = m
      /\ \A i \in 1..Len(s) : n[i] = s[i]
  OBVIOUS
<1>2. s # <<>> <=> Len(s) # 0
  OBVIOUS
<1> HIDE DEF n
<1>3. ASSUME NEW i \in 1..Len(n), NEW j \in 1..Len(n), j = i + 1
      PROVE  Acquired(n[j]) <=> ~Acquired(n[i])
  <2>1. CASE j \in 1..Len(s)
    BY <1>1, <1>3, <2>1 DEF Talks, Alternates
  <2>2. CASE j = Len(s) + 1
    BY <1>1, <1>2, <1>3, <2>2 DEF Talks
  <2>3. QED
    BY <1>1, <2>1, <2>2
<1>4. Talks(t, n, g)
  BY <1>1, <1>3 DEF Talks, Alternates
<1>5. ASSUME NEW k \in {1, 2}, NoBoot(s, k), ~Boots(m) PROVE NoBoot(n, k)
  <2>1. \A i \in k..Len(n) : i \in k..Len(s) \/ i = Len(s) + 1
    BY <1>1
  <2>2. \A i \in k..Len(s) : i \in 1..Len(s)
    BY <1>1
  <2>3. QED
    BY <1>1, <1>5, <2>1, <2>2 DEF NoBoot
<1>6. n[1] = IF s = <<>> THEN m ELSE s[1]
  BY <1>1, <1>2
<1>7. QED
  BY <1>1, <1>4, <1>5, <1>6 DEF n, Sees

\* A tab that hears the first news believes them until it hears the next.
LEMMA Heard ==
  ASSUME NEW t, NEW h, NEW s \in Seq(Message), s # <<>>, Talks(t, s, h)
  PROVE  /\ Talks(t, Tail(s), h)
         /\ Sees(t, Tail(s), h) <=> Acquired(s[1])
         /\ Head(s) = s[1] /\ s[1] \in Message
         /\ NoBoot(s, 2) => NoBoot(Tail(s), 1)
         /\ NoBoot(s, 1) => NoBoot(s, 2) /\ ~Boots(s[1])
<1> DEFINE n == Tail(s)
<1>1. /\ Len(s) \in Nat \ {0} /\ Len(n) = Len(s) - 1 /\ Head(s) = s[1]
      /\ \A i \in 1..Len(n) : n[i] = s[i + 1]
      /\ n = <<>> <=> Len(s) = 1
  <2>1. n \in Seq(Message) /\ Len(s) \in Nat \ {0} /\ Len(n) = Len(s) - 1
    OBVIOUS
  <2>2. Head(s) = s[1] /\ \A i \in 1..Len(n) : n[i] = s[i + 1]
    OBVIOUS
  <2> HIDE DEF n
  <2>3. n = <<>> <=> Len(n) = 0
    BY <2>1, EmptySeq
  <2>4. Len(n) = 0 <=> Len(s) = 1
    BY <2>1
  <2>5. QED
    BY <2>1, <2>2, <2>3, <2>4
<1> HIDE DEF n
<1>2. \A i \in 1..Len(n) : i + 1 \in 1..Len(s) /\ i + 1 \in 2..Len(s)
  BY <1>1
<1>3. ASSUME NEW i \in 1..Len(n), NEW j \in 1..Len(n), j = i + 1
      PROVE  Acquired(n[j]) <=> ~Acquired(n[i])
  <2>1. i + 1 \in 1..Len(s) /\ j + 1 \in 1..Len(s) /\ j + 1 = (i + 1) + 1
    BY <1>2, <1>3
  <2>2. Acquired(s[j + 1]) <=> ~Acquired(s[i + 1])
    BY <2>1 DEF Talks, Alternates
  <2>3. QED
    BY <1>1, <2>2
<1>4. ASSUME n # <<>> PROVE n[1] = s[2] /\ n[Len(n)] = s[Len(s)] /\ (Acquired(s[2]) <=> ~Acquired(s[1]))
  <2>1. 1 \in 1..Len(s) /\ 2 \in 1..Len(s) /\ 1 \in 1..Len(n) /\ Len(n) \in 1..Len(n)
    BY <1>1, <1>4
  <2>2. n[1] = s[2] /\ n[Len(n)] = s[Len(s)]
    BY <1>1, <2>1
  <2>3. QED
    BY <2>1, <2>2 DEF Talks, Alternates
<1>5. Talks(t, n, h)
  BY <1>1, <1>3, <1>4 DEF Talks, Alternates
<1>6. Sees(t, n, h) <=> Acquired(s[1])
  BY <1>1, <1>4 DEF Talks, Sees
<1>7. NoBoot(s, 2) => NoBoot(n, 1)
  BY <1>1, <1>2 DEF NoBoot
<1>8. NoBoot(s, 1) => NoBoot(s, 2) /\ ~Boots(s[1])
  BY <1>1 DEF NoBoot
<1>9. QED
  BY <1>1, <1>5, <1>6, <1>7, <1>8 DEF n

-----------------------------------------------------------------------------
\* The role of a tab

Boot(t) == <<t, 1>>
Live(t) == life[t] \in {"booting", "up"}
Unheard(t) == life[t] = "booting" /\ phase[Boot(t)] = "asked"
Preparing(r) == phase[r] \in {"preparing", "connecting"}
Waiting == {queue[i] : i \in 1..Len(queue)}

\* A tab that has not heard what became of its boot request waits for nothing
\* else.
AtBoot(t) ==
  /\ inbox[t] # <<>> /\ Boots(inbox[t][1]) /\ NoBoot(inbox[t], 2)
  /\ inbox[t][1][1] = "busy" => Len(inbox[t]) = 1
  /\ Requests(t) \cap Waiting = {}

\* Later its role is what it has to believe, unless an activation failed.
InRole(t) ==
  /\ NoBoot(inbox[t], 1)
  /\ t \in primary => Sees(t, inbox[t], holder)
  /\ t \notin primary /\ t \notin failed => ~Sees(t, inbox[t], holder)

\* A page that is not there yet, or no more, has no part in the lock, and the
\* requests of a tab are resolved when it is left.
Begun(t) ==
  /\ life[t] \in {"new", "gone"} => ~Holds(t) /\ inbox[t] = <<>>
  /\ life[t] = "new" => asked[t] = 0 /\ Requests(t) \cap Waiting = {}
  /\ life[t] # "new" => asked[t] >= 1
  /\ Boot(t) \notin Waiting
  /\ Preparing(Boot(t)) => life[t] = "booting"
  /\ Requests(t) \cap released # {} => life[t] \in {"left", "gone"}
  /\ releaseHeldLock[t] \in Requests(t) \cup {NoReq}

Told(t) ==
  /\ Begun(t)
  /\ Live(t) => Talks(t, inbox[t], holder)
  /\ Unheard(t) => AtBoot(t)
  /\ ~Unheard(t) => NoBoot(inbox[t], 1)
  /\ Live(t) /\ ~Unheard(t) => InRole(t)

RoleInv == \A t \in Tab : Told(t)

\* What of a tab is or may become a socket.
Attempts(t) == {r \in Requests(t) : Preparing(r)} \cup Chains(t)

\* A tab that is not excepted has one attempt at most, and only as a primary.
Runs(t) ==
  /\ life[t] = "failed" => t \in failed
  /\ t \notin strayed /\ t \notin failed =>
       /\ \A r, s \in Attempts(t) : r = s
       /\ Attempts(t) # {} => Live(t) /\ ~Unheard(t) /\ t \in primary

RunsInv == \A t \in Tab : Runs(t)

-----------------------------------------------------------------------------
\* Steps that leave a tab alone

\* Nothing of a tab changes but that its boot may come to an end.
Same(t) ==
  /\ inbox'[t] = inbox[t]
  /\ holder' \in Requests(t) <=> holder \in Requests(t)
  /\ asked'[t] = asked[t] /\ releaseHeldLock'[t] = releaseHeldLock[t]
  /\ phase'[Boot(t)] = "asked" <=> phase[Boot(t)] = "asked"
  /\ Preparing(Boot(t))' => Preparing(Boot(t))
  /\ t \in primary' <=> t \in primary
  /\ failed \subseteq failed'
  /\ Requests(t) \cap Waiting' \subseteq Waiting
  /\ Requests(t) \cap released' \subseteq released
  /\ \/ life'[t] = life[t]
     \/ life[t] = "booting" /\ ~Unheard(t) /\ life'[t] = "up" /\ ~Preparing(Boot(t))'

\* Such a tab still has the role it is told.
LEMMA ToldSame == ASSUME NEW t \in Tab, Told(t), Same(t) PROVE Told(t)'
<1>1. Unheard(t)' <=> Unheard(t)
  BY DEF Same, Unheard
<1>2. Live(t)' <=> Live(t)
  BY DEF Same, Live
<1>3. Begun(t)'
  <2>1. Begun(t)
    BY DEF Told
  <2>2. holder' \in Requests(t) => holder \in Requests(t)
    BY DEF Same
  <2>3. (Boot(t) \in Requests(t) /\ Boot(t) \in Waiting') => Boot(t) \in Waiting
    BY DEF Same
  <2>4. Boot(t) \in Requests(t)
    BY BoundsAssumption DEF Boot, Requests, Req
  <2>5. (life[t] \in {"new", "gone"} => ~Holds(t) /\ inbox[t] = <<>>)'
    BY <2>1, <2>2 DEF Begun, Same, Holds
  <2>6. (life[t] = "new" => asked[t] = 0 /\ Requests(t) \cap Waiting = {})'
    BY <2>1 DEF Begun, Same
  <2>7. (life[t] # "new" => asked[t] >= 1)' /\ (Boot(t) \notin Waiting)'
    BY <2>1, <2>3, <2>4 DEF Begun, Same
  <2>8. (Preparing(Boot(t)) => life[t] = "booting")'
    BY <2>1 DEF Begun, Same
  <2>9. (Requests(t) \cap released # {} => life[t] \in {"left", "gone"})'
    BY <2>1 DEF Begun, Same
  <2>10. (releaseHeldLock[t] \in Requests(t) \cup {NoReq})'
    BY <2>1 DEF Begun, Same
  <2>11. QED
    BY <2>5, <2>6, <2>7, <2>8, <2>9, <2>10 DEF Begun
<1>4. (Live(t) => Talks(t, inbox[t], holder))'
  BY <1>2 DEF Told, Same, Talks
<1>5. (Unheard(t) => AtBoot(t))'
  BY <1>1 DEF Told, Same, AtBoot
<1>6. (~Unheard(t) => NoBoot(inbox[t], 1))'
  BY <1>1 DEF Told, Same
<1>7. (Live(t) /\ ~Unheard(t) => InRole(t))'
  <2>1. Sees(t, inbox'[t], holder') <=> Sees(t, inbox[t], holder)
    BY DEF Same, Sees
  <2>2. QED
    BY <1>1, <1>2, <2>1 DEF Told, Same, InRole
<1>8. QED
  BY <1>3, <1>4, <1>5, <1>6, <1>7 DEF Told

\* So does one whose boot failed.
LEMMA ToldFailed ==
  ASSUME NEW t \in Tab, Told(t), life[t] = "booting", ~Unheard(t), life'[t] = "failed",
         inbox'[t] = inbox[t], asked'[t] = asked[t], releaseHeldLock'[t] = releaseHeldLock[t],
         ~Preparing(Boot(t))', Waiting' = Waiting, released' = released
  PROVE  Told(t)'
  BY DEF Told, Begun, Live, Unheard

-----------------------------------------------------------------------------
\* Steps of the lock

\* What the queue gains and loses.
LEMMA WaitingTypes ==
  ASSUME TypeOK
  PROVE  /\ Waiting \subseteq Req
         /\ queue' = queue => Waiting' = Waiting
         /\ \A r \in Req : queue' = Append(queue, r) => Waiting' = Waiting \cup {r}
         /\ \A i \in 1..Len(queue) : queue' = SubSeq(queue, i + 1, Len(queue)) => Waiting' \subseteq Waiting
<1>1. queue \in Seq(Req)
  BY DEF TypeOK
<1>2. ASSUME NEW r \in Req, queue' = Append(queue, r) PROVE Waiting' = Waiting \cup {r}
  <2>1. /\ Len(queue') = Len(queue) + 1 /\ queue'[Len(queue) + 1] = r
        /\ \A i \in 1..Len(queue) : queue'[i] = queue[i]
        /\ Len(queue) \in Nat
    BY <1>1, <1>2
  <2>2. 1..Len(queue') = 1..Len(queue) \cup {Len(queue) + 1}
    BY <2>1
  <2>3. QED
    BY <2>1, <2>2 DEF Waiting
<1>3. ASSUME NEW i \in 1..Len(queue), queue' = SubSeq(queue, i + 1, Len(queue))
      PROVE  Waiting' \subseteq Waiting
  <2>1. \A j \in 1..Len(queue') : queue'[j] = queue[i + j] /\ i + j \in 1..Len(queue)
    BY <1>1, <1>3
  <2>2. QED
    BY <2>1 DEF Waiting
<1>4. Waiting \subseteq Req /\ (queue' = queue => Waiting' = Waiting)
  BY <1>1 DEF Waiting
<1>5. QED
  BY <1>2, <1>3, <1>4

\* Requests of another tab, and the request a tab asks next.
LEMMA Apart ==
  ASSUME NEW t \in Tab, TypeOK
  PROVE  /\ \A u \in Tab : u # t => Requests(u) \cap Requests(t) = {}
         /\ \A u \in Tab : Boot(u) \in Requests(u)
         /\ \A r \in Requests(t) : r[2] = 1 <=> r = Boot(t)
         /\ asked[t] = 0 => NextRequest(t) = Boot(t)
         /\ asked[t] >= 1 => NextRequest(t) # Boot(t) /\ NextRequest(t)[2] # 1
         /\ asked[t] \in Nat
<1>1. \A r \in Requests(t) : r = <<r[1], r[2]>> /\ r[1] = t
  BY DEF Requests, Req
<1>2. \A u \in Tab : Boot(u) \in Requests(u)
  BY BoundsAssumption DEF Boot, Requests, Req
<1>3. asked[t] \in Nat
  BY DEF TypeOK
<1>4. \A u \in Tab : u # t => Requests(u) \cap Requests(t) = {}
  BY DEF Requests
<1>5. \A r \in Requests(t) : r[2] = 1 <=> r = Boot(t)
  BY <1>1 DEF Boot
<1>6. QED
  BY <1>2, <1>3, <1>4, <1>5 DEF NextRequest, Boot

\* Asking leaves the other tabs alone, and the boot of the tab if it is over.
LEMMA Asks ==
  ASSUME NEW t \in Tab, TypeOK, Ask(t)
  PROVE  /\ NextRequest(t) \in Requests(t) /\ asked'[t] = asked[t] + 1
         /\ phase' = [phase EXCEPT ![NextRequest(t)] = "asked"]
         /\ releaseHeldLock'[t] \in Requests(t)
         /\ asked[t] >= 1 => phase'[Boot(t)] = phase[Boot(t)]
         /\ asked[t] = 0 => phase'[Boot(t)] = "asked"
         /\ \A u \in Tab \ {t} : asked'[u] = asked[u] /\ releaseHeldLock'[u] = releaseHeldLock[u]
                                 /\ phase'[Boot(u)] = phase[Boot(u)]
<1>1. NextRequest(t) \in Requests(t) /\ NextRequest(t) \in Req
  BY Names DEF Ask
<1>2. asked'[t] = asked[t] + 1 /\ releaseHeldLock'[t] = NextRequest(t)
  BY DEF Ask, TypeOK
<1>3. /\ phase' = [phase EXCEPT ![NextRequest(t)] = "asked"]
      /\ phase \in [Req -> {"none", "asked", "preparing", "connecting", "hung", "holding", "over"}]
  BY DEF Ask, TypeOK
<1>4. \A u \in Tab : Boot(u) \in Req /\ (u # t => Boot(u) # NextRequest(t))
  BY <1>1, Apart, Names
<1>5. ASSUME NEW u \in Tab \ {t} PROVE asked'[u] = asked[u] /\ releaseHeldLock'[u] = releaseHeldLock[u]
  BY DEF Ask, TypeOK
<1>6. QED
  BY <1>1, <1>2, <1>3, <1>4, <1>5, Apart

\* A page that connects: it is told whether the lock was free.
LEMMA RoleConnects ==
  ASSUME TypeOK, RoleInv, NEW t \in Tab, acquireLockOrWait(t)
  PROVE  RoleInv'
<1>1. Ask(t) /\ life[t] = "new" /\ life' = [life EXCEPT ![t] = "booting"]
  BY DEF acquireLockOrWait
<1>2. UNCHANGED <<primary, released, queue, failed>>
  BY DEF acquireLockOrWait, history
<1>3. Told(t) /\ Begun(t) /\ ~Holds(t) /\ inbox[t] = <<>> /\ asked[t] = 0 /\ Requests(t) \cap Waiting = {}
  BY <1>1 DEF RoleInv, Told, Begun
<1>4. NextRequest(t) = Boot(t) /\ Boot(t) \in Requests(t) /\ Boot(t) \in Req /\ phase'[Boot(t)] = "asked"
  BY <1>1, <1>3, Apart, Asks, Names
<1>5. PICK what \in {"granted", "busy"} :
        /\ inbox' = Tell(inbox, t, what, Boot(t))
        /\ what = "granted" => holder = NoReq /\ holder' = Boot(t)
        /\ what = "busy" => holder' = holder
  BY <1>4 DEF acquireLockOrWait
<1>6. /\ inbox'[t] = Append(<<>>, <<what, Boot(t)>>)
      /\ \A u \in Tab \ {t} : inbox'[u] = inbox[u]
  <2>1. inbox \in [Tab -> Seq(Message)]
    BY DEF TypeOK, Message
  <2>2. \A u \in Tab : inbox'[u] = IF u = t THEN Append(inbox[t], <<what, Boot(t)>>) ELSE inbox[u]
    BY <1>4, <1>5, <2>1 DEF Tell
  <2>3. QED
    BY <1>3, <2>2
<1>7. \A u \in Tab \ {t} : holder' \in Requests(u) <=> holder \in Requests(u)
  BY <1>4, <1>5, Apart, Names
<1>8. Waiting' = Waiting
  BY <1>2, WaitingTypes
<1>9. ASSUME NEW u \in Tab \ {t} PROVE Told(u)'
  <2>1. Same(u)
    <3>1. life'[u] = life[u]
      BY <1>1 DEF TypeOK
    <3>2. phase'[Boot(u)] = phase[Boot(u)] /\ asked'[u] = asked[u] /\ releaseHeldLock'[u] = releaseHeldLock[u]
      BY <1>1, Asks
    <3>3. QED
      BY <1>2, <1>6, <1>7, <1>8, <3>1, <3>2 DEF Same, Preparing
  <2>2. QED
    BY <2>1, ToldSame DEF RoleInv
<1>10. Told(t)'
  <2>1. life'[t] = "booting"
    BY <1>1 DEF TypeOK
  <2>2. /\ Len(inbox'[t]) = 1 /\ inbox'[t] # <<>> /\ inbox'[t][1] = <<what, Boot(t)>>
    BY <1>6
  <2>3. Talks(t, inbox'[t], holder')
    <3>1. holder' \in Requests(t) <=> what = "granted"
      BY <1>3, <1>4, <1>5 DEF Holds
    <3>2. QED
      BY <2>2, <3>1 DEF Talks, Alternates, Acquired
  <2>4. AtBoot(t)'
    <3>1. Boots(<<what, Boot(t)>>)
      BY DEF Boots, Acquired, Boot
    <3>2. NoBoot(inbox'[t], 2)
      BY <2>2 DEF NoBoot
    <3>3. QED
      BY <1>2, <1>3, <1>8, <2>2, <3>1, <3>2 DEF AtBoot
  <2>5. Unheard(t)' /\ Live(t)'
    BY <1>4, <2>1 DEF Unheard, Live
  <2>6. Begun(t)'
    <3>1. asked'[t] >= 1 /\ releaseHeldLock'[t] \in Requests(t)
      BY <1>1, <1>3, Asks
    <3>2. QED
      BY <1>2, <1>3, <1>8, <2>1, <3>1 DEF Begun
  <2>7. QED
    BY <2>3, <2>4, <2>5, <2>6 DEF Told
<1>11. QED
  BY <1>9, <1>10 DEF RoleInv

\* News for one tab reach no other.
LEMMA Telling ==
  ASSUME TypeOK, NEW t \in Tab, NEW r \in Req, NEW what \in {"granted", "seized", "busy", "stolen"},
         inbox' = Tell(inbox, t, what, r)
  PROVE  /\ inbox'[t] = Append(inbox[t], <<what, r>>)
         /\ \A u \in Tab \ {t} : inbox'[u] = inbox[u]
         /\ inbox[t] \in Seq(Message) /\ <<what, r>> \in Message
  BY DEF TypeOK, Message, Tell

\* A tab that is told more keeps its role, and has to believe what it did.
LEMMA ToldOn ==
  ASSUME TypeOK, NEW t \in Tab, Told(t), life[t] \notin {"new", "gone"}, life'[t] = life[t],
         phase'[Boot(t)] = phase[Boot(t)], t \in primary' <=> t \in primary, failed' = failed,
         asked'[t] \in {asked[t], asked[t] + 1}, releaseHeldLock'[t] \in Requests(t) \cup {NoReq},
         Waiting' \subseteq Waiting, released' = released,
         Live(t) => /\ Talks(t, inbox'[t], holder')
                    /\ Sees(t, inbox'[t], holder') <=> Sees(t, inbox[t], holder),
         Unheard(t) => AtBoot(t)',
         ~Unheard(t) => NoBoot(inbox'[t], 1)
  PROVE  Told(t)'
<1>1. (Live(t)' <=> Live(t)) /\ (Unheard(t)' <=> Unheard(t))
  BY DEF Live, Unheard
<1>2. Begun(t)'
  <2>1. asked[t] \in Nat /\ asked[t] >= 1
    BY Apart DEF Told, Begun
  <2>2. QED
    BY <2>1 DEF Told, Begun, Preparing
<1>3. ASSUME Live(t), ~Unheard(t) PROVE InRole(t)'
  BY <1>3 DEF Told, InRole
<1>4. QED
  BY <1>1, <1>2, <1>3 DEF Told

\* The lock goes to the request that waits longest.
LEMMA RoleGranted == ASSUME TypeOK, RoleInv, Grant PROVE RoleInv'
<1>1. PICK r \in Req :
        /\ r \in Waiting /\ ~Gone(r) /\ holder' = r /\ Waiting' \subseteq Waiting
        /\ inbox' = Tell(inbox, r[1], "granted", r)
  <2>1. PICK i \in 1..Len(queue) :
          /\ ~Gone(queue[i]) /\ holder' = queue[i] /\ queue' = SubSeq(queue, i + 1, Len(queue))
          /\ inbox' = Tell(inbox, queue[i][1], "granted", queue[i])
    BY DEF Grant
  <2>2. queue[i] \in Waiting /\ queue[i] \in Req
    <3>1. queue[i] \in Waiting
      BY DEF Waiting
    <3>2. QED
      BY <3>1, WaitingTypes
  <2>3. QED
    BY <2>1, <2>2, WaitingTypes
<1>2. PICK t \in Tab : t = r[1] /\ r \in Requests(t)
  BY Names DEF Requests
<1>3. UNCHANGED <<life, primary, releaseHeldLock, asked, phase, released, failed>> /\ holder = NoReq
  BY DEF Grant, tab, history
<1>4. Waiting' \subseteq Waiting
  BY <1>1
<1>5. /\ inbox'[t] = Append(inbox[t], <<"granted", r>>)
      /\ \A u \in Tab \ {t} : inbox'[u] = inbox[u]
      /\ inbox[t] \in Seq(Message) /\ <<"granted", r>> \in Message
  BY <1>1, <1>2, Telling
<1>6. holder' = r /\ r \in Waiting /\ life[t] # "gone"
  BY <1>1, <1>2 DEF Gone
<1>7. ASSUME NEW u \in Tab \ {t} PROVE Told(u)'
  <2>1. holder' \in Requests(u) <=> holder \in Requests(u)
    BY <1>2, <1>3, <1>6, Apart, Names
  <2>2. Same(u)
    BY <1>3, <1>4, <1>5, <2>1 DEF Same, Preparing
  <2>3. QED
    BY <2>2, ToldSame DEF RoleInv
<1>8. Told(t)'
  <2>1. Told(t) /\ Begun(t) /\ Boot(t) # r
    BY <1>6 DEF RoleInv, Told, Begun
  <2>2. life[t] \notin {"new", "gone"}
    BY <1>2, <1>6, <2>1 DEF Begun
  <2>3. ~Unheard(t) /\ NoBoot(inbox[t], 1)
    BY <1>2, <1>6, <2>1 DEF Told, AtBoot
  <2>4. ~Boots(<<"granted", r>>) /\ Acquired(<<"granted", r>>)
    BY <1>2, <2>1, Apart DEF Boots, Acquired
  <2>5. NoBoot(inbox'[t], 1)
    BY <1>5, <2>3, <2>4 DEF NoBoot
  <2>6. holder \notin Requests(t) /\ holder' \in Requests(t)
    BY <1>2, <1>3, <1>6, Names
  <2>7. ASSUME Live(t)
        PROVE  /\ Talks(t, inbox'[t], holder')
               /\ Sees(t, inbox'[t], holder') <=> Sees(t, inbox[t], holder)
    <3>1. Talks(t, inbox[t], holder)
      BY <2>1, <2>7 DEF Told
    <3>2. QED
      BY <1>5, <2>4, <2>6, <3>1, Said
  <2>8. releaseHeldLock'[t] \in Requests(t) \cup {NoReq}
    BY <1>3, <2>1 DEF Begun
  <2>9. QED
    BY <1>3, <1>4, <2>1, <2>2, <2>3, <2>5, <2>7, <2>8, ToldOn
<1>9. QED
  BY <1>7, <1>8 DEF RoleInv

\* A takeover steals the lock, from the tab itself too.
LEMMA RoleSteals ==
  ASSUME TypeOK, RoleInv, NEW t \in Tab, takeOver(t)
  PROVE  RoleInv'
<1> DEFINE n == NextRequest(t)
<1>1. Ask(t) /\ life[t] = "up" /\ t \notin primary /\ holder' = n
  BY DEF takeOver
<1>2. UNCHANGED <<life, primary, released, queue, failed>> /\ Waiting' = Waiting
  BY WaitingTypes DEF takeOver
<1>3. \A u \in Tab : Told(u) /\ Begun(u)
  BY DEF RoleInv, Told
<1>4. /\ n \in Requests(t) /\ n \in Req /\ n[2] # 1 /\ asked'[t] = asked[t] + 1
      /\ releaseHeldLock'[t] \in Requests(t) /\ phase'[Boot(t)] = phase[Boot(t)]
      /\ \A u \in Tab \ {t} : asked'[u] = asked[u] /\ releaseHeldLock'[u] = releaseHeldLock[u]
                              /\ phase'[Boot(u)] = phase[Boot(u)]
  <2>1. asked[t] >= 1
    BY <1>1, <1>3 DEF Begun
  <2>2. QED
    BY <1>1, <2>1, Asks, Apart, Names
<1>5. /\ Acquired(<<"seized", n>>) /\ ~Boots(<<"seized", n>>)
      /\ \A r : ~Acquired(<<"stolen", r>>) /\ ~Boots(<<"stolen", r>>)
  BY <1>4 DEF Acquired, Boots
<1>6. ~Unheard(t) /\ Live(t) /\ NoBoot(inbox[t], 1) /\ Talks(t, inbox[t], holder)
  BY <1>1, <1>3 DEF Unheard, Live, Told
<1>7. inbox \in [Tab -> Seq(Message)] /\ \A r \in Req : <<"stolen", r>> \in Message /\ <<"seized", r>> \in Message
  BY DEF TypeOK, Message
<1> HIDE DEF n
<1>8. ASSUME NEW u \in Tab \ {t}, inbox'[u] = inbox[u], holder \notin Requests(u) PROVE Told(u)'
  <2>1. holder' \notin Requests(u)
    BY <1>1, <1>4, Apart
  <2>2. Same(u)
    BY <1>2, <1>4, <1>8, <2>1 DEF Same, Preparing
  <2>3. QED
    BY <1>3, <2>2, ToldSame
<1>9. ASSUME Talks(t, inbox'[t], n), Sees(t, inbox'[t], n) <=> Sees(t, inbox[t], holder), NoBoot(inbox'[t], 1)
      PROVE  Told(t)'
  <2>1. holder' = n
    BY <1>1 DEF n
  <2>2. QED
    BY <1>1, <1>2, <1>3, <1>4, <1>6, <1>9, <2>1, ToldOn
<1>10. ASSUME NEW s \in Seq(Message), NEW h, h \notin Requests(t), Talks(t, s, h), NoBoot(s, 1),
              inbox'[t] = Append(s, <<"seized", n>>)
       PROVE  /\ Talks(t, inbox'[t], n) /\ (Sees(t, inbox'[t], n) <=> Sees(t, s, h))
              /\ NoBoot(inbox'[t], 1)
  <2> DEFINE m == <<"seized", n>>
  <2>1. m \in Message /\ Acquired(m) /\ ~Boots(m) /\ n \in Requests(t) /\ inbox'[t] = Append(s, m)
    BY <1>4, <1>5, <1>7, <1>10
  <2> HIDE DEF m
  <2>2. QED
    BY <1>10, <2>1, Said
<1>11. inbox[t] \in Seq(Message)
  BY <1>7
<1>12. CASE holder = NoReq
  <2>1. inbox' = Tell(inbox, t, "seized", n)
    BY <1>12 DEF takeOver, n
  <2>2. inbox'[t] = Append(inbox[t], <<"seized", n>>) /\ \A u \in Tab \ {t} : inbox'[u] = inbox[u]
    BY <1>7, <2>1 DEF Tell
  <2>3. \A u \in Tab : holder \notin Requests(u)
    BY <1>12, Names
  <2>4. Told(t)'
    <3>1. Talks(t, inbox'[t], n) /\ (Sees(t, inbox'[t], n) <=> Sees(t, inbox[t], holder)) /\ NoBoot(inbox'[t], 1)
      BY <1>6, <1>10, <1>11, <2>2, <2>3
    <3>2. QED
      BY <1>9, <3>1
  <2>5. QED
    BY <1>8, <2>2, <2>3, <2>4 DEF RoleInv
<1>13. CASE holder # NoReq
  <2> DEFINE told == Tell(inbox, holder[1], "stolen", holder)
  <2>1. inbox' = Tell(told, t, "seized", n)
    BY <1>13 DEF takeOver, n
  <2>2. PICK v \in Tab : v = holder[1] /\ holder \in Requests(v) /\ holder \in Req
    BY <1>13, Names DEF TypeOK, Requests
  <2>3. told \in [Tab -> Seq(Message)] /\ \A u \in Tab : told[u] = IF u = v THEN Append(inbox[v], <<"stolen", holder>>) ELSE inbox[u]
    <3>1. told = Tell(inbox, v, "stolen", holder)
      BY <2>2
    <3> HIDE DEF told
    <3>2. holder \in Req /\ inbox \in [Tab -> Seq(Message)]
      BY <1>7, <2>2
    <3>3. /\ Tell(inbox, v, "stolen", holder) \in [Tab -> Seq(Message)]
          /\ \A u \in Tab : Tell(inbox, v, "stolen", holder)[u]
                            = IF u = v THEN Append(inbox[v], <<"stolen", holder>>) ELSE inbox[u]
      <4>1. Append(inbox[v], <<"stolen", holder>>) \in Seq(Message)
        <5> DEFINE m == <<"stolen", holder>>
        <5>1. m \in Message /\ inbox[v] \in Seq(Message)
          BY <1>7, <3>2
        <5> HIDE DEF m
        <5>2. Append(inbox[v], m) \in Seq(Message)
          BY <5>1
        <5>3. QED
          BY <5>2 DEF m
      <4>2. QED
        BY <3>2, <4>1 DEF Tell
    <3>4. QED
      BY <3>1, <3>3
  <2> HIDE DEF told
  <2>4. \A u \in Tab : inbox'[u] = IF u = t THEN Append(told[t], <<"seized", n>>) ELSE told[u]
    BY <2>1, <2>3 DEF Tell
  <2>5. \A u \in Tab : holder \in Requests(u) <=> u = v
    BY <2>2, Names
  <2>6. CASE v = t
    <3>1. /\ Talks(t, told[t], NoReq) /\ (Sees(t, told[t], NoReq) <=> Sees(t, inbox[t], holder))
          /\ NoBoot(told[t], 1)
      <4>1. NoReq \notin Requests(t)
        BY Names
      <4>2. told[t] = Append(inbox[t], <<"stolen", holder>>) /\ <<"stolen", holder>> \in Message
        BY <1>7, <2>2, <2>3, <2>6
      <4>3. holder \in Requests(t)
        BY <2>5, <2>6
      <4>4. QED
        BY <1>5, <1>6, <1>7, <4>1, <4>2, <4>3, Said
    <3>2. /\ Talks(t, inbox'[t], n) /\ (Sees(t, inbox'[t], n) <=> Sees(t, told[t], NoReq))
          /\ NoBoot(inbox'[t], 1)
      <4>1. NoReq \notin Requests(t) /\ inbox'[t] = Append(told[t], <<"seized", n>>)
        BY <2>4, Names
      <4>2. told[t] \in Seq(Message)
        BY <2>3
      <4>3. QED
        BY <1>10, <3>1, <4>1, <4>2
    <3>3. Told(t)'
      BY <1>9, <3>1, <3>2
    <3>4. \A u \in Tab \ {t} : inbox'[u] = inbox[u] /\ holder \notin Requests(u)
      BY <2>3, <2>4, <2>5, <2>6
    <3>5. QED
      BY <1>8, <3>3, <3>4 DEF RoleInv
  <2>7. CASE v # t
    <3>1. Told(t)'
      <4>1. inbox'[t] = Append(inbox[t], <<"seized", n>>) /\ holder \notin Requests(t)
        BY <2>3, <2>4, <2>5, <2>7
      <4>2. Talks(t, inbox'[t], n) /\ (Sees(t, inbox'[t], n) <=> Sees(t, inbox[t], holder)) /\ NoBoot(inbox'[t], 1)
        BY <1>6, <1>10, <1>11, <4>1
      <4>3. QED
        BY <1>9, <4>2
    <3>2. Told(v)'
      <4> DEFINE m == <<"stolen", holder>>
      <4>1. inbox'[v] = Append(inbox[v], m) /\ holder \in Requests(v) /\ holder' \notin Requests(v)
        <5>1. holder' \notin Requests(v)
          BY <1>1, <1>4, <2>7, Apart DEF n
        <5>2. QED
          BY <2>3, <2>4, <2>5, <2>7, <5>1
      <4>2. Told(v) /\ Begun(v) /\ life[v] \notin {"new", "gone"} /\ ~Acquired(m) /\ ~Boots(m) /\ m \in Message
        BY <1>3, <1>5, <1>7, <2>2 DEF Begun, Holds
      <4>3. inbox[v] \in Seq(Message)
        BY <1>7
      <4> HIDE DEF m
      <4>4. \A k \in {1, 2} : NoBoot(inbox[v], k) => NoBoot(inbox'[v], k)
        BY <4>1, <4>2, <4>3 DEF NoBoot
      <4>5. ASSUME Live(v)
            PROVE  /\ Talks(v, inbox'[v], holder') /\ inbox'[v] # <<>>
                   /\ Sees(v, inbox'[v], holder') <=> Sees(v, inbox[v], holder)
                   /\ inbox[v] # <<>> => inbox'[v][1] = inbox[v][1]
        <5>1. Talks(v, inbox[v], holder)
          BY <4>2, <4>5 DEF Told
        <5>2. QED
          BY <4>1, <4>2, <4>3, <5>1, Said
      <4>6. ASSUME Unheard(v) PROVE AtBoot(v)'
        <5>1. Live(v) /\ AtBoot(v) /\ Talks(v, inbox[v], holder)
          BY <4>2, <4>6 DEF Told, Live, Unheard
        <5>2. inbox[v][1][1] # "busy"
          BY <4>1, <5>1 DEF AtBoot, Talks, Acquired
        <5>3. QED
          BY <1>2, <4>4, <4>5, <5>1, <5>2 DEF AtBoot
      <4>7. releaseHeldLock'[v] \in Requests(v) \cup {NoReq} /\ asked'[v] = asked[v] /\ phase'[Boot(v)] = phase[Boot(v)]
        BY <1>4, <2>7, <4>2 DEF Begun
      <4>8. ~Unheard(v) => NoBoot(inbox'[v], 1)
        BY <4>2, <4>4 DEF Told
      <4>9. QED
        BY <1>2, <4>2, <4>5, <4>6, <4>7, <4>8, ToldOn
    <3>3. \A u \in Tab \ {t, v} : inbox'[u] = inbox[u] /\ holder \notin Requests(u)
      BY <2>3, <2>4, <2>5
    <3>4. QED
      BY <1>8, <3>1, <3>2, <3>3 DEF RoleInv
  <2>8. QED
    BY <2>6, <2>7
<1>14. QED
  BY <1>12, <1>13

\* A page that is disconnected, closed or reloaded, and the return of a
\* callback.
LEMMA RoleLeaves ==
  ASSUME TypeOK, RoleInv, NEW t \in Tab, disconnect(t) \/ Unload(t)
  PROVE  RoleInv'
<1>1. \A u \in Tab : Told(u) /\ Begun(u)
  BY DEF RoleInv, Told
<1>2. UNCHANGED <<queue, primary, asked, failed>> /\ Waiting' = Waiting
  BY WaitingTypes DEF disconnect, Unload, browser, history
<1>3. ASSUME NEW u \in Tab \ {t} PROVE Told(u)'
  <2>1. life'[u] = life[u] /\ inbox'[u] = inbox[u] /\ releaseHeldLock'[u] = releaseHeldLock[u]
    BY DEF disconnect, Unload, browser, TypeOK
  <2>2. phase'[Boot(u)] = phase[Boot(u)]
    BY Apart, Names DEF disconnect, Unload, Boot
  <2>3. holder' \in Requests(u) <=> holder \in Requests(u)
    BY Apart, Names DEF disconnect, Unload, browser, Holds
  <2>4. Requests(u) \cap released' \subseteq released
    BY <1>1, Apart, Names DEF disconnect, Unload, Begun
  <2>5. Same(u)
    BY <1>2, <2>1, <2>2, <2>3, <2>4 DEF Same, Preparing
  <2>6. QED
    BY <1>1, <2>5, ToldSame
<1>4. CASE disconnect(t)
  <2>1. life[t] = "up" /\ life'[t] = "left" /\ inbox' = inbox /\ phase' = phase
    BY <1>4 DEF disconnect, browser, TypeOK
  <2>2. releaseHeldLock'[t] = NoReq
    BY <1>4 DEF disconnect, TypeOK
  <2>3. Begun(t)'
    BY <1>1, <1>2, <2>1, <2>2 DEF Begun, Preparing
  <2>4. QED
    BY <1>1, <1>3, <2>1, <2>3 DEF RoleInv, Told, Live, Unheard
<1>5. CASE Unload(t)
  <2>1. life[t] # "new" /\ life'[t] = "gone" /\ inbox'[t] = <<>> /\ releaseHeldLock' = releaseHeldLock
    BY <1>5 DEF Unload, TypeOK
  <2>2. phase'[Boot(t)] = "over"
    BY <1>5, Apart, Names DEF Unload, Boot
  <2>3. holder' \notin Requests(t)
    BY <1>5, Names DEF Unload, Holds
  <2>4. Begun(t)'
    BY <1>1, <1>2, <2>1, <2>2, <2>3 DEF Begun, Preparing, Holds
  <2>5. NoBoot(inbox'[t], 1)
    BY <2>1 DEF NoBoot
  <2>6. QED
    BY <1>3, <2>1, <2>4, <2>5 DEF RoleInv, Told, Live, Unheard
<1>6. QED
  BY <1>4, <1>5

\* A callback returns only when its tab was left, which has no role any more.
LEMMA RoleReturns == ASSUME TypeOK, RoleInv, NEW r \in Req, Return(r) PROVE RoleInv'
<1>1. \A u \in Tab : Told(u) /\ Begun(u)
  BY DEF RoleInv, Told
<1>2. /\ UNCHANGED <<life, inbox, asked, releaseHeldLock, primary, failed, released>> /\ Waiting' = Waiting
      /\ phase[r] = "holding" /\ phase' = [phase EXCEPT ![r] = "over"] /\ r \in released
      /\ holder' = IF holder = r THEN NoReq ELSE holder
  BY WaitingTypes DEF Return, history
<1>3. ASSUME NEW u \in Tab PROVE Told(u)'
  <2>1. /\ phase'[Boot(u)] = "asked" <=> phase[Boot(u)] = "asked"
        /\ Preparing(Boot(u))' => Preparing(Boot(u))
    BY <1>2, Apart, Names DEF TypeOK, Preparing
  <2>2. CASE holder' \in Requests(u) <=> holder \in Requests(u)
    <3>1. Same(u)
      BY <1>2, <2>1, <2>2 DEF Same
    <3>2. QED
      BY <1>1, <3>1, ToldSame
  <2>3. CASE ~(holder' \in Requests(u) <=> holder \in Requests(u))
    <3>1. r \in Requests(u) /\ holder' \notin Requests(u)
      BY <1>2, <2>3, Names
    <3>2. life[u] \in {"left", "gone"}
      BY <1>1, <1>2, <3>1 DEF Begun
    <3>3. Begun(u)'
      BY <1>1, <1>2, <2>1, <3>1, <3>2 DEF Begun, Holds
    <3>4. QED
      BY <1>1, <1>2, <3>2, <3>3 DEF Told, Live, Unheard
  <2>4. QED
    BY <2>2, <2>3
<1>4. QED
  BY <1>3 DEF RoleInv

-----------------------------------------------------------------------------
\* Steps of a tab

\* A tab that hears something takes it for granted.
LEMMA Hearing ==
  ASSUME TypeOK, RoleInv, NEW t \in Tab, NEW what, NEW r, Hears(t, what, r)
  PROVE  /\ inbox[t] # <<>> /\ inbox[t][1] = <<what, r>> /\ inbox[t] \in Seq(Message)
         /\ what \in {"granted", "seized", "busy", "stolen"} /\ r \in Req
         /\ \A u \in Tab \ {t} : inbox'[u] = inbox[u]
         /\ Unheard(t) \/ ~Boots(<<what, r>>)
         /\ Unheard(t) => Boots(<<what, r>>) /\ Requests(t) \cap Waiting = {}
         /\ NoBoot(inbox'[t], 1)
         /\ Live(t) => Talks(t, inbox'[t], holder)
                       /\ (Sees(t, inbox'[t], holder) <=> Acquired(<<what, r>>))
<1>1. inbox \in [Tab -> Seq(Message)] /\ Told(t)
  BY DEF TypeOK, Message, RoleInv
<1>2. inbox[t] # <<>> /\ Head(inbox[t]) = <<what, r>> /\ inbox' = [inbox EXCEPT ![t] = Tail(inbox[t])]
  BY DEF Hears
<1>3. inbox'[t] = Tail(inbox[t]) /\ (\A u \in Tab \ {t} : inbox'[u] = inbox[u]) /\ inbox[t] \in Seq(Message)
  BY <1>1, <1>2
<1>4. inbox[t][1] = <<what, r>> /\ <<what, r>> \in Message
  <2>1. inbox[t][1] = Head(inbox[t]) /\ inbox[t][1] \in Message
    BY <1>2, <1>3
  <2>2. QED
    BY <1>2, <2>1
<1>5. what \in {"granted", "seized", "busy", "stolen"} /\ r \in Req
  BY <1>4 DEF Message
<1>6. NoBoot(inbox[t], 2) => NoBoot(Tail(inbox[t]), 1)
  BY <1>2, <1>3 DEF NoBoot
<1>7. NoBoot(inbox[t], 1) => NoBoot(inbox[t], 2) /\ ~Boots(inbox[t][1])
  BY <1>2, <1>3 DEF NoBoot
<1>8. Unheard(t) => AtBoot(t)
  BY <1>1 DEF Told
<1>9. ~Unheard(t) => NoBoot(inbox[t], 1)
  BY <1>1 DEF Told
<1>10. NoBoot(inbox'[t], 1)
  BY <1>3, <1>6, <1>7, <1>8, <1>9 DEF AtBoot
<1>11. ASSUME Live(t)
       PROVE  Talks(t, inbox'[t], holder) /\ (Sees(t, inbox'[t], holder) <=> Acquired(<<what, r>>))
  <2>1. Talks(t, inbox[t], holder)
    BY <1>1, <1>11 DEF Told
  <2>2. QED
    BY <1>2, <1>3, <1>4, <2>1, Heard
<1>12. QED
  BY <1>2, <1>3, <1>4, <1>5, <1>7, <1>8, <1>9, <1>10, <1>11 DEF AtBoot

\* The answer that the lock is taken makes the tab a secondary.
LEMMA RoleBusy ==
  ASSUME TypeOK, RoleInv, NEW t \in Tab, NEW r \in Requests(t), HearBusy(t, r)
  PROVE  RoleInv'
<1>1. Hears(t, "busy", r) /\ armBackgroundLockWait(t) /\ Ask(t)
  BY DEF HearBusy, armBackgroundLockWait
<1>2. \A u \in Tab : Told(u) /\ Begun(u)
  BY DEF RoleInv, Told
<1>3. UNCHANGED <<released, failed, holder>> /\ Waiting' = Waiting \cup {NextRequest(t)}
  BY <1>1, WaitingTypes DEF HearBusy, history, armBackgroundLockWait, Ask
<1>4. /\ life' = [life EXCEPT ![t] = "up"] /\ primary' = primary \ {t}
  BY DEF HearBusy
<1>5. Unheard(t) /\ Live(t) /\ Requests(t) \cap Waiting = {} /\ asked[t] >= 1
  <2>1. Boots(<<"busy", r>>)
    BY DEF Boots
  <2>2. Unheard(t) /\ Requests(t) \cap Waiting = {}
    BY <1>1, <2>1, Hearing
  <2>3. QED
    BY <1>2, <2>2 DEF Unheard, Live, Begun
<1>6. ASSUME NEW u \in Tab \ {t} PROVE Told(u)'
  <2>1. /\ life'[u] = life[u] /\ inbox'[u] = inbox[u] /\ phase'[Boot(u)] = phase[Boot(u)]
        /\ asked'[u] = asked[u] /\ releaseHeldLock'[u] = releaseHeldLock[u]
    <3>1. life'[u] = life[u]
      BY <1>4 DEF TypeOK
    <3>2. inbox'[u] = inbox[u]
      BY <1>1, Hearing
    <3>3. QED
      BY <1>1, <3>1, <3>2, Asks
  <2>2. NextRequest(t) \notin Requests(u)
    BY <1>1, Asks, Apart
  <2>3. Same(u)
    BY <1>3, <1>4, <2>1, <2>2 DEF Same, Preparing
  <2>4. QED
    BY <1>2, <2>3, ToldSame
<1>7. Told(t)'
  <2>1. life'[t] = "up" /\ t \notin primary' /\ asked'[t] = asked[t] + 1 /\ releaseHeldLock'[t] \in Requests(t)
    BY <1>1, <1>4, Asks DEF TypeOK
  <2>2. phase'[Boot(t)] = "asked" /\ NextRequest(t) # Boot(t) /\ asked[t] \in Nat
    BY <1>1, <1>5, Asks, Apart DEF Unheard
  <2>3. Begun(t)'
    <3>1. Boot(t) \notin Waiting' /\ Requests(t) \cap released' = {} /\ asked'[t] >= 1
      BY <1>2, <1>3, <1>5, <2>1, <2>2 DEF Begun, Unheard
    <3>2. QED
      BY <2>1, <2>2, <3>1 DEF Begun, Preparing
  <2>4. Talks(t, inbox'[t], holder) /\ ~Sees(t, inbox'[t], holder) /\ NoBoot(inbox'[t], 1)
    BY <1>1, <1>5, Hearing DEF Acquired
  <2>5. QED
    BY <1>3, <2>1, <2>3, <2>4 DEF Told, Unheard, Live, InRole
<1>8. QED
  BY <1>6, <1>7 DEF RoleInv

\* The lock makes it primary, also at boot.
LEMMA RoleAcquires ==
  ASSUME TypeOK, RoleInv, NEW t \in Tab, NEW r \in Requests(t), HearGranted(t, r) \/ HearSeized(t, r)
  PROVE  RoleInv'
<1>1. PICK what \in {"granted", "seized"} : Hears(t, what, r)
  BY DEF HearGranted, HearSeized
<1>2. \A u \in Tab : Told(u) /\ Begun(u)
  BY DEF RoleInv, Told
<1>3. UNCHANGED <<released, failed, holder, life, asked, releaseHeldLock>> /\ Waiting' = Waiting
  BY WaitingTypes DEF HearGranted, HearSeized
<1>4. /\ primary' = primary \cup {t} /\ \E p \in {"holding", "preparing"} : phase' = [phase EXCEPT ![r] = p]
      /\ r = Boot(t) => phase' = [phase EXCEPT ![r] = "preparing"]
  BY DEF HearGranted, HearSeized, Boot
<1>5. r \in Req /\ phase \in [Req -> {"none", "asked", "preparing", "connecting", "hung", "holding", "over"}]
  BY Names DEF TypeOK
<1>6. Boots(<<what, r>>) <=> r = Boot(t)
  BY Apart DEF Boots, Acquired
<1>7. ASSUME NEW u \in Tab \ {t} PROVE Told(u)'
  <2>1. inbox'[u] = inbox[u]
    BY <1>1, Hearing
  <2>2. phase'[Boot(u)] = phase[Boot(u)]
    BY <1>4, <1>5, Apart, Names
  <2>3. Same(u)
    BY <1>3, <1>4, <2>1, <2>2 DEF Same, Preparing
  <2>4. QED
    BY <1>2, <2>3, ToldSame
<1>8. Told(t)'
  <2>1. (Unheard(t) <=> r = Boot(t)) /\ NoBoot(inbox'[t], 1)
    BY <1>1, <1>6, Hearing
  <2>2. ASSUME Live(t) PROVE Talks(t, inbox'[t], holder) /\ Sees(t, inbox'[t], holder)
    <3>1. Acquired(<<what, r>>)
      BY DEF Acquired
    <3>2. QED
      BY <1>1, <2>2, <3>1, Hearing
  <2>3. ~Unheard(t)'
    BY <1>3, <1>4, <1>5, <2>1, Apart DEF Unheard
  <2>4. Begun(t)'
    <3>1. inbox[t] # <<>> /\ life[t] \notin {"new", "gone"}
      BY <1>1, <1>2 DEF Hears, Begun
    <3>2. Preparing(Boot(t))' => life[t] = "booting"
      BY <1>2, <1>4, <1>5, <2>1, Apart DEF Begun, Preparing, Unheard
    <3>3. QED
      BY <1>2, <1>3, <3>1, <3>2 DEF Begun
  <2>5. Live(t)' <=> Live(t)
    BY <1>3 DEF Live
  <2>6. QED
    BY <1>3, <1>4, <2>1, <2>2, <2>3, <2>4, <2>5 DEF Told, InRole
<1>9. QED
  BY <1>7, <1>8 DEF RoleInv

\* The loss of the lock demotes it.
LEMMA RoleLoses ==
  ASSUME TypeOK, RoleInv, NEW t \in Tab, NEW r \in Requests(t), HearStolen(t, r)
  PROVE  RoleInv'
<1>1. Hears(t, "stolen", r)
  BY DEF HearStolen
<1>2. \A u \in Tab : Told(u) /\ Begun(u)
  BY DEF RoleInv, Told
<1>3. UNCHANGED <<released, failed, holder, life>> /\ primary' = primary \ {t}
  BY DEF HearStolen, demoteFromPrimary
<1>4. \/ Ask(t) /\ Waiting' = Waiting \cup {NextRequest(t)}
      \/ UNCHANGED <<asked, phase, releaseHeldLock>> /\ Waiting' = Waiting
  BY WaitingTypes DEF HearStolen, demoteFromPrimary, armBackgroundLockWait, Ask
<1>5. ~Unheard(t) /\ NoBoot(inbox'[t], 1)
      /\ (Live(t) => Talks(t, inbox'[t], holder) /\ ~Sees(t, inbox'[t], holder))
  <2>1. ~Boots(<<"stolen", r>>) /\ ~Acquired(<<"stolen", r>>)
    BY DEF Boots, Acquired
  <2>2. QED
    BY <1>1, <2>1, Hearing
<1>6. life[t] \notin {"new", "gone"} /\ asked[t] >= 1 /\ asked[t] \in Nat
  BY <1>1, <1>2, Apart DEF Hears, Begun
<1>7. /\ \A u \in Tab : phase'[Boot(u)] = phase[Boot(u)]
      /\ \A u \in Tab \ {t} : /\ asked'[u] = asked[u] /\ releaseHeldLock'[u] = releaseHeldLock[u]
                              /\ Requests(u) \cap Waiting' \subseteq Waiting
      /\ asked'[t] >= 1 /\ releaseHeldLock'[t] \in Requests(t) \cup {NoReq} /\ Boot(t) \notin Waiting'
  <2>1. CASE Ask(t) /\ Waiting' = Waiting \cup {NextRequest(t)}
    <3>1. \A u \in Tab \ {t} : Requests(u) \cap Waiting' \subseteq Waiting
      BY <2>1, Asks, Apart
    <3>2. \A u \in Tab : phase'[Boot(u)] = phase[Boot(u)]
      BY <1>6, <2>1, Asks
    <3>3. asked'[t] >= 1 /\ releaseHeldLock'[t] \in Requests(t) /\ Boot(t) \notin Waiting'
      BY <1>2, <1>6, <2>1, Asks, Apart DEF Begun
    <3>4. QED
      BY <2>1, <3>1, <3>2, <3>3, Asks
  <2>2. CASE UNCHANGED <<asked, phase, releaseHeldLock>> /\ Waiting' = Waiting
    BY <1>2, <1>6, <2>2 DEF Begun
  <2>3. QED
    BY <1>4, <2>1, <2>2
<1>8. ASSUME NEW u \in Tab \ {t} PROVE Told(u)'
  <2>1. inbox'[u] = inbox[u]
    BY <1>1, Hearing
  <2>2. Same(u)
    BY <1>3, <1>7, <2>1 DEF Same, Preparing
  <2>3. QED
    BY <1>2, <2>2, ToldSame
<1>9. Told(t)'
  <2>1. Begun(t)'
    BY <1>2, <1>3, <1>6, <1>7 DEF Begun, Preparing
  <2>2. (Live(t)' <=> Live(t)) /\ ~Unheard(t)'
    BY <1>3, <1>5, <1>7 DEF Live, Unheard
  <2>3. QED
    BY <1>3, <1>5, <2>1, <2>2 DEF Told, InRole
<1>10. QED
  BY <1>8, <1>9 DEF RoleInv

\* An attempt leaves the role alone until the boot is over, or it fails.
LEMMA RoleAttempts ==
  ASSUME TypeOK, RoleInv, NEW r \in Req,
         Prepared(r) \/ WsOpens(r) \/ TimerFires(r) \/ PrepareFails(r) \/ WsFails(r) \/ WsDrops(r)
  PROVE  RoleInv'
<1>1. \A u \in Tab : Told(u) /\ Begun(u)
  BY DEF RoleInv, Told
<1>2. UNCHANGED <<released, holder, inbox, asked, releaseHeldLock>> /\ Waiting' = Waiting
  BY WaitingTypes DEF Prepared, WsOpens, TimerFires, PrepareFails, WsFails, WsDrops, tab, browser
<1>3. PICK t \in Tab : t = r[1] /\ r \in Requests(t) /\ (r[2] = 1 <=> r = Boot(t))
  BY Names, Apart DEF Requests
<1>4. phase \in [Req -> {"none", "asked", "preparing", "connecting", "hung", "holding", "over"}]
  BY DEF TypeOK
<1>5. \/ UNCHANGED <<phase, life, primary, failed>>
      \/ Preparing(r) /\ Activated(r)
      \/ Preparing(r) /\ ActivationFailed(r)
      \/ /\ Preparing(r) /\ UNCHANGED <<life, primary, failed>>
         /\ \E p \in {"connecting", "hung"} : phase' = [phase EXCEPT ![r] = p]
  BY DEF Prepared, WsOpens, TimerFires, PrepareFails, WsFails, WsDrops, tab, history, Preparing
<1>6. CASE UNCHANGED <<phase, life, primary, failed>>
  <2>1. \A u \in Tab : Same(u)
    BY <1>2, <1>6 DEF Same, Preparing
  <2>2. QED
    BY <1>1, <2>1, ToldSame DEF RoleInv
<1>7. CASE /\ Preparing(r) /\ UNCHANGED <<life, primary, failed>>
           /\ \E p \in {"connecting", "hung"} : phase' = [phase EXCEPT ![r] = p]
  <2>1. ASSUME NEW u \in Tab PROVE Same(u)
    <3>1. (phase'[Boot(u)] = "asked" <=> phase[Boot(u)] = "asked") /\ (Preparing(Boot(u))' => Preparing(Boot(u)))
      BY <1>4, <1>7, Apart, Names DEF Preparing
    <3>2. QED
      BY <1>2, <1>7, <3>1 DEF Same
  <2>2. QED
    BY <1>1, <2>1, ToldSame DEF RoleInv
<1>8. ASSUME phase' = [phase EXCEPT ![r] = "holding"], Preparing(r)
      PROVE  \A u \in Tab : /\ phase'[Boot(u)] = "asked" <=> phase[Boot(u)] = "asked"
                            /\ Preparing(Boot(u))' => Preparing(Boot(u))
                            /\ r = Boot(u) => ~Preparing(Boot(u))' /\ life[u] = "booting" /\ ~Unheard(u)
  BY <1>1, <1>4, <1>8, Apart, Names DEF Preparing, Begun, Unheard
<1>9. CASE Preparing(r) /\ Activated(r)
  <2>1. ASSUME NEW u \in Tab PROVE Same(u)
    <3>1. \/ life'[u] = life[u]
          \/ u = t /\ r = Boot(t) /\ life'[u] = "up"
      BY <1>3, <1>9 DEF Activated, TypeOK
    <3>2. phase' = [phase EXCEPT ![r] = "holding"] /\ UNCHANGED <<primary, failed>>
      BY <1>9 DEF Activated
    <3>3. QED
      BY <1>2, <1>8, <1>9, <3>1, <3>2 DEF Same
  <2>2. QED
    BY <1>1, <2>1, ToldSame DEF RoleInv
<1>10. CASE Preparing(r) /\ ActivationFailed(r)
  <2>1. phase' = [phase EXCEPT ![r] = "holding"] /\ failed' = failed \cup {t}
    BY <1>3, <1>10 DEF ActivationFailed
  <2>2. /\ r = Boot(t) => life' = [life EXCEPT ![t] = "failed"] /\ primary' = primary
        /\ r # Boot(t) => life' = life /\ primary' = primary \ {t}
    BY <1>3, <1>10 DEF ActivationFailed
  <2>3. ASSUME NEW u \in Tab \ {t} PROVE Told(u)'
    <3>1. life'[u] = life[u]
      BY <2>2 DEF TypeOK
    <3>2. Same(u)
      BY <1>2, <1>8, <1>10, <2>1, <2>2, <3>1 DEF Same
    <3>3. QED
      BY <1>1, <3>2, ToldSame
  <2>4. Told(t)'
    <3>1. CASE r = Boot(t)
      <4>1. life'[t] = "failed" /\ life[t] = "booting" /\ ~Unheard(t) /\ ~Preparing(Boot(t))'
        BY <1>8, <1>10, <2>1, <2>2, <3>1 DEF TypeOK
      <4>2. QED
        BY <1>1, <1>2, <4>1, ToldFailed
    <3>2. CASE r # Boot(t)
      <4>1. phase'[Boot(t)] = phase[Boot(t)] /\ life' = life /\ t \in failed' /\ t \notin primary'
        BY <1>3, <1>4, <2>1, <2>2, <3>2, Apart, Names
      <4>2. (Live(t)' <=> Live(t)) /\ (Unheard(t)' <=> Unheard(t))
        BY <4>1 DEF Live, Unheard
      <4>3. Begun(t)'
        BY <1>1, <1>2, <4>1 DEF Begun, Holds, Preparing
      <4>4. AtBoot(t) => AtBoot(t)'
        BY <1>2 DEF AtBoot
      <4>5. NoBoot(inbox[t], 1) => NoBoot(inbox'[t], 1) /\ InRole(t)'
        BY <1>2, <4>1 DEF InRole
      <4>6. Talks(t, inbox'[t], holder') <=> Talks(t, inbox[t], holder)
        BY <1>2
      <4>7. QED
        BY <1>1, <1>2, <4>2, <4>3, <4>4, <4>5, <4>6 DEF Told
    <3>3. QED
      BY <3>1, <3>2
  <2>5. QED
    BY <2>3, <2>4 DEF RoleInv
<1>11. QED
  BY <1>5, <1>6, <1>7, <1>9, <1>10

\* Every step keeps what each tab is told in line with its role.
LEMMA RoleStep == ASSUME TypeOK, RoleInv, [Next]_vars PROVE RoleInv'
<1>1. CASE UNCHANGED vars
  <2>1. \A t \in Tab : Same(t)
    BY <1>1 DEF vars, tab, ws, browser, history, Same, Preparing, Waiting
  <2>2. QED
    BY <2>1, ToldSame DEF RoleInv
<1>2. QED
  BY <1>1, RoleConnects, RoleSteals, RoleLeaves, RoleGranted, RoleReturns, RoleBusy, RoleAcquires,
     RoleLoses, RoleAttempts
  DEF Next, Call, Hear, Progress, Trouble

\* A page that is not there yet has no part in the lock.
LEMMA RoleInit == Init => TypeOK /\ RoleInv
<1> SUFFICES ASSUME Init PROVE TypeOK /\ RoleInv
  OBVIOUS
<1>1. TypeOK
  BY DEF Init, TypeOK
<1>2. ASSUME NEW t \in Tab PROVE Told(t)
  <2>1. Waiting = {}
    BY DEF Init, Waiting
  <2>2. NoBoot(inbox[t], 1) /\ ~Live(t) /\ ~Unheard(t)
    BY DEF Init, NoBoot, Live, Unheard
  <2>3. Boot(t) \in Req
    BY Apart, <1>1, Names
  <2>4. Begun(t)
    BY <2>1, <2>3, Names DEF Init, Begun, Holds, Preparing
  <2>5. QED
    BY <2>2, <2>4 DEF Told
<1>3. QED
  BY <1>1, <1>2 DEF RoleInv

\* A primary holds the lock, or has yet to hear of its loss.
LEMMA InRoleHolds ==
  ASSUME TypeOK, NEW t \in Tab, InRole(t), t \in primary
  PROVE  Holds(t) \/ Robbed(t)
<1>1. CASE inbox[t] = <<>>
  BY <1>1 DEF InRole, Sees, Holds
<1>2. CASE inbox[t] # <<>>
  <2>1. 1 \in 1..Len(inbox[t]) /\ inbox[t][1] \in Message
    BY <1>2 DEF TypeOK, Message
  <2>2. ~Boots(inbox[t][1]) /\ ~Acquired(inbox[t][1])
    BY <1>2, <2>1 DEF InRole, Sees, NoBoot
  <2>3. inbox[t][1][1] = "stolen"
    BY <2>1, <2>2 DEF Message, Boots, Acquired
  <2>4. QED
    BY <2>1, <2>3 DEF Robbed
<1>3. QED
  BY <1>1, <1>2

\* A tab in use that calls itself primary holds the lock or is still to hear of
\* its loss, and one that knows it holds the lock is primary.
THEOREM RoleIsTheLocks == Spec => []RoleFollowsLock
<1>1. TypeOK /\ RoleInv => RoleFollowsLock
  <2> SUFFICES ASSUME TypeOK, RoleInv, NEW t \in Tab, life[t] = "up"
               PROVE  /\ t \in primary => Holds(t) \/ Robbed(t)
                      /\ Holds(t) /\ HasHeard(t) /\ t \notin failed => t \in primary
    BY DEF RoleFollowsLock
  <2>1. InRole(t)
    BY DEF RoleInv, Told, Live, Unheard
  <2>2. t \in primary => Holds(t) \/ Robbed(t)
    BY <2>1, InRoleHolds
  <2>3. Holds(t) /\ HasHeard(t) /\ t \notin failed => t \in primary
    BY <2>1 DEF InRole, Sees, Holds, HasHeard
  <2>4. QED
    BY <2>2, <2>3
<1>2. TypeOK /\ RoleInv /\ [Next]_vars => TypeOK' /\ RoleInv'
  BY TypesStep, RoleStep
<1>3. QED
  BY <1>1, <1>2, RoleInit, PTL DEF Spec

-----------------------------------------------------------------------------
\* The sockets of a tab

\* A tab no attempt of which begins, and that stays what it is, keeps its bounds.
LEMMA RunsSame ==
  ASSUME NEW t \in Tab, Runs(t), failed \subseteq failed', strayed \subseteq strayed',
         life'[t] = "failed" => t \in failed', Attempts(t)' \subseteq Attempts(t),
         Live(t) => Live(t)', Unheard(t)' => Unheard(t), t \in primary => t \in primary'
  PROVE  Runs(t)'
  BY DEF Runs

\* So does one that has no attempt, or is excepted.
LEMMA RunsNone ==
  ASSUME NEW t \in Tab, life'[t] = "failed" => t \in failed',
         t \in strayed' \/ t \in failed' \/ Attempts(t)' = {}
  PROVE  Runs(t)'
  BY DEF Runs

\* Asking for the lock begins no attempt.
LEMMA AskRuns ==
  ASSUME TypeOK, NEW t \in Tab, Ask(t), conn' = conn
  PROVE  \A u \in Tab : Attempts(u)' \subseteq Attempts(u)
<1>1. \A r \in Req : Preparing(r)' => Preparing(r)
  <2>1. phase' = [phase EXCEPT ![NextRequest(t)] = "asked"] /\ NextRequest(t) \in Req
    BY DEF Ask
  <2>2. phase \in [Req -> {"none", "asked", "preparing", "connecting", "hung", "holding", "over"}]
    BY DEF TypeOK
  <2>3. QED
    BY <2>1, <2>2 DEF Preparing
<1>2. QED
  BY <1>1, Names DEF Attempts, Chains

\* A client that is closed with nothing under way has no attempt left.
LEMMA ClosedRuns ==
  ASSUME TypeOK, NEW t \in Tab, Runs(t), CloseWs(t), failed' = failed,
         IF UnderWay(t) THEN Stray(t) ELSE UNCHANGED strayed,
         \A r \in Req : Preparing(r)' => Preparing(r)
  PROVE  /\ t \in strayed' \/ t \in failed' \/ Attempts(t)' = {}
         /\ \A u \in Tab \ {t} : Attempts(u)' \subseteq Attempts(u)
         /\ strayed \subseteq strayed'
<1>1. conn \in [Req -> {"none", "trying", "open", "backoff"}]
  BY DEF TypeOK
<1>2. \/ conn' = conn /\ (OpenChains(t) = {} \/ Chains(t) # OpenChains(t))
      \/ \E r \in OpenChains(t) : conn' = [conn EXCEPT ![r] = "none"]
  BY DEF CloseWs
<1>3. \A r \in Req : conn'[r] = conn[r] \/ (r \in Requests(t) /\ conn'[r] = "none")
  BY <1>1, <1>2, Names DEF OpenChains
<1>4. ASSUME NEW u \in Tab \ {t} PROVE Attempts(u)' \subseteq Attempts(u)
  BY <1>3, Names DEF Attempts, Chains
<1>5. ASSUME ~UnderWay(t), t \notin strayed, t \notin failed PROVE Attempts(t)' = {}
  <2>1. \A r \in Requests(t) : ~Preparing(r) /\ conn[r] \notin {"trying", "backoff"}
    BY <1>5 DEF UnderWay, Preparing
  <2>2. Chains(t) = OpenChains(t) /\ Attempts(t) = OpenChains(t)
    BY <1>1, <2>1, Names DEF Chains, OpenChains, Attempts
  <2>3. \A r, s \in OpenChains(t) : r = s
    BY <1>5, <2>2 DEF Runs
  <2>4. Chains(t)' = {}
    <3>1. CASE OpenChains(t) = {}
      BY <1>3, <2>2, <3>1, Names DEF Chains
    <3>2. CASE OpenChains(t) # {}
      <4>1. PICK r \in OpenChains(t) : conn' = [conn EXCEPT ![r] = "none"]
        BY <1>2, <2>2, <3>2
      <4>2. \A q \in Requests(t) : q # r => conn[q] = "none"
        BY <2>2, <2>3, <4>1 DEF Chains
      <4>3. QED
        BY <1>1, <4>1, <4>2, Names DEF Chains
    <3>3. QED
      BY <3>1, <3>2
  <2>5. QED
    BY <2>1, <2>4, Names DEF Attempts
<1>6. strayed \subseteq strayed' /\ (UnderWay(t) => t \in strayed')
  BY DEF Stray
<1>7. QED
  BY <1>4, <1>5, <1>6

\* Calls of the application.
LEMMA RunsCalls ==
  ASSUME TypeOK, RoleInv, RunsInv, NEW t \in Tab, Call(t)
  PROVE  RunsInv'
<1>1. \A u \in Tab : Runs(u)
  BY DEF RunsInv
<1>2. phase \in [Req -> {"none", "asked", "preparing", "connecting", "hung", "holding", "over"}]
      /\ life \in [Tab -> {"new", "booting", "up", "failed", "left", "gone"}]
      /\ conn \in [Req -> {"none", "trying", "open", "backoff"}]
  BY DEF TypeOK
<1>3. CASE acquireLockOrWait(t) \/ takeOver(t)
  <2>1. Ask(t) /\ UNCHANGED <<primary, failed, strayed, conn>>
    BY <1>3 DEF acquireLockOrWait, takeOver, ws, history
  <2>2. \A u \in Tab : Attempts(u)' \subseteq Attempts(u)
    BY <2>1, AskRuns
  <2>3. ASSUME NEW u \in Tab \ {t} PROVE Runs(u)'
    <3>1. life'[u] = life[u] /\ phase'[Boot(u)] = phase[Boot(u)]
      BY <1>2, <1>3, <2>1, Asks DEF acquireLockOrWait, takeOver
    <3>2. QED
      BY <1>1, <2>1, <2>2, <3>1, RunsSame DEF Live, Unheard, Runs
  <2>4. Runs(t)'
    <3>1. CASE acquireLockOrWait(t)
      <4>1. life[t] = "new" /\ life'[t] = "booting"
        BY <1>2, <3>1 DEF acquireLockOrWait
      <4>2. t \in strayed' \/ t \in failed' \/ Attempts(t)' = {}
        BY <1>1, <2>1, <2>2, <4>1 DEF Runs, Live
      <4>3. QED
        BY <4>1, <4>2, RunsNone
    <3>2. CASE takeOver(t)
      <4>1. life[t] = "up" /\ life' = life
        BY <3>2 DEF takeOver
      <4>2. QED
        BY <1>1, <2>1, <2>2, <4>1, RunsSame DEF Live, Unheard
    <3>3. QED
      BY <1>3, <3>1, <3>2
  <2>5. QED
    BY <2>3, <2>4 DEF RunsInv
<1>4. CASE disconnect(t)
  <2>1. CloseWs(t) /\ UNCHANGED <<phase, primary, failed>> /\ life' = [life EXCEPT ![t] = "left"]
        /\ (IF UnderWay(t) THEN Stray(t) ELSE UNCHANGED strayed)
    BY <1>4 DEF disconnect
  <2>2. \A r \in Req : Preparing(r)' => Preparing(r)
    BY <2>1 DEF Preparing
  <2>3. /\ t \in strayed' \/ t \in failed' \/ Attempts(t)' = {}
        /\ \A u \in Tab \ {t} : Attempts(u)' \subseteq Attempts(u)
        /\ strayed \subseteq strayed'
    BY <1>1, <2>1, <2>2, ClosedRuns
  <2>4. ASSUME NEW u \in Tab \ {t} PROVE Runs(u)'
    <3>1. life'[u] = life[u]
      BY <1>2, <2>1
    <3>2. QED
      BY <1>1, <2>1, <2>3, <3>1, RunsSame DEF Live, Unheard, Runs
  <2>5. Runs(t)'
    BY <1>2, <2>1, <2>3, RunsNone
  <2>6. QED
    BY <2>4, <2>5 DEF RunsInv
<1>5. CASE Unload(t)
  <2>1. /\ life' = [life EXCEPT ![t] = "gone"] /\ UNCHANGED <<primary, failed, strayed>>
        /\ phase' = [r \in Req |-> IF r[1] = t THEN "over" ELSE phase[r]]
        /\ conn' = [r \in Req |-> IF r[1] = t THEN "none" ELSE conn[r]]
    BY <1>5 DEF Unload, history
  <2>2. Attempts(t)' = {}
    BY <2>1, Names DEF Attempts, Chains, Preparing
  <2>3. ASSUME NEW u \in Tab \ {t} PROVE Runs(u)'
    <3>1. life'[u] = life[u]
      BY <1>2, <2>1
    <3>2. \A r \in Requests(u) : phase'[r] = phase[r] /\ conn'[r] = conn[r]
      BY <2>1, Names
    <3>3. Attempts(u)' \subseteq Attempts(u) /\ phase'[Boot(u)] = phase[Boot(u)]
      BY <3>2, Apart DEF Attempts, Chains, Preparing
    <3>4. QED
      BY <1>1, <2>1, <3>1, <3>3, RunsSame DEF Live, Unheard, Runs
  <2>4. Runs(t)'
    BY <1>2, <2>1, <2>2, RunsNone
  <2>5. QED
    BY <2>3, <2>4 DEF RunsInv
<1>6. QED
  BY <1>3, <1>4, <1>5 DEF Call

\* What a tab hears.
LEMMA RunsHears ==
  ASSUME TypeOK, RoleInv, RunsInv, NEW t \in Tab, Hear(t)
  PROVE  RunsInv'
<1>1. PICK r \in Requests(t) : HearBusy(t, r) \/ HearGranted(t, r) \/ HearSeized(t, r) \/ HearStolen(t, r)
  BY DEF Hear
<1>2. \A u \in Tab : Runs(u) /\ Told(u)
  BY DEF RunsInv, RoleInv
<1>3. phase \in [Req -> {"none", "asked", "preparing", "connecting", "hung", "holding", "over"}]
      /\ life \in [Tab -> {"new", "booting", "up", "failed", "left", "gone"}]
      /\ conn \in [Req -> {"none", "trying", "open", "backoff"}] /\ r \in Req
  BY Names DEF TypeOK
<1>4. ASSUME NEW u \in Tab \ {t}, Attempts(u)' \subseteq Attempts(u), strayed \subseteq strayed',
             failed' = failed, life'[u] = life[u], phase'[Boot(u)] = phase[Boot(u)],
             u \in primary' <=> u \in primary
      PROVE  Runs(u)'
  BY <1>2, <1>4, RunsSame DEF Live, Unheard, Runs
<1>5. CASE HearBusy(t, r)
  <2>1. Ask(t) /\ UNCHANGED <<failed, strayed, conn>> /\ primary' = primary \ {t}
        /\ life' = [life EXCEPT ![t] = "up"]
    BY <1>5 DEF HearBusy, ws, history, armBackgroundLockWait
  <2>2. \A u \in Tab : Attempts(u)' \subseteq Attempts(u)
    BY <2>1, AskRuns
  <2>3. \A u \in Tab \ {t} : Runs(u)'
    BY <1>3, <1>4, <2>1, <2>2, Asks
  <2>4. Unheard(t)
    <3>1. Boots(<<"busy", r>>) /\ Hears(t, "busy", r)
      BY <1>5 DEF Boots, HearBusy
    <3>2. QED
      BY <3>1, Hearing
  <2>5. t \in strayed' \/ t \in failed' \/ Attempts(t)' = {}
    BY <1>2, <2>1, <2>2, <2>4 DEF Runs
  <2>6. Runs(t)'
    BY <1>3, <2>1, <2>5, RunsNone
  <2>7. QED
    BY <2>3, <2>6 DEF RunsInv
<1>6. CASE HearGranted(t, r) \/ HearSeized(t, r)
  <2>1. /\ primary' = primary \cup {t} /\ UNCHANGED <<life, failed, conn>>
        /\ strayed \subseteq strayed' /\ (life[t] = "left" => t \in strayed')
    BY <1>6 DEF HearGranted, HearSeized, ws, Stray
  <2>2. \E p \in {"holding", "preparing"} : phase' = [phase EXCEPT ![r] = p]
    BY <1>6 DEF HearGranted, HearSeized
  <2>3. \A q \in Req : q # r => phase'[q] = phase[q]
    BY <1>3, <2>2
  <2>4. ASSUME NEW u \in Tab \ {t} PROVE Runs(u)'
    <3>1. \A q \in Requests(u) : phase'[q] = phase[q]
      BY <2>3, Names
    <3>2. Attempts(u)' \subseteq Attempts(u) /\ phase'[Boot(u)] = phase[Boot(u)]
      BY <2>1, <3>1, Apart DEF Attempts, Chains, Preparing
    <3>3. QED
      BY <1>4, <2>1, <3>2
  <2>5. Runs(t)'
    <3>1. CASE t \in strayed' \/ t \in failed'
      BY <1>2, <2>1, <3>1 DEF Runs
    <3>2. CASE t \notin strayed' /\ t \notin failed'
      <4>1. PICK what \in {"granted", "seized"} : Hears(t, what, r)
        BY <1>6 DEF HearGranted, HearSeized
      <4>2. Live(t)
        <5>1. inbox[t] # <<>> /\ life[t] \notin {"left", "failed"}
          BY <1>2, <2>1, <3>2, <4>1 DEF Hears, Runs
        <5>2. life[t] \notin {"new", "gone"}
          BY <1>2, <5>1 DEF Told, Begun
        <5>3. QED
          BY <1>3, <5>1, <5>2 DEF Live
      <4>3. Unheard(t) <=> r = Boot(t)
        <5>1. Boots(<<what, r>>) <=> r = Boot(t)
          BY Apart DEF Boots, Acquired
        <5>2. QED
          BY <4>1, <5>1, Hearing
      <4>4. ~Unheard(t)'
        BY <1>3, <2>1, <2>2, <2>3, <4>3, Apart, Names DEF Unheard
      <4>5. Attempts(t) = {}
        <5>1. SUFFICES ASSUME Attempts(t) # {} PROVE FALSE
          OBVIOUS
        <5>2. t \in primary /\ ~Unheard(t)
          BY <1>2, <2>1, <3>2, <5>1 DEF Runs
        <5>3. inbox[t] # <<>> /\ ~Acquired(inbox[t][1])
          BY <1>2, <4>1, <4>2, <5>2 DEF Told, InRole, Sees, Hears
        <5>4. inbox[t][1] = <<what, r>>
          BY <4>1, Hearing
        <5>5. QED
          BY <5>3, <5>4 DEF Acquired
      <4>6. Attempts(t)' \subseteq {r}
        BY <2>1, <2>3, <4>5, Names DEF Attempts, Chains, Preparing
      <4>7. QED
        BY <2>1, <4>2, <4>4, <4>6 DEF Runs, Live
    <3>3. QED
      BY <3>1, <3>2
  <2>6. QED
    BY <2>4, <2>5 DEF RunsInv
<1>7. CASE HearStolen(t, r)
  <2>1. UNCHANGED <<life, failed>> /\ primary' = primary \ {t}
    BY <1>7 DEF HearStolen, demoteFromPrimary
  <2>2. CASE t \in primary
    <3>1. Ask(t) /\ CloseWs(t) /\ (IF UnderWay(t) THEN Stray(t) ELSE UNCHANGED strayed)
      BY <1>7, <2>2 DEF HearStolen, demoteFromPrimary, armBackgroundLockWait
    <3>2. \A q \in Req : Preparing(q)' => Preparing(q)
      BY <1>3, <3>1, Asks, Names DEF Preparing
    <3>3. /\ t \in strayed' \/ t \in failed' \/ Attempts(t)' = {}
          /\ \A u \in Tab \ {t} : Attempts(u)' \subseteq Attempts(u)
          /\ strayed \subseteq strayed'
      BY <1>2, <2>1, <3>1, <3>2, ClosedRuns
    <3>4. \A u \in Tab \ {t} : Runs(u)'
      BY <1>4, <2>1, <3>1, <3>3, Asks
    <3>5. Runs(t)'
      BY <1>2, <2>1, <3>3, RunsNone DEF Runs
    <3>6. QED
      BY <3>4, <3>5 DEF RunsInv
  <2>3. CASE t \notin primary
    <3>1. UNCHANGED <<phase, conn, strayed>>
      BY <1>7, <2>3 DEF HearStolen, ws
    <3>2. \A u \in Tab : Attempts(u)' = Attempts(u)
      BY <3>1 DEF Attempts, Chains, Preparing
    <3>3. \A u \in Tab : Runs(u)'
      BY <1>2, <2>1, <2>3, <3>1, <3>2, RunsSame DEF Runs, Live, Unheard
    <3>4. QED
      BY <3>3 DEF RunsInv
  <2>4. QED
    BY <2>2, <2>3
<1>8. QED
  BY <1>1, <1>5, <1>6, <1>7

\* Attempts go on, and none begins but in an activation.
LEMMA RunsAttempts ==
  ASSUME TypeOK, RoleInv, RunsInv, NEW r \in Req, Progress(r) \/ Trouble(r)
  PROVE  RunsInv'
<1>1. \A u \in Tab : Runs(u)
  BY DEF RunsInv
<1>2. phase \in [Req -> {"none", "asked", "preparing", "connecting", "hung", "holding", "over"}]
      /\ life \in [Tab -> {"new", "booting", "up", "failed", "left", "gone"}]
      /\ conn \in [Req -> {"none", "trying", "open", "backoff"}]
  BY DEF TypeOK
<1>3. PICK t \in Tab : t = r[1] /\ r \in Requests(t)
  BY Names DEF Requests
<1>4. strayed' = strayed /\ failed \subseteq failed'
  BY DEF Progress, Trouble, Prepared, WsOpens, TimerFires, Return, PrepareFails, WsFails, WsDrops,
         history, Activated, ActivationFailed
<1>5. /\ \A q \in Req : Preparing(q)' => Preparing(q)
      /\ \A q \in Req : conn'[q] # "none" => conn[q] # "none" \/ Preparing(q)
      /\ \A u \in Tab : phase'[Boot(u)] = "asked" => phase[Boot(u)] = "asked"
  <2>1. phase' = phase \/ \E p \in {"over", "connecting", "holding", "hung"} :
                            phase' = [phase EXCEPT ![r] = p] /\ (p = "connecting" => phase[r] = "preparing")
    BY DEF Progress, Trouble, Prepared, WsOpens, TimerFires, Return, PrepareFails, WsFails, WsDrops,
           tab, Activated, ActivationFailed
  <2>2. conn' = conn \/ \E c \in {"none", "trying", "open", "backoff"} :
                          conn' = [conn EXCEPT ![r] = c] /\ (conn[r] # "none" \/ phase[r] = "preparing")
    BY DEF Progress, Trouble, Prepared, WsOpens, TimerFires, Return, PrepareFails, WsFails, WsDrops,
           ws, ChainEnds
  <2>3. \A q \in Req : Preparing(q)' => Preparing(q)
    BY <1>2, <2>1 DEF Preparing
  <2>4. \A q \in Req : conn'[q] # "none" => conn[q] # "none" \/ Preparing(q)
    BY <1>2, <2>2 DEF Preparing
  <2>5. \A u \in Tab : Boot(u) \in Req
    BY Apart, Names
  <2>6. \A u \in Tab : phase'[Boot(u)] = "asked" => phase[Boot(u)] = "asked"
    BY <1>2, <2>1, <2>5
  <2>7. QED
    BY <2>3, <2>4, <2>6
<1>6. \A u \in Tab : Attempts(u)' \subseteq Attempts(u)
  BY <1>5, Names DEF Attempts, Chains
<1>7. CASE UNCHANGED <<primary, failed>> /\ (life' = life \/ (life[t] = "booting" /\ life' = [life EXCEPT ![t] = "up"]))
  <2>1. ASSUME NEW u \in Tab PROVE Runs(u)'
    <3>1. life'[u] = life[u] \/ (life[u] = "booting" /\ life'[u] = "up")
      BY <1>2, <1>7
    <3>2. QED
      BY <1>1, <1>4, <1>5, <1>6, <1>7, <3>1, RunsSame DEF Live, Unheard, Runs
  <2>2. QED
    BY <2>1 DEF RunsInv
<1>8. CASE ActivationFailed(r)
  <2>1. failed' = failed \cup {t} /\ \A u \in Tab \ {t} : life'[u] = life[u] /\ (u \in primary' <=> u \in primary)
    BY <1>2, <1>3, <1>8 DEF ActivationFailed
  <2>2. \A u \in Tab \ {t} : Runs(u)'
    BY <1>1, <1>4, <1>5, <1>6, <2>1, RunsSame DEF Live, Unheard, Runs
  <2>3. Runs(t)'
    BY <2>1, RunsNone
  <2>4. QED
    BY <2>2, <2>3 DEF RunsInv
<1>9. QED
  <2>1. \/ ActivationFailed(r)
        \/ Activated(r)
        \/ UNCHANGED <<life, primary, failed>>
    BY DEF Progress, Trouble, Prepared, WsOpens, TimerFires, Return, PrepareFails, WsFails, WsDrops,
           tab, history
  <2>2. Activated(r) => UNCHANGED <<primary, failed>> /\ (life' = life \/ (life[t] = "booting" /\ life' = [life EXCEPT ![t] = "up"]))
    BY <1>3 DEF Activated
  <2>3. QED
    BY <1>7, <1>8, <2>1, <2>2

\* Every step keeps the attempts of each tab within their bounds.
LEMMA RunsStep == ASSUME TypeOK, RoleInv, RunsInv, [Next]_vars PROVE RunsInv'
<1>1. CASE Grant \/ UNCHANGED vars
  <2>1. UNCHANGED <<life, phase, primary, conn, failed, strayed>>
    BY <1>1 DEF Grant, vars, tab, ws, history
  <2>2. \A t \in Tab : Attempts(t)' = Attempts(t)
    BY <2>1 DEF Attempts, Chains, Preparing
  <2>3. QED
    BY <2>1, <2>2, RunsSame DEF RunsInv, Runs, Live, Unheard
<1>2. QED
  BY <1>1, RunsCalls, RunsHears, RunsAttempts DEF Next

\* Only the tab that holds the lock, or is still to hear of its loss, runs a
\* socket, but for the tabs that are excepted.
THEOREM OnlyOneRuns == Spec => []OnlyHolderRuns
<1>1. Init => RunsInv
  <2> SUFFICES ASSUME Init, NEW t \in Tab PROVE Runs(t)
    BY DEF RunsInv
  <2>1. Attempts(t) = {} /\ life[t] = "new"
    BY Names DEF Init, Attempts, Chains, Preparing
  <2>2. QED
    BY <2>1 DEF Runs
<1>2. TypeOK /\ RoleInv /\ RunsInv /\ [Next]_vars => TypeOK' /\ RoleInv' /\ RunsInv'
  BY TypesStep, RoleStep, RunsStep
<1>3. TypeOK /\ RoleInv /\ RunsInv => OnlyHolderRuns
  <2> SUFFICES ASSUME TypeOK, RoleInv, RunsInv, NEW t \in Tab, t \notin strayed, t \notin failed,
                      OpenChains(t) # {}
               PROVE  Holds(t) \/ Robbed(t)
    BY DEF OnlyHolderRuns
  <2>1. Attempts(t) # {}
    BY DEF Attempts, Chains, OpenChains
  <2>2. Live(t) /\ ~Unheard(t) /\ t \in primary
    BY <2>1 DEF RunsInv, Runs
  <2>3. InRole(t)
    BY <2>2 DEF RoleInv, Told
  <2>4. QED
    BY <2>2, <2>3, InRoleHolds
<1>4. QED
  BY <1>1, <1>2, <1>3, RoleInit, PTL DEF Spec
-----------------------------------------------------------------------------
\* What Promotes needs of every state

\* No wake-up is lost: a secondary no activation of which failed has a request
\* in the queue, or has yet to hear of one (index.ts armBackgroundLockWait,
\* demoteFromPrimary).
SecondariesWait == \A t \in Tab : Secondary(t) => Queued(t) \/ ~HasHeard(t) \/ t \in failed

Waits(t) == Live(t) /\ t \notin primary /\ t \notin failed => Requests(t) \cap Waiting # {} \/ inbox[t] # <<>>
WaitInv == \A t \in Tab : Waits(t)

\* A tab goes on waiting if its requests stay, or news come of them.
LEMMA WaitsOn ==
  ASSUME NEW t \in Tab, Waits(t), Live(t)' => Live(t), t \notin primary' => t \notin primary \/ t \in failed',
         failed \subseteq failed', inbox[t] # <<>> => inbox'[t] # <<>>,
         Live(t) /\ Requests(t) \cap Waiting # {} => Requests(t) \cap Waiting' # {} \/ inbox'[t] # <<>>
  PROVE  Waits(t)'
BY DEF Waits

LEMMA Longer ==
  ASSUME NEW s \in Seq(Message), NEW m \in Message PROVE Append(s, m) \in Seq(Message) /\ Append(s, m) # <<>>
<1>1. Len(Append(s, m)) = Len(s) + 1 /\ Len(s) \in Nat
  OBVIOUS
<1>2. Len(<<>>) = 0
  OBVIOUS
<1> QED BY <1>1, <1>2

\* The queue keeps every page that is still there, but for the one served.
LEMMA WaitsGranted == ASSUME TypeOK, WaitInv, Grant PROVE WaitInv'
<1>1. PICK i \in 1..Len(queue) :
        /\ \A j \in 1..(i - 1) : Gone(queue[j])
        /\ queue' = SubSeq(queue, i + 1, Len(queue))
        /\ inbox' = Tell(inbox, queue[i][1], "granted", queue[i])
  BY DEF Grant
<1>2. UNCHANGED <<life, primary, failed>>
  BY DEF Grant, tab, history
<1>3. queue \in Seq(Req) /\ Len(queue) \in Nat /\ queue[i] \in Req
  BY DEF TypeOK
<1>4. queue[i][1] \in Tab
  BY <1>3 DEF Req
<1>5. /\ inbox'[queue[i][1]] = Append(inbox[queue[i][1]], <<"granted", queue[i]>>)
      /\ \A u \in Tab \ {queue[i][1]} : inbox'[u] = inbox[u]
      /\ inbox[queue[i][1]] \in Seq(Message) /\ <<"granted", queue[i]>> \in Message
  BY <1>1, <1>3, <1>4, Telling
<1>6. inbox'[queue[i][1]] # <<>>
  BY <1>5, Longer
<1>7. \A k \in (i + 1)..Len(queue) : queue[k] \in Waiting'
  <2> SUFFICES ASSUME NEW k \in (i + 1)..Len(queue) PROVE queue[k] \in Waiting'
    OBVIOUS
  <2>1. k - i \in 1..Len(queue') /\ queue'[k - i] = queue[k]
    BY <1>1, <1>3
  <2> QED BY <2>1 DEF Waiting
<1>8. ASSUME NEW t \in Tab PROVE Waits(t)'
  <2>1. CASE t = queue[i][1]
    BY <1>6, <2>1 DEF Waits
  <2>2. CASE t # queue[i][1]
    <3>1. ASSUME Live(t), Requests(t) \cap Waiting # {} PROVE Requests(t) \cap Waiting' # {}
      <4>1. PICK k \in 1..Len(queue) : queue[k] \in Requests(t)
        BY <3>1 DEF Waiting
      <4>2. ~Gone(queue[k]) /\ k # i
        BY <2>2, <3>1, <4>1 DEF Gone, Live, Requests
      <4>3. k \in (i + 1)..Len(queue)
        BY <1>1, <1>3, <4>2
      <4> QED BY <1>7, <4>1, <4>3
    <3>2. inbox'[t] = inbox[t] /\ Live(t)' = Live(t) /\ Waits(t)
      BY <1>2, <1>5, <2>2 DEF Live, WaitInv
    <3> QED BY <1>2, <3>1, <3>2, WaitsOn
  <2> QED BY <2>1, <2>2
<1> QED BY <1>8 DEF WaitInv

\* A takeover tells both tabs.
LEMMA WaitsSteals == ASSUME TypeOK, WaitInv, NEW t \in Tab, takeOver(t) PROVE WaitInv'
<1> DEFINE n == NextRequest(t)
           told == IF holder = NoReq THEN inbox ELSE Tell(inbox, holder[1], "stolen", holder)
<1>1. /\ UNCHANGED <<life, primary, queue, failed>> /\ inbox' = Tell(told, t, "seized", n)
      /\ n \in Req
  BY DEF takeOver, Ask
<1>2. inbox \in [Tab -> Seq(Message)] /\ holder \in Req \cup {NoReq}
  BY DEF TypeOK, Message
<1>3. told \in [Tab -> Seq(Message)] /\ \A u \in Tab : inbox[u] # <<>> => told[u] # <<>>
  <2>1. CASE holder = NoReq
    BY <1>2, <2>1
  <2>2. CASE holder # NoReq
    <3>1. holder[1] \in Tab /\ <<"stolen", holder>> \in Message
      BY <1>2, <2>2 DEF Req, Message
    <3>2. told = [inbox EXCEPT ![holder[1]] = Append(inbox[holder[1]], <<"stolen", holder>>)]
      BY <2>2 DEF Tell
    <3> HIDE DEF told
    <3>3. \A u \in Tab : inbox[u] \in Seq(Message)
      BY <1>2
    <3>4. Append(inbox[holder[1]], <<"stolen", holder>>) \in Seq(Message)
          /\ Append(inbox[holder[1]], <<"stolen", holder>>) # <<>>
      BY <3>1, <3>3, Longer
    <3>5. \A u \in Tab : told[u] = IF u = holder[1] THEN Append(inbox[holder[1]], <<"stolen", holder>>) ELSE inbox[u]
      BY <1>2, <3>2
    <3>6. told \in [Tab -> Seq(Message)]
      BY <1>2, <3>1, <3>2, <3>4
    <3> QED BY <3>4, <3>5, <3>6
  <2> QED BY <2>1, <2>2
<1> HIDE DEF told
<1>4. <<"seized", n>> \in Message
  BY <1>1 DEF Message
<1>5. \A u \in Tab : inbox[u] # <<>> => inbox'[u] # <<>>
  <2>1. inbox' = [told EXCEPT ![t] = Append(told[t], <<"seized", n>>)]
    BY <1>1 DEF Tell
  <2>2. Append(told[t], <<"seized", n>>) # <<>>
    BY <1>3, <1>4, Longer
  <2> QED BY <1>3, <2>1, <2>2
<1>6. Waiting' = Waiting
  BY <1>1, WaitingTypes
<1>7. ASSUME NEW u \in Tab PROVE Waits(u)'
  <2>1. Waits(u) /\ (Live(u)' <=> Live(u))
    BY <1>1 DEF WaitInv, Live
  <2> QED BY <1>1, <1>5, <1>6, <2>1, WaitsOn
<1> QED BY <1>7 DEF WaitInv

\* A tab that hears that it is secondary asks for the lock.
LEMMA WaitsHears == ASSUME TypeOK, RoleInv, WaitInv, NEW t \in Tab, Hear(t) PROVE WaitInv'
<1>1. PICK r \in Requests(t) : HearBusy(t, r) \/ HearGranted(t, r) \/ HearSeized(t, r) \/ HearStolen(t, r)
  BY DEF Hear
<1>2. failed' = failed /\ \A u \in Tab \ {t} : life'[u] = life[u] /\ (u \in primary' <=> u \in primary)
  BY <1>1 DEF HearBusy, HearGranted, HearSeized, HearStolen, demoteFromPrimary, history, TypeOK
<1>3. \/ Ask(t) /\ queue' = Append(queue, NextRequest(t))
      \/ UNCHANGED queue
  BY <1>1 DEF HearBusy, HearGranted, HearSeized, HearStolen, demoteFromPrimary, armBackgroundLockWait
<1>4. \/ NextRequest(t) \in Requests(t) /\ Waiting' = Waiting \cup {NextRequest(t)}
      \/ UNCHANGED queue /\ Waiting' = Waiting
  BY <1>3, Asks, WaitingTypes DEF Ask
<1>5. \E what \in {"granted", "seized", "busy", "stolen"} : Hears(t, what, r)
  BY <1>1 DEF HearBusy, HearGranted, HearSeized, HearStolen
<1>6. \A u \in Tab \ {t} : inbox'[u] = inbox[u]
  BY <1>5, Hearing
<1>7. ASSUME NEW u \in Tab \ {t} PROVE Waits(u)'
  <2>1. Waits(u) /\ (Live(u)' <=> Live(u))
    BY <1>2 DEF WaitInv, Live
  <2>2. Waiting \subseteq Waiting'
    BY <1>4
  <2> QED BY <1>2, <1>6, <2>1, <2>2, WaitsOn
<1>8. Waits(t)'
  <2>1. CASE HearGranted(t, r) \/ HearSeized(t, r)
    BY <2>1 DEF HearGranted, HearSeized, Waits
  <2>2. CASE HearBusy(t, r) \/ (HearStolen(t, r) /\ t \in primary)
    <3>1. Ask(t) /\ queue' = Append(queue, NextRequest(t))
      BY <2>2 DEF HearBusy, HearStolen, demoteFromPrimary, armBackgroundLockWait
    <3>2. NextRequest(t) \in Requests(t) /\ Waiting' = Waiting \cup {NextRequest(t)}
      BY <3>1, Asks, WaitingTypes DEF Ask
    <3> QED BY <3>2 DEF Waits
  <2>3. CASE HearStolen(t, r) /\ t \notin primary
    <3>1. Hears(t, "stolen", r) /\ life' = life
      BY <2>3 DEF HearStolen
    <3>2. ~Boots(<<"stolen", r>>) /\ ~Acquired(<<"stolen", r>>)
      BY DEF Boots, Acquired
    <3>3. ~Unheard(t) /\ inbox[t] # <<>> /\ inbox[t][1] = <<"stolen", r>>
      BY <3>1, <3>2, Hearing
    <3>4. Sees(t, inbox[t], holder)
      BY <3>2, <3>3 DEF Sees
    <3>5. Live(t) => t \in failed
      BY <2>3, <3>3, <3>4 DEF RoleInv, Told, InRole
    <3> QED BY <1>2, <3>1, <3>5 DEF Waits, Live
  <2> QED BY <1>1, <2>1, <2>2, <2>3
<1> QED BY <1>7, <1>8 DEF WaitInv

\* Every step keeps the tabs waiting.
LEMMA WaitStep == ASSUME TypeOK, RoleInv, WaitInv, [Next]_vars PROVE WaitInv'
<1>1. ASSUME UNCHANGED <<inbox, queue>>, failed \subseteq failed',
             \A t \in Tab : (Live(t)' => Live(t)) /\ (t \notin primary' => t \notin primary \/ t \in failed')
      PROVE  WaitInv'
  <2>1. Waiting' = Waiting
    BY <1>1, WaitingTypes
  <2>2. \A t \in Tab : Waits(t)'
    BY <1>1, <2>1, WaitsOn DEF WaitInv
  <2> QED BY <2>2 DEF WaitInv
<1>2. ASSUME NEW t \in Tab, acquireLockOrWait(t) PROVE WaitInv'
  <2>1. UNCHANGED <<primary, queue, failed>> /\ \A u \in Tab \ {t} : life'[u] = life[u]
    BY <1>2 DEF acquireLockOrWait, history, TypeOK
  <2>2. PICK what \in {"granted", "busy"} : inbox' = Tell(inbox, t, what, NextRequest(t))
    BY <1>2 DEF acquireLockOrWait
  <2>3. NextRequest(t) \in Req
    BY <1>2 DEF acquireLockOrWait, Ask
  <2>4. /\ inbox'[t] = Append(inbox[t], <<what, NextRequest(t)>>) /\ \A u \in Tab \ {t} : inbox'[u] = inbox[u]
        /\ inbox[t] \in Seq(Message)
    BY <2>2, <2>3, Telling
  <2>5. Waits(t)'
    BY <2>4 DEF Waits
  <2>6. Waiting' = Waiting
    BY <2>1, WaitingTypes
  <2>7. ASSUME NEW u \in Tab \ {t} PROVE Waits(u)'
    BY <2>1, <2>4, <2>6, WaitsOn DEF WaitInv, Live
  <2> QED BY <2>5, <2>7 DEF WaitInv
<1>3. ASSUME NEW t \in Tab, disconnect(t) PROVE WaitInv'
  <2>1. \A u \in Tab : Live(u)' => Live(u)
    BY <1>3 DEF disconnect, Live, TypeOK
  <2> QED BY <1>1, <1>3, <2>1 DEF disconnect, browser
<1>4. ASSUME NEW t \in Tab, Unload(t) PROVE WaitInv'
  <2>1. ~Live(t)' /\ UNCHANGED <<queue, primary, failed>>
        /\ \A u \in Tab \ {t} : (Live(u)' <=> Live(u)) /\ inbox'[u] = inbox[u]
    BY <1>4 DEF Unload, Live, history, TypeOK
  <2>2. Waiting' = Waiting
    BY <2>1, WaitingTypes
  <2>3. Waits(t)'
    BY <2>1 DEF Waits
  <2>4. ASSUME NEW u \in Tab \ {t} PROVE Waits(u)'
    BY <2>1, <2>2, WaitsOn DEF WaitInv
  <2> QED BY <2>3, <2>4 DEF WaitInv
<1>5. ASSUME NEW r \in Req, Return(r) PROVE WaitInv'
  BY <1>1, <1>5 DEF Return, history, Live
<1>6. ASSUME NEW r \in Req,
             Prepared(r) \/ WsOpens(r) \/ TimerFires(r) \/ PrepareFails(r) \/ WsFails(r) \/ WsDrops(r)
      PROVE  WaitInv'
  <2>1. UNCHANGED <<inbox, queue>>
    BY <1>6 DEF Prepared, WsOpens, TimerFires, PrepareFails, WsFails, WsDrops, browser
  <2>2. UNCHANGED <<life, primary, failed>> \/ Activated(r) \/ ActivationFailed(r)
    BY <1>6 DEF Prepared, WsOpens, TimerFires, PrepareFails, WsFails, WsDrops, tab, history
  <2>3. CASE UNCHANGED <<life, primary, failed>>
    BY <1>1, <2>1, <2>3 DEF Live
  <2>4. CASE Activated(r)
    <3>1. UNCHANGED <<primary, failed>> /\ \A u \in Tab : Live(u)' => Live(u)
      BY <2>4 DEF Activated, Live, TypeOK
    <3> QED BY <1>1, <2>1, <3>1
  <2>5. CASE ActivationFailed(r)
    <3>1. failed' = failed \cup {r[1]} /\ \A u \in Tab : u \notin primary' => u \notin primary \/ u = r[1]
      BY <2>5 DEF ActivationFailed
    <3>2. \A u \in Tab : Live(u)' => Live(u)
      BY <2>5 DEF ActivationFailed, Live, TypeOK
    <3> QED BY <1>1, <2>1, <3>1, <3>2
  <2> QED BY <2>2, <2>3, <2>4, <2>5
<1>7. CASE UNCHANGED vars
  BY <1>1, <1>7 DEF vars, tab, browser, history, Live
<1> QED BY <1>2, <1>3, <1>4, <1>5, <1>6, <1>7, WaitsGranted, WaitsSteals, WaitsHears DEF Next, Call, Progress, Trouble

\* A secondary always waits for the lock, for any number of tabs, takeovers and
\* faults, unless an activation of it failed.
THEOREM NobodyStopsWaiting == Spec => []SecondariesWait
<1>1. Init => WaitInv
  BY DEF Init, WaitInv, Waits
<1>2. WaitInv => SecondariesWait
  BY DEF WaitInv, Waits, SecondariesWait, Secondary, Live, Queued, HasHeard, Waiting
<1>3. TypeOK /\ RoleInv /\ WaitInv /\ [Next]_vars => TypeOK' /\ RoleInv' /\ WaitInv'
  BY TypesStep, RoleStep, WaitStep
<1> QED BY <1>1, <1>2, <1>3, RoleInit, PTL DEF Spec
=============================================================================
