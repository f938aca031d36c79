----------------------------- MODULE OutboxProofs -----------------------------
(***************************************************************************)
(* Proofs about Outbox: as long as no two ticks overlap, nothing that was  *)
(* accepted is lost and every message has one fate, for any number of      *)
(* entries and messages and any retry budget.                              *)
(***************************************************************************)
EXTENDS Outbox, TLAPS

-----------------------------------------------------------------------------
\* Sequences

Distinct(s) == \A i, j \in 1..Len(s) : s[i] = s[j] => i = j

\* What a push does to a sequence.
LEMMA AppendMembers ==
  ASSUME NEW S, NEW s \in Seq(S), NEW e \in S
  PROVE /\ Append(s, e) \in Seq(S) /\ Append(s, e) # <<>>
        /\ Members(Append(s, e)) = Members(s) \cup {e}
        /\ Distinct(s) /\ e \notin Members(s) => Distinct(Append(s, e))
<1> DEFINE t == Append(s, e)
<1>1. /\ t \in Seq(S) /\ t # <<>> /\ Len(t) = Len(s) + 1 /\ Len(s) \in Nat
      /\ \A i \in 1..Len(s) : t[i] = s[i]
      /\ t[Len(s) + 1] = e
  OBVIOUS
<1>2. 1..(Len(s) + 1) = 1..Len(s) \cup {Len(s) + 1}
  BY <1>1
<1> HIDE DEF t
<1>3. Members(t) = Members(s) \cup {e}
  BY <1>1, <1>2 DEF Members
<1>4. ASSUME Distinct(s), e \notin Members(s) PROVE Distinct(t)
  <2> SUFFICES ASSUME NEW i \in 1..Len(t), NEW j \in 1..Len(t), t[i] = t[j] PROVE i = j
    BY DEF Distinct
  <2>1. CASE i \in 1..Len(s) /\ j \in 1..Len(s)
    BY <1>1, <1>4, <2>1 DEF Distinct
  <2>2. CASE i \in 1..Len(s) /\ j = Len(s) + 1
    BY <1>1, <1>4, <2>2 DEF Members
  <2>3. CASE i = Len(s) + 1 /\ j \in 1..Len(s)
    BY <1>1, <1>4, <2>3 DEF Members
  <2>4. QED
    BY <1>1, <1>2, <2>1, <2>2, <2>3
<1>5. QED
  BY <1>1, <1>3, <1>4 DEF t

\* What going past the head of a sequence does.
LEMMA TailMembers ==
  ASSUME NEW S, NEW s \in Seq(S), s # <<>>
  PROVE /\ Tail(s) \in Seq(S) /\ Head(s) \in S
        /\ Members(s) = {Head(s)} \cup Members(Tail(s))
        /\ Distinct(s) => Distinct(Tail(s)) /\ Head(s) \notin Members(Tail(s))
<1> DEFINE t == Tail(s)
           h == Head(s)
<1>1. /\ t \in Seq(S) /\ h \in S /\ Len(s) \in Nat \ {0} /\ Len(t) = Len(s) - 1
      /\ \A i \in 1..Len(t) : t[i] = s[i + 1]
      /\ h = s[1]
  OBVIOUS
<1> HIDE DEF t, h
<1>2. Members(s) = {h} \cup Members(t)
  <2>1. Members(s) \subseteq {h} \cup Members(t)
    <3> SUFFICES ASSUME NEW i \in 1..Len(s), i # 1 PROVE s[i] \in Members(t)
      BY <1>1 DEF Members
    <3>1. i - 1 \in 1..Len(t) /\ t[i - 1] = s[i]
      BY <1>1
    <3>2. QED
      BY <3>1 DEF Members
  <2>2. {h} \cup Members(t) \subseteq Members(s)
    <3>1. 1 \in 1..Len(s)
      BY <1>1
    <3>2. \A i \in 1..Len(t) : i + 1 \in 1..Len(s)
      BY <1>1
    <3>3. QED
      BY <1>1, <3>1, <3>2 DEF Members
  <2>3. QED
    BY <2>1, <2>2
<1>3. ASSUME Distinct(s) PROVE Distinct(t) /\ h \notin Members(t)
  <2>1. \A i \in 1..Len(t) : i + 1 \in 1..Len(s) /\ i + 1 # 1
    BY <1>1
  <2>2. 1 \in 1..Len(s)
    BY <1>1
  <2>3. h \notin Members(t)
    BY <1>1, <1>3, <2>1, <2>2 DEF Members, Distinct
  <2>4. ASSUME NEW i \in 1..Len(t), NEW j \in 1..Len(t), t[i] = t[j] PROVE i = j
    <3>1. i + 1 = j + 1
      BY <1>1, <1>3, <2>1, <2>4 DEF Distinct
    <3>2. QED
      BY <3>1
  <2>5. QED
    BY <2>3, <2>4 DEF Distinct
<1>4. QED
  BY <1>1, <1>2, <1>3 DEF t, h

\* An empty sequence has no members.
LEMMA EmptyMembers == Members(<<>>) = {} /\ Distinct(<<>>)
  BY DEF Members, Distinct

-----------------------------------------------------------------------------
\* Types

USE MaxAttemptsAssumption, MaxTicksAssumption, NoMsgAssumption

\* NoTick is no tick.
LEMMA NoTickIsNone == NoTick \notin Tick
  BY NoTickAssumption DEF Tick

\* A tick that is started, and one that a push reaches, are ticks.
LEMMA StartIsTick == ASSUME NEW q \in Seq(Entry) PROVE StartTick(q) \in Tick
<1>1. <<>> \in Seq(Entry)
  OBVIOUS
<1>2. QED
  BY <1>1 DEF StartTick, Tick

LEMMA PushIsTick ==
  ASSUME NEW t \in Tick, NEW e \in Entry PROVE Push(t, e) \in Tick
<1>1. Append(t.rest, e) \in Seq(Entry)
  BY DEF Tick
<1>2. QED
  BY <1>1 DEF Push, Tick

LEMMA PushAllAreTicks ==
  ASSUME NEW ts \in Seq(Tick), NEW e \in Entry PROVE PushAll(ts, e) \in Seq(Tick)
<1>1. \A i \in 1..Len(ts) : ts[i] \in Tick
  OBVIOUS
<1>2. \A i \in 1..Len(ts) : Push(ts[i], e) \in Tick
  BY <1>1, PushIsTick
<1>3. Len(ts) \in Nat
  OBVIOUS
<1>4. QED
  BY <1>2, <1>3 DEF PushAll

\* The tick suspended first, when it awaits an entry, and after it.
LEMMA ResumedIsTick ==
  ASSUME TypeOK, suspended # <<>>, Head(suspended).rest # <<>>
  PROVE /\ Head(suspended) \in Tick /\ Tail(suspended) \in Seq(Tick)
        /\ Awaited \in Entry /\ Resumed \in Tick
        /\ [Resumed EXCEPT !.still = Append(@, Awaited)] \in Tick
<1>1. Head(suspended) \in Tick /\ Tail(suspended) \in Seq(Tick)
  BY DEF TypeOK
<1>2. Head(suspended).rest \in Seq(Entry) /\ Head(suspended).still \in Seq(Entry)
  BY <1>1 DEF Tick
<1>3. Awaited \in Entry /\ Tail(Head(suspended).rest) \in Seq(Entry)
  BY <1>2 DEF Awaited
<1>4. Append(Head(suspended).still, Awaited) \in Seq(Entry)
  BY <1>2, <1>3
<1>5. QED
  BY <1>1, <1>3, <1>4 DEF Resumed, Tick

\* A suspended tick awaits something.
Awaiting == \A i \in 1..Len(suspended) : suspended[i].rest # <<>>

LEMMA TypesStep ==
  ASSUME TypeOK, Awaiting, [Next]_vars PROVE TypeOK' /\ Awaiting'
<1>0. Len(suspended) \in Nat /\ \A i \in 1..Len(suspended) : suspended[i] \in Tick
  BY DEF TypeOK
<1>1. suspended # <<>> => Head(suspended) = suspended[1] /\ 1 \in 1..Len(suspended)
  BY DEF TypeOK
<1>2. ASSUME NEW e \in Entry, NEW m \in Msg, Send(e, m) PROVE TypeOK' /\ Awaiting'
  <2>1. CASE EnqueueNew(e, m)
    <3>1. Append(queue, e) \in Seq(Entry)
      BY DEF TypeOK
    <3>2. StartTick(Append(queue, e)) \in Tick /\ PushAll(suspended, e) \in Seq(Tick)
      BY <3>1, StartIsTick, PushAllAreTicks DEF TypeOK
    <3>3. Awaiting'
      <4>1. Len(suspended') = Len(suspended)
            /\ \A i \in 1..Len(suspended) : suspended'[i] = Push(suspended[i], e)
        BY <1>0, <2>1 DEF EnqueueNew, PushAll
      <4>2. \A i \in 1..Len(suspended) : Push(suspended[i], e).rest # <<>>
        <5> SUFFICES ASSUME NEW i \in 1..Len(suspended) PROVE Push(suspended[i], e).rest # <<>>
          OBVIOUS
        <5>1. suspended[i].rest \in Seq(Entry) /\ suspended[i].rest # <<>>
          BY <1>0 DEF Awaiting, Tick
        <5>2. Append(suspended[i].rest, e) # <<>>
          BY <5>1
        <5>3. QED
          BY <1>0, <5>1, <5>2 DEF Push, Tick
      <4>3. QED
        BY <4>1, <4>2 DEF Awaiting
    <3>4. TypeOK'
      BY <1>2, <2>1, <3>1, <3>2 DEF TypeOK, Send, EnqueueNew
    <3>5. QED
      BY <3>3, <3>4
  <2>2. CASE EnqueueAgain(m)
    BY <1>2, <2>2, StartIsTick DEF TypeOK, Awaiting, Send, EnqueueAgain
  <2>3. QED
    BY <1>2, <2>1, <2>2 DEF Send
<1>3. CASE WsOpen
  BY <1>3, StartIsTick DEF TypeOK, Awaiting, WsOpen
<1>4. CASE WsDown \/ UNCHANGED vars
  BY <1>4 DEF TypeOK, Awaiting, WsDown, vars
<1>5. ASSUME NEW e \in Entry, Elapse(e) PROVE TypeOK' /\ Awaiting'
  BY <1>5 DEF TypeOK, Awaiting, Elapse
<1>6. CASE SkipNotDue
  <2>1. running \in Tick /\ running.rest \in Seq(Entry) /\ running.still \in Seq(Entry)
    BY <1>6 DEF SkipNotDue, TypeOK, Tick
  <2>2. Tail(running.rest) \in Seq(Entry) /\ Append(running.still, Head(running.rest)) \in Seq(Entry)
    BY <1>6, <2>1 DEF SkipNotDue
  <2>3. [running EXCEPT !.rest = Tail(@), !.still = Append(@, Head(running.rest))] \in Tick
    BY <2>1, <2>2 DEF Tick
  <2>4. QED
    BY <1>6, <2>3 DEF TypeOK, Awaiting, SkipNotDue
<1>7. CASE Attempt
  <2> DEFINE t == [running EXCEPT !.ok = (ws = "open")]
  <2>1. running \in Tick /\ running.rest \in Seq(Entry) /\ running.rest # <<>>
    BY <1>7 DEF Attempt, TypeOK, Tick
  <2>2. t \in Tick /\ t.rest # <<>> /\ Head(running.rest) \in Entry
    <3> DEFINE b == ws = "open"
    <3>1. b \in BOOLEAN
      OBVIOUS
    <3> HIDE DEF b
    <3>2. [running EXCEPT !.ok = b] \in Tick /\ [running EXCEPT !.ok = b].rest = running.rest
      BY <2>1, <3>1 DEF Tick
    <3>3. QED
      BY <2>1, <3>2 DEF b
  <2> HIDE DEF t
  <2>3. suspended' = Append(suspended, t)
    BY <1>7 DEF Attempt, t
  <2>4. /\ suspended' \in Seq(Tick) /\ Len(suspended') = Len(suspended) + 1
        /\ \A i \in 1..Len(suspended) : suspended'[i] = suspended[i]
        /\ suspended'[Len(suspended) + 1] = t
    BY <2>2, <2>3 DEF TypeOK
  <2>5. Awaiting'
    <3>1. 1..Len(suspended') = 1..Len(suspended) \cup {Len(suspended) + 1}
      BY <1>0, <2>4
    <3>2. \A i \in 1..Len(suspended) : suspended'[i].rest # <<>>
      BY <2>4 DEF Awaiting
    <3>3. suspended'[Len(suspended) + 1].rest # <<>>
      BY <2>2, <2>4
    <3>4. QED
      BY <3>1, <3>2, <3>3 DEF Awaiting
  <2>6. TypeOK'
    <3>1. wire' \in [Entry -> Nat] /\ running' \in Tick \cup {NoTick}
      BY <1>7, <2>2 DEF TypeOK, Attempt
    <3>2. QED
      BY <1>7, <2>4, <3>1 DEF TypeOK, Attempt
  <2>7. QED
    BY <2>5, <2>6
<1>8. CASE EndTick
  <2>1. running \in Tick /\ running.still \in Seq(Entry)
    BY <1>8 DEF EndTick, TypeOK, Tick
  <2>2. \A i \in 1..Len(suspended) :
           [suspended[i] EXCEPT !.live = FALSE] \in Tick
           /\ [suspended[i] EXCEPT !.live = FALSE].rest = suspended[i].rest
    BY <1>0 DEF Tick
  <2>3. /\ suspended' \in Seq(Tick) /\ Len(suspended') = Len(suspended)
        /\ \A i \in 1..Len(suspended) : suspended'[i] = [suspended[i] EXCEPT !.live = FALSE]
    BY <1>0, <1>8, <2>2 DEF EndTick
  <2>4. Awaiting'
    BY <2>2, <2>3 DEF Awaiting
  <2>5. TypeOK'
    BY <1>8, <2>1, <2>3 DEF TypeOK, EndTick
  <2>6. QED
    BY <2>4, <2>5
<1>9. CASE AttemptSucceeded \/ AttemptExhausted \/ AttemptRescheduled
  <2>1. suspended # <<>> /\ Head(suspended).rest # <<>>
    BY <1>1, <1>9 DEF Awaiting, AttemptSucceeded, AttemptExhausted, AttemptRescheduled, CanResume
  <2>2. Awaiting'
    <3>1. suspended' = Tail(suspended)
      BY <1>9 DEF AttemptSucceeded, AttemptExhausted, AttemptRescheduled
    <3>2. Len(suspended') = Len(suspended) - 1
          /\ \A i \in 1..Len(suspended') : suspended'[i] = suspended[i + 1]
      BY <2>1, <3>1 DEF TypeOK
    <3>3. QED
      BY <1>0, <3>2 DEF Awaiting
  <2>3. CASE AttemptSucceeded
    BY <2>1, <2>2, <2>3, ResumedIsTick DEF TypeOK, AttemptSucceeded
  <2>4. CASE AttemptExhausted
    <3>1. Awaited \in Entry
      BY <2>1, ResumedIsTick
    <3>2. gaveUp' \in [Entry -> Nat]
      BY <2>4, <3>1 DEF TypeOK, AttemptExhausted
    <3>3. QED
      BY <2>1, <2>2, <2>4, <3>2, ResumedIsTick DEF TypeOK, AttemptExhausted
  <2>5. CASE AttemptRescheduled
    BY <2>1, <2>2, <2>5, ResumedIsTick DEF TypeOK, AttemptRescheduled
  <2>6. QED
    BY <1>9, <2>3, <2>4, <2>5
<1>10. QED
  BY <1>2, <1>3, <1>4, <1>5, <1>6, <1>7, <1>8, <1>9 DEF Next, TickStep

\* The types of the outbox, and that a suspended tick awaits an entry.
THEOREM OutboxTypes == Spec => [](TypeOK /\ Awaiting)
<1>1. Init => TypeOK /\ Awaiting
  <2>1. <<>> \in Seq(Entry) /\ <<>> \in Seq(Tick) /\ Len(<<>>) = 0
    OBVIOUS
  <2>2. ASSUME Init PROVE TypeOK
    <3>1. queue \in Seq(Entry) /\ suspended \in Seq(Tick) /\ running \in Tick \cup {NoTick}
      BY <2>1, <2>2 DEF Init
    <3>2. /\ inflightIds \subseteq Msg /\ idOf \in [Entry -> Msg \cup {NoMsg}]
          /\ attempts \in [Entry -> Nat] /\ due \subseteq Entry /\ ws \in {"open", "down"}
          /\ wire \in [Entry -> Nat] /\ gaveUp \in [Entry -> Nat] /\ overlapped \in BOOLEAN
      BY <2>2 DEF Init
    <3>3. QED
      BY <3>1, <3>2 DEF TypeOK
  <2>3. Init => Awaiting
    BY <2>1 DEF Init, Awaiting
  <2>4. QED
    BY <2>2, <2>3
<1>2. TypeOK /\ Awaiting /\ [Next]_vars => (TypeOK /\ Awaiting)'
  BY TypesStep
<1>3. QED
  BY <1>1, <1>2, PTL DEF Spec

-----------------------------------------------------------------------------
\* One tick at a time

\* The tick in progress, if there is one, and the entry it awaits.
InProgress == running # NoTick \/ suspended # <<>>
Current == IF running # NoTick THEN running ELSE Head(suspended)
Attempted == IF running = NoTick /\ suspended # <<>> THEN {Head(Current.rest)} ELSE {}

\* The entries the outbox still has to see to.
Waiting ==
  IF InProgress THEN Members(Current.rest) \cup Members(Current.still) ELSE Members(queue)

\* The tick walks what it was started on and builds what will replace it.
OneTick ==
  /\ running # NoTick => suspended = <<>>
  /\ Len(suspended) <= 1
  /\ Distinct(queue)
  /\ InProgress =>
       /\ Distinct(Current.rest) /\ Distinct(Current.still)
       /\ Members(Current.rest) \cap Members(Current.still) = {}
       /\ Waiting \subseteq Members(queue)

\* What became of each entry; `pending' are those to see to, `asked' the one
\* awaited, `sent' what its attempt came to.
Fates(pending, asked, sent) ==
  /\ \A e \in Entry : wire[e] + gaveUp[e] <= 1
  /\ \A e \in pending \ asked : wire[e] = 0 /\ gaveUp[e] = 0
  /\ \A e \in asked : gaveUp[e] = 0 /\ (sent => wire[e] = 1) /\ (~sent => wire[e] = 0)
  /\ \A e \in Entry : Accepted(e) /\ ~Settled(e) => e \in pending
  /\ \A e \in Entry : ~Accepted(e) => wire[e] = 0 /\ gaveUp[e] = 0
  /\ \A e \in Members(queue) : Accepted(e)
  /\ \A e \in pending : Accepted(e) /\ idOf[e] \in inflightIds
  /\ \A e, f \in pending : idOf[e] = idOf[f] => e = f

OutboxInv == ~overlapped => OneTick /\ Fates(Waiting, Attempted, Current.ok)

\* Without a tick the queue is what there is to see to; a tick that starts
\* walks it from its beginning.
LEMMA Idle ==
  ASSUME running = NoTick, suspended = <<>>
  PROVE ~InProgress /\ Waiting = Members(queue) /\ Attempted = {}
  BY DEF InProgress, Waiting, Attempted

\* A tick that holds the thread awaits nothing.
LEMMA Running ==
  ASSUME running \in Tick
  PROVE /\ InProgress /\ Current = running /\ Attempted = {}
        /\ Waiting = Members(running.rest) \cup Members(running.still)
  BY NoTickIsNone DEF InProgress, Current, Waiting, Attempted

\* Steps in which a tick starts on the array, and the queue, the ids and the
\* fates stay.
LEMMA StartStep ==
  ASSUME TypeOK, OneTick, Fates(Waiting, Attempted, Current.ok), running = NoTick, suspended = <<>>,
         running' = StartTick(queue),
         UNCHANGED <<queue, suspended, idOf, inflightIds, wire, gaveUp>>
  PROVE OneTick' /\ Fates(Waiting, Attempted, Current.ok)'
<1>1. Waiting = Members(queue) /\ Attempted = {}
  BY Idle
<1>2. running' \in Tick /\ running'.rest = queue /\ running'.still = <<>>
  BY StartIsTick DEF TypeOK, StartTick
<1>3. InProgress' /\ Current' = running' /\ Attempted' = {}
  BY <1>2, NoTickIsNone DEF InProgress, Current, Attempted
<1>4. Waiting' = Members(queue)
  BY <1>2, <1>3, EmptyMembers DEF Waiting
<1>5. OneTick'
  BY <1>2, <1>3, <1>4, EmptyMembers DEF OneTick
<1>6. Fates(Waiting, Attempted, Current.ok)'
  BY <1>1, <1>3, <1>4 DEF Fates, Accepted, Settled
<1>7. QED
  BY <1>5, <1>6

\* An id that is not in flight gets a new entry, at the end of the array.
LEMMA EnqueueStep ==
  ASSUME TypeOK, OneTick, Fates(Waiting, Attempted, Current.ok), running = NoTick, suspended = <<>>,
         NEW e \in Entry, NEW m \in Msg, ~Accepted(e), EnqueueNew(e, m), UNCHANGED <<wire, gaveUp>>
  PROVE OneTick' /\ Fates(Waiting, Attempted, Current.ok)'
<1> DEFINE q == Append(queue, e)
<1>1. Waiting = Members(queue) /\ Attempted = {}
  BY Idle
<1>2. e \notin Members(queue) /\ queue \in Seq(Entry) /\ Members(queue) \subseteq Entry
  <2>1. queue \in Seq(Entry) /\ \A i \in 1..Len(queue) : queue[i] \in Entry
    BY DEF TypeOK
  <2>2. Members(queue) \subseteq Entry
    BY <2>1 DEF Members
  <2>3. e \notin Members(queue)
    BY DEF Fates
  <2>4. QED
    BY <2>1, <2>2, <2>3
<1>3. q \in Seq(Entry) /\ Members(q) = Members(queue) \cup {e} /\ Distinct(q)
  BY <1>2, AppendMembers DEF OneTick
<1>4. running' = StartTick(q) /\ queue' = q
  BY DEF EnqueueNew
<1> HIDE DEF q
<1>5. running' \in Tick /\ running'.rest = q /\ running'.still = <<>>
  BY <1>3, <1>4, StartIsTick DEF StartTick
<1>6. suspended' = <<>>
  BY DEF EnqueueNew, PushAll
<1>7. InProgress' /\ Current' = running' /\ Attempted' = {}
  BY <1>5, NoTickIsNone DEF InProgress, Current, Attempted
<1>8. Waiting' = Members(q)
  BY <1>5, <1>7, EmptyMembers DEF Waiting
<1>9. OneTick'
  BY <1>3, <1>4, <1>5, <1>6, <1>7, <1>8, EmptyMembers DEF OneTick
<1>10. /\ inflightIds' = inflightIds \cup {m} /\ m \notin inflightIds
       /\ idOf' = [idOf EXCEPT ![e] = m] /\ idOf \in [Entry -> Msg \cup {NoMsg}]
  BY DEF EnqueueNew, TypeOK
<1>11. Fates(Waiting, Attempted, Current.ok)'
  <2>1. \A f \in Members(q) : f = e \/ (f \in Members(queue) /\ f # e)
    BY <1>2, <1>3
  <2>2. \A f \in Members(queue) : Accepted(f)' /\ idOf'[f] = idOf[f] /\ idOf[f] \in inflightIds
    BY <1>1, <1>2, <1>10 DEF Fates, Accepted
  <2>3. Accepted(e)' /\ idOf'[e] = m
    BY <1>10, NoMsgAssumption DEF Accepted
  <2>4. \A f \in Members(q) : Accepted(f)' /\ idOf'[f] \in inflightIds'
    BY <1>10, <2>1, <2>2, <2>3
  <2>5. \A f, g \in Members(q) : idOf'[f] = idOf'[g] => f = g
    BY <1>1, <1>10, <2>1, <2>2, <2>3 DEF Fates
  <2>6. \A f \in Entry : f # e => (Accepted(f)' <=> Accepted(f)) /\ (Settled(f)' <=> Settled(f))
    BY <1>10 DEF Accepted, Settled
  <2>7. wire[e] = 0 /\ gaveUp[e] = 0 /\ e \in Members(q)
    BY <1>3 DEF Fates
  <2>8. \A f \in Entry : Accepted(f)' /\ ~Settled(f)' => f \in Members(q)
    BY <1>1, <1>3, <2>6, <2>7 DEF Fates
  <2>9. \A f \in Members(q) : wire[f] = 0 /\ gaveUp[f] = 0
    BY <1>1, <2>1, <2>7 DEF Fates
  <2>10. \A f \in Entry : ~Accepted(f)' => ~Accepted(f)
    BY <2>3, <2>6
  <2>11. Members(queue') = Members(q)
    BY <1>4
  <2>12. QED
    BY <1>7, <1>8, <2>4, <2>5, <2>8, <2>9, <2>10, <2>11 DEF Fates
<1>12. QED
  BY <1>9, <1>11

\* The tick goes past an entry in back-off.
LEMMA SkipStep ==
  ASSUME TypeOK, OneTick, Fates(Waiting, Attempted, Current.ok), SkipNotDue
  PROVE OneTick' /\ Fates(Waiting, Attempted, Current.ok)'
<1> DEFINE h == Head(running.rest)
<1>1. running \in Tick /\ running.rest \in Seq(Entry) /\ running.still \in Seq(Entry)
      /\ running.rest # <<>>
  BY DEF SkipNotDue, TypeOK, Tick
<1>2. /\ InProgress /\ Current = running /\ Attempted = {}
      /\ Waiting = Members(running.rest) \cup Members(running.still)
  BY <1>1, Running
<1>3. /\ Tail(running.rest) \in Seq(Entry) /\ h \in Entry
      /\ Members(running.rest) = {h} \cup Members(Tail(running.rest))
      /\ Distinct(running.rest) =>
           Distinct(Tail(running.rest)) /\ h \notin Members(Tail(running.rest))
  BY <1>1, TailMembers
<1>4. /\ Append(running.still, h) \in Seq(Entry)
      /\ Members(Append(running.still, h)) = Members(running.still) \cup {h}
      /\ Distinct(running.still) /\ h \notin Members(running.still)
           => Distinct(Append(running.still, h))
  BY <1>1, <1>3, AppendMembers
<1>5. running' = [running EXCEPT !.rest = Tail(@), !.still = Append(@, h)]
  BY DEF SkipNotDue
<1>6. /\ running' \in Tick /\ running'.rest = Tail(running.rest)
      /\ running'.still = Append(running.still, h)
  BY <1>1, <1>3, <1>4, <1>5 DEF Tick
<1> HIDE DEF h
<1>7. /\ InProgress' /\ Current' = running' /\ Attempted' = {}
      /\ Waiting' = Members(running'.rest) \cup Members(running'.still)
  BY <1>6, NoTickIsNone DEF InProgress, Current, Waiting, Attempted
<1>8. Waiting' = Waiting
  BY <1>2, <1>3, <1>4, <1>6, <1>7
<1>9. UNCHANGED <<queue, suspended, idOf, inflightIds, wire, gaveUp>>
  BY DEF SkipNotDue
<1>10. OneTick'
  <2>1. /\ Distinct(running.rest) /\ Distinct(running.still)
        /\ Members(running.rest) \cap Members(running.still) = {}
        /\ Waiting \subseteq Members(queue) /\ suspended = <<>> /\ Distinct(queue)
    BY <1>1, <1>2, NoTickIsNone DEF OneTick
  <2>2. /\ Distinct(running'.rest) /\ Distinct(running'.still)
        /\ Members(running'.rest) \cap Members(running'.still) = {}
    BY <1>3, <1>4, <1>6, <2>1
  <2>3. /\ Waiting' \subseteq Members(queue') /\ suspended' = <<>> /\ Distinct(queue')
        /\ Len(suspended') <= 1
    BY <1>8, <1>9, <2>1
  <2>4. QED
    BY <1>7, <2>2, <2>3 DEF OneTick
<1>11. Fates(Waiting, Attempted, Current.ok)'
  BY <1>2, <1>7, <1>8, <1>9 DEF Fates, Accepted, Settled
<1>12. QED
  BY <1>10, <1>11

\* The tick asks an entry that is due, and awaits the outcome.
LEMMA AttemptStep ==
  ASSUME TypeOK, OneTick, Fates(Waiting, Attempted, Current.ok), Attempt
  PROVE OneTick' /\ Fates(Waiting, Attempted, Current.ok)'
<1> DEFINE h == Head(running.rest)
           b == ws = "open"
           t == [running EXCEPT !.ok = b]
<1>1. /\ running \in Tick /\ running.rest \in Seq(Entry) /\ running.still \in Seq(Entry)
      /\ running.rest # <<>> /\ running # NoTick
  BY DEF Attempt, TypeOK, Tick
<1>2. /\ InProgress /\ Current = running /\ Attempted = {}
      /\ Waiting = Members(running.rest) \cup Members(running.still)
  BY <1>1, Running
<1>3. b \in BOOLEAN /\ (b = TRUE <=> ws = "open")
  OBVIOUS
<1>4. /\ suspended' = Append(suspended, t) /\ running' = NoTick
      /\ wire' = [wire EXCEPT ![h] = IF ws = "open" THEN @ + 1 ELSE @]
      /\ UNCHANGED <<queue, inflightIds, idOf, gaveUp>>
  BY DEF Attempt
<1>5. h \in Entry /\ Members(running.rest) = {h} \cup Members(Tail(running.rest))
  BY <1>1, TailMembers
<1> HIDE DEF b
<1>6. t \in Tick /\ t.rest = running.rest /\ t.still = running.still /\ t.ok = b
  BY <1>1, <1>3 DEF Tick
<1> HIDE DEF t, h
<1>7. suspended = <<>>
  BY <1>1 DEF OneTick
<1>8. suspended' # <<>> /\ Head(suspended') = t /\ Len(suspended') = 1
  BY <1>4, <1>6, <1>7
<1>9. InProgress' /\ Current' = t /\ Attempted' = {Head(t.rest)}
  BY <1>4, <1>8 DEF InProgress, Current, Attempted
<1>10. Attempted' = {h} /\ h \in Waiting
  BY <1>2, <1>5, <1>6, <1>9 DEF h
<1>11. Waiting' = Waiting
  BY <1>2, <1>6, <1>9 DEF Waiting
<1>12. OneTick'
  <2>1. /\ Distinct(running.rest) /\ Distinct(running.still)
        /\ Members(running.rest) \cap Members(running.still) = {}
        /\ Waiting \subseteq Members(queue) /\ Distinct(queue)
    BY <1>2 DEF OneTick
  <2>2. /\ Distinct(t.rest) /\ Distinct(t.still) /\ Members(t.rest) \cap Members(t.still) = {}
        /\ Waiting' \subseteq Members(queue') /\ Distinct(queue')
    BY <1>4, <1>6, <1>11, <2>1
  <2>3. QED
    BY <1>4, <1>8, <1>9, <2>2 DEF OneTick
<1>13. wire[h] = 0 /\ gaveUp[h] = 0
  BY <1>2, <1>10 DEF Fates
<1>14. /\ wire'[h] = (IF ws = "open" THEN 1 ELSE 0)
       /\ \A e \in Entry \ {h} : wire'[e] = wire[e]
  BY <1>4, <1>5, <1>13 DEF TypeOK
<1>15. Fates(Waiting, Attempted, Current.ok)'
  <2>1. Current'.ok = b
    BY <1>6, <1>9
  <2>2. \A e \in Entry : wire'[e] + gaveUp'[e] <= 1
    BY <1>4, <1>13, <1>14 DEF Fates
  <2>3. \A e \in Waiting \ {h} : wire'[e] = 0 /\ gaveUp'[e] = 0
    <3>1. Waiting \subseteq Entry
      BY <1>1, <1>2 DEF Members
    <3>2. QED
      BY <1>2, <1>4, <1>14, <3>1 DEF Fates
  <2>4. gaveUp'[h] = 0 /\ (b => wire'[h] = 1) /\ (~b => wire'[h] = 0)
    BY <1>3, <1>4, <1>13, <1>14
  <2>5. \A e \in Entry : Accepted(e)' /\ ~Settled(e)' => e \in Waiting
    BY <1>4, <1>10, <1>14 DEF Fates, Accepted, Settled
  <2>6. \A e \in Entry : ~Accepted(e)' => wire'[e] = 0 /\ gaveUp'[e] = 0
    <3>1. Accepted(h)
      BY <1>10 DEF Fates
    <3>2. QED
      BY <1>4, <1>14, <3>1 DEF Fates, Accepted
  <2>7. /\ \A e \in Members(queue') : Accepted(e)'
        /\ \A e \in Waiting : Accepted(e)' /\ idOf'[e] \in inflightIds'
        /\ \A e, f \in Waiting : idOf'[e] = idOf'[f] => e = f
    BY <1>4 DEF Fates, Accepted
  <2>8. QED
    BY <1>10, <1>11, <2>1, <2>2, <2>3, <2>4, <2>5, <2>6, <2>7 DEF Fates
<1>16. QED
  BY <1>12, <1>15

\* The tick is at its end, and what it kept replaces the array.
LEMMA EndStep ==
  ASSUME TypeOK, OneTick, Fates(Waiting, Attempted, Current.ok), EndTick
  PROVE OneTick' /\ Fates(Waiting, Attempted, Current.ok)'
<1>1. running \in Tick /\ running # NoTick /\ running.rest = <<>>
  BY DEF EndTick, TypeOK
<1>2. /\ InProgress /\ Current = running /\ Attempted = {}
      /\ Waiting = Members(running.still)
  BY <1>1, Running, EmptyMembers
<1>3. suspended = <<>>
  BY <1>1 DEF OneTick
<1>4. /\ suspended' = <<>> /\ running' = NoTick /\ queue' = running.still
      /\ UNCHANGED <<idOf, inflightIds, wire, gaveUp>>
  BY <1>3 DEF EndTick
<1>5. ~InProgress' /\ Waiting' = Members(queue') /\ Attempted' = {}
  BY <1>4 DEF InProgress, Waiting, Attempted
<1>6. Waiting' = Waiting
  BY <1>2, <1>4, <1>5
<1>7. Distinct(queue')
  BY <1>2, <1>4 DEF OneTick
<1>8. OneTick'
  BY <1>4, <1>5, <1>7 DEF OneTick
<1>9. Fates(Waiting, Attempted, Current.ok)'
  BY <1>2, <1>4, <1>5, <1>6 DEF Fates, Accepted, Settled
<1>10. QED
  BY <1>8, <1>9

\* The tick that awaits resumes past the entry, and nobody else is suspended.
LEMMA Resumes ==
  ASSUME TypeOK, Awaiting, OneTick, CanResume
  PROVE /\ InProgress /\ Attempted = {Awaited} /\ Current = Head(suspended)
        /\ Awaited \in Entry /\ Tail(suspended) = <<>>
        /\ Resumed \in Tick /\ Resumed.still = Current.still
        /\ Waiting = {Awaited} \cup Members(Resumed.rest) \cup Members(Resumed.still)
        /\ Awaited \notin Members(Resumed.rest) /\ Awaited \notin Members(Resumed.still)
        /\ Distinct(Resumed.rest) /\ Distinct(Resumed.still)
        /\ Members(Resumed.rest) \cap Members(Resumed.still) = {}
        /\ Waiting \subseteq Members(queue) /\ Distinct(queue)
<1> DEFINE t == Head(suspended)
<1>1. running = NoTick /\ suspended # <<>> /\ suspended \in Seq(Tick) /\ Len(suspended) <= 1
  BY DEF CanResume, TypeOK, OneTick
<1>2. t = suspended[1] /\ 1 \in 1..Len(suspended) /\ t \in Tick /\ Tail(suspended) = <<>>
  BY <1>1
<1>3. t.rest # <<>>
  BY <1>2 DEF Awaiting
<1>4. Awaited \in Entry /\ Resumed \in Tick
  BY <1>1, <1>3, ResumedIsTick
<1>5. InProgress /\ Current = t /\ Attempted = {Awaited}
  BY <1>1 DEF InProgress, Current, Attempted, Awaited
<1>6. t.rest \in Seq(Entry)
  BY <1>2 DEF Tick
<1>7. Resumed.rest = Tail(t.rest) /\ Resumed.still = t.still
  BY <1>2 DEF Resumed, Tick
<1>8. /\ Members(t.rest) = {Awaited} \cup Members(Tail(t.rest))
      /\ Distinct(t.rest) => Distinct(Tail(t.rest)) /\ Awaited \notin Members(Tail(t.rest))
  BY <1>3, <1>6, TailMembers DEF Awaited
<1> HIDE DEF t
<1>9. /\ Distinct(t.rest) /\ Distinct(t.still) /\ Members(t.rest) \cap Members(t.still) = {}
      /\ Waiting \subseteq Members(queue) /\ Distinct(queue)
      /\ Waiting = Members(t.rest) \cup Members(t.still)
  BY <1>5 DEF OneTick, Waiting
<1>10. Awaited \in Members(t.rest)
  BY <1>8
<1>11. QED
  BY <1>2, <1>4, <1>5, <1>7, <1>8, <1>9, <1>10 DEF t

\* The entry is settled: written, or given up.
LEMMA SettleStep ==
  ASSUME TypeOK, Awaiting, OneTick, Fates(Waiting, Attempted, Current.ok),
         AttemptSucceeded \/ AttemptExhausted
  PROVE OneTick' /\ Fates(Waiting, Attempted, Current.ok)'
<1> DEFINE h == Awaited
           rest == Members(Resumed.rest) \cup Members(Resumed.still)
<1>1. /\ running' = Resumed /\ suspended' = Tail(suspended) /\ CanResume
      /\ inflightIds' = inflightIds \ {idOf[h]}
      /\ UNCHANGED <<queue, idOf, wire>>
  BY DEF AttemptSucceeded, AttemptExhausted
<1>2. /\ h \in Entry /\ Attempted = {h} /\ Current = Head(suspended)
      /\ Waiting = {h} \cup rest /\ h \notin rest
      /\ Resumed \in Tick /\ suspended' = <<>>
      /\ Distinct(Resumed.rest) /\ Distinct(Resumed.still)
      /\ Members(Resumed.rest) \cap Members(Resumed.still) = {}
      /\ Waiting \subseteq Members(queue) /\ Distinct(queue)
  BY <1>1, Resumes
<1>3. /\ InProgress' /\ Current' = running' /\ Attempted' = {} /\ running' # NoTick
      /\ Waiting' = Members(running'.rest) \cup Members(running'.still)
  BY <1>1, <1>2, NoTickIsNone DEF InProgress, Current, Waiting, Attempted
<1>4. Waiting' = rest
  BY <1>1, <1>3
<1>5. OneTick'
  BY <1>1, <1>2, <1>3, <1>4 DEF OneTick
<1>6. /\ \A e \in Entry \ {h} : gaveUp'[e] = gaveUp[e]
      /\ wire'[h] + gaveUp'[h] <= 1
      /\ wire'[h] > 0 \/ gaveUp'[h] > 0
      /\ wire[h] \in Nat /\ gaveUp'[h] \in Nat
  <2>1. /\ gaveUp[h] = 0 /\ (Head(suspended).ok => wire[h] = 1) /\ (~Head(suspended).ok => wire[h] = 0)
        /\ gaveUp \in [Entry -> Nat]
    BY <1>2 DEF Fates, TypeOK
  <2>2. CASE AttemptSucceeded
    BY <1>1, <1>2, <2>1, <2>2 DEF AttemptSucceeded
  <2>3. CASE AttemptExhausted
    BY <1>1, <1>2, <2>1, <2>3 DEF AttemptExhausted
  <2>4. QED
    BY <2>2, <2>3
<1> HIDE DEF h, rest
<1>7. \A e \in Entry : e # h => (Settled(e)' <=> Settled(e))
  BY <1>1, <1>6 DEF Settled
<1>8. \A e \in Entry : e = h => Settled(e)'
  BY <1>6 DEF Settled
<1>9. rest \subseteq Entry
  <2>1. Resumed.rest \in Seq(Entry) /\ Resumed.still \in Seq(Entry)
    BY <1>2 DEF Tick
  <2>2. QED
    BY <2>1 DEF rest, Members
<1>10. Fates(Waiting, Attempted, Current.ok)'
  <2>1. \A e \in Entry : wire'[e] + gaveUp'[e] <= 1
    BY <1>1, <1>6 DEF Fates
  <2>2. \A e \in rest : wire'[e] = 0 /\ gaveUp'[e] = 0
    BY <1>1, <1>2, <1>6, <1>9 DEF Fates
  <2>3. \A e \in Entry : Accepted(e)' /\ ~Settled(e)' => e \in rest
    BY <1>1, <1>2, <1>7, <1>8 DEF Fates, Accepted
  <2>4. \A e \in Entry : ~Accepted(e)' => wire'[e] = 0 /\ gaveUp'[e] = 0
    <3>1. Accepted(h)
      BY <1>2 DEF Fates
    <3>2. QED
      BY <1>1, <1>6, <3>1 DEF Fates, Accepted
  <2>5. \A e \in rest : Accepted(e)' /\ idOf'[e] \in inflightIds'
    BY <1>1, <1>2 DEF Fates, Accepted
  <2>6. /\ \A e \in Members(queue') : Accepted(e)'
        /\ \A e, f \in rest : idOf'[e] = idOf'[f] => e = f
    BY <1>1, <1>2 DEF Fates, Accepted
  <2>7. QED
    BY <1>3, <1>4, <2>1, <2>2, <2>3, <2>4, <2>5, <2>6 DEF Fates
<1>11. QED
  BY <1>5, <1>10

\* The entry stays, for later.
LEMMA RescheduleStep ==
  ASSUME TypeOK, Awaiting, OneTick, Fates(Waiting, Attempted, Current.ok), AttemptRescheduled
  PROVE OneTick' /\ Fates(Waiting, Attempted, Current.ok)'
<1> DEFINE h == Awaited
           still == Append(Resumed.still, h)
<1>1. /\ running' = [Resumed EXCEPT !.still = Append(@, h)] /\ suspended' = Tail(suspended)
      /\ CanResume /\ ~Head(suspended).ok
      /\ UNCHANGED <<queue, idOf, inflightIds, wire, gaveUp>>
  BY DEF AttemptRescheduled
<1>2. /\ h \in Entry /\ Attempted = {h} /\ Current = Head(suspended)
      /\ Waiting = {h} \cup Members(Resumed.rest) \cup Members(Resumed.still)
      /\ h \notin Members(Resumed.rest) /\ h \notin Members(Resumed.still)
      /\ Resumed \in Tick /\ suspended' = <<>>
      /\ Distinct(Resumed.rest) /\ Distinct(Resumed.still)
      /\ Members(Resumed.rest) \cap Members(Resumed.still) = {}
      /\ Waiting \subseteq Members(queue) /\ Distinct(queue)
  BY <1>1, Resumes
<1>3. Resumed.still \in Seq(Entry)
  BY <1>2 DEF Tick
<1>4. still \in Seq(Entry) /\ Members(still) = Members(Resumed.still) \cup {h} /\ Distinct(still)
  BY <1>2, <1>3, AppendMembers
<1>5. running' \in Tick /\ running'.rest = Resumed.rest /\ running'.still = still
  BY <1>1, <1>2, <1>4 DEF Tick
<1> HIDE DEF h, still
<1>6. /\ InProgress' /\ Current' = running' /\ Attempted' = {} /\ running' # NoTick
      /\ Waiting' = Members(running'.rest) \cup Members(running'.still)
  BY <1>5, NoTickIsNone DEF InProgress, Current, Waiting, Attempted
<1>7. Waiting' = Waiting
  BY <1>2, <1>4, <1>5, <1>6
<1>8. OneTick'
  <2>1. /\ Distinct(running'.rest) /\ Distinct(running'.still)
        /\ Members(running'.rest) \cap Members(running'.still) = {}
    BY <1>2, <1>4, <1>5
  <2>2. Waiting' \subseteq Members(queue') /\ Distinct(queue')
    BY <1>1, <1>2, <1>7
  <2>3. QED
    BY <1>2, <1>6, <2>1, <2>2 DEF OneTick
<1>9. Fates(Waiting, Attempted, Current.ok)'
  <2>1. wire[h] = 0 /\ gaveUp[h] = 0
    BY <1>1, <1>2 DEF Fates
  <2>2. QED
    BY <1>1, <1>2, <1>6, <1>7, <2>1 DEF Fates, Accepted, Settled
<1>10. QED
  BY <1>8, <1>9

\* Steps that touch none of it: the socket goes down, time passes.
LEMMA OtherStep ==
  ASSUME OneTick, Fates(Waiting, Attempted, Current.ok),
         UNCHANGED <<queue, suspended, running, idOf, inflightIds, wire, gaveUp>>
  PROVE OneTick' /\ Fates(Waiting, Attempted, Current.ok)'
<1>1. /\ InProgress' = InProgress /\ Current' = Current /\ Waiting' = Waiting
      /\ Attempted' = Attempted
  BY DEF InProgress, Current, Waiting, Attempted
<1>2. OneTick'
  BY <1>1 DEF OneTick
<1>3. Fates(Waiting, Attempted, Current.ok)'
  BY <1>1 DEF Fates, Accepted, Settled
<1>4. QED
  BY <1>2, <1>3

\* Every step keeps the invariant; steps that start a second tick end it.
LEMMA InvStep ==
  ASSUME TypeOK, Awaiting, OutboxInv, [Next]_vars PROVE OutboxInv'
<1> SUFFICES ASSUME ~overlapped' PROVE OneTick' /\ Fates(Waiting, Attempted, Current.ok)'
  BY DEF OutboxInv
<1>1. ~overlapped
  BY DEF Next, TickStep, vars, Send, WsOpen, WsDown, Elapse, SkipNotDue, Attempt, EndTick,
         AttemptSucceeded, AttemptExhausted, AttemptRescheduled
<1>2. OneTick /\ Fates(Waiting, Attempted, Current.ok)
  BY <1>1 DEF OutboxInv
<1>3. ASSUME NEW e \in Entry, NEW m \in Msg, Send(e, m)
      PROVE OneTick' /\ Fates(Waiting, Attempted, Current.ok)'
  <2>1. running = NoTick /\ suspended = <<>> /\ ~Accepted(e) /\ UNCHANGED <<wire, gaveUp>>
    BY <1>3 DEF Send, Accepted
  <2>2. CASE EnqueueNew(e, m)
    BY <1>2, <2>1, <2>2, EnqueueStep
  <2>3. CASE EnqueueAgain(m)
    BY <1>2, <2>1, <2>3, StartStep DEF EnqueueAgain
  <2>4. QED
    BY <1>3, <2>2, <2>3 DEF Send
<1>4. CASE WsOpen
  BY <1>2, <1>4, StartStep DEF WsOpen
<1>5. CASE WsDown \/ (\E e \in Entry : Elapse(e)) \/ UNCHANGED vars
  BY <1>2, <1>5, OtherStep DEF WsDown, Elapse, vars
<1>6. CASE TickStep
  BY <1>2, <1>6, SkipStep, AttemptStep, EndStep, SettleStep, RescheduleStep DEF TickStep
<1>7. QED
  BY <1>3, <1>4, <1>5, <1>6 DEF Next

\* It holds at the start.
LEMMA InvStarts == Init => OutboxInv
<1> SUFFICES ASSUME Init PROVE OneTick /\ Fates(Waiting, Attempted, Current.ok)
  BY DEF OutboxInv
<1>1. running = NoTick /\ suspended = <<>> /\ queue = <<>>
  BY DEF Init
<1>2. ~InProgress /\ Waiting = {} /\ Attempted = {} /\ Members(queue) = {} /\ Distinct(queue)
  BY <1>1, Idle, EmptyMembers
<1>3. OneTick
  BY <1>1, <1>2 DEF OneTick
<1>4. \A e \in Entry : ~Accepted(e) /\ wire[e] = 0 /\ gaveUp[e] = 0
  BY DEF Init, Accepted
<1>5. QED
  BY <1>2, <1>3, <1>4 DEF Fates

\* So it holds always, with the types.
LEMMA InvHolds == Spec => [](TypeOK /\ OutboxInv)
<1>1. TypeOK /\ Awaiting /\ OutboxInv /\ [Next]_vars => OutboxInv'
  BY InvStep
<1>2. QED
  BY <1>1, InvStarts, OutboxTypes, PTL DEF Spec

-----------------------------------------------------------------------------
\* As long as no two ticks overlapped, an accepted message is in the queue
\* until it was written or reported as failed (outbox.ts: queue, inflightIds).
THEOREM NoneIsLost == Spec => []NothingLost
<1>1. TypeOK /\ OutboxInv => NothingLost
  <2> SUFFICES ASSUME OutboxInv, ~overlapped,
                      NEW e \in Entry, Accepted(e), ~Settled(e)
               PROVE  e \in Members(queue)
    BY DEF NothingLost
  <2>1. e \in Waiting
    BY DEF OutboxInv, Fates
  <2>2. CASE InProgress
    BY <2>1, <2>2 DEF OutboxInv, OneTick
  <2>3. CASE ~InProgress
    BY <2>1, <2>3 DEF Waiting
  <2>4. QED
    BY <2>2, <2>3
<1>2. QED
  BY <1>1, InvHolds, PTL

\* As long as no two ticks overlapped, a message is written once, or reported
\* as failed once, never both (outbox.ts tick()).
THEOREM EachHasOneFate == Spec => []OneFate
<1>1. TypeOK /\ OutboxInv => OneFate
  BY DEF OutboxInv, Fates, OneFate
<1>2. QED
  BY <1>1, InvHolds, PTL

\* As long as no two ticks overlapped, no two entries of one message wait
\* (outbox.ts enqueue(), inflightIds).
THEOREM EnqueueIsIdempotent == Spec => []OneEntryPerMessage
<1>1. TypeOK /\ OutboxInv => OneEntryPerMessage
  <2> SUFFICES ASSUME TypeOK, OutboxInv, ~overlapped,
                      NEW e \in Members(queue), NEW f \in Members(queue),
                      idOf[e] = idOf[f], ~Settled(e), ~Settled(f)
               PROVE  e = f
    BY DEF OneEntryPerMessage
  <2>1. Members(queue) \subseteq Entry
    <3>1. \A i \in 1..Len(queue) : queue[i] \in Entry
      BY DEF TypeOK
    <3>2. QED
      BY <3>1 DEF Members
  <2>2. Accepted(e) /\ Accepted(f)
    BY DEF OutboxInv, Fates
  <2>3. e \in Waiting /\ f \in Waiting
    BY <2>1, <2>2 DEF OutboxInv, Fates
  <2>4. QED
    BY <2>3 DEF OutboxInv, Fates
<1>2. QED
  BY <1>1, InvHolds, PTL
=============================================================================
