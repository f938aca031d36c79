------------------------------- MODULE Outbox -------------------------------
(***************************************************************************)
(* The outbox of the chat client (src/outbox.ts), driven the way the SDK   *)
(* drives it (src/index.ts): every persistent send enqueues an entry and   *)
(* starts a tick, every transition of the WebSocket to "open" starts one   *)
(* too, and nothing else does.                                             *)
(*                                                                         *)
(* A tick walks the array this.queue held when it started and suspends at  *)
(* `await entry.attempt()` for each entry that is due.  Other code of the  *)
(* same thread runs meanwhile: a send may push onto the array being walked *)
(* and start a second tick.  A suspended tick is a microtask, so suspended *)
(* ticks resume in the order they were suspended, before any timer or      *)
(* socket event is handled.                                                *)
(*                                                                         *)
(* Time is abstracted to the set of entries whose back-off has run out.    *)
(* It moves only while no tick is in progress: ticks capture Date.now() at *)
(* their start and a burst of microtasks is short beside the shortest      *)
(* back-off.                                                               *)
(***************************************************************************)
EXTENDS Naturals, Sequences, FiniteSets

CONSTANTS
  Entry,        \* the entry objects sends may create
  Msg,          \* message ids, the key the outbox is idempotent on
  MaxAttempts,  \* opts.maxAttempts
  MaxTicks,     \* bound: ticks in progress at the same time
  NoMsg,        \* the id of an entry no send has created yet
  NoTick        \* no tick holds the thread

ASSUME MaxAttemptsAssumption == MaxAttempts \in Nat \ {0}
ASSUME MaxTicksAssumption == MaxTicks \in Nat \ {0}
ASSUME NoMsgAssumption == NoMsg \notin Msg
ASSUME NoTickAssumption ==
  NoTick \notin [rest : Seq(Entry), still : Seq(Entry), live : BOOLEAN, ok : BOOLEAN]

VARIABLES
  queue,        \* the array this.queue points to
  inflightIds,  \* ids accepted and not yet settled, as the outbox believes
  idOf,         \* the message id of an entry
  attempts,     \* entry.attempts
  due,          \* entries whose nextRetryAt has passed
  running,      \* the tick holding the thread, or NoTick
  suspended,    \* ticks awaiting an attempt, in the order they will resume
  ws,           \* "open" or "down", all that attempt() reads of the socket
  wire,         \* history: how often an entry's frames went to the socket
  gaveUp,       \* history: how often onTerminalFailure fired for an entry
  overlapped    \* history: a tick has started while another was suspended

outbox == <<queue, inflightIds, idOf, attempts, due>>
history == <<wire, gaveUp, overlapped>>
vars == <<queue, inflightIds, idOf, attempts, due, running, suspended, ws,
          wire, gaveUp, overlapped>>

Members(s) == {s[i] : i \in 1..Len(s)}

\* A tick: what is left of the array it walks, the stillPending it builds,
\* whether the array it walks is still this.queue (so that a push reaches it),
\* and the outcome of the attempt it awaits, which is that of Head(rest).
Tick == [rest : Seq(Entry), still : Seq(Entry), live : BOOLEAN, ok : BOOLEAN]

TypeOK ==
  /\ queue \in Seq(Entry)
  /\ inflightIds \subseteq Msg
  /\ idOf \in [Entry -> Msg \cup {NoMsg}]
  /\ attempts \in [Entry -> Nat]
  /\ due \subseteq Entry
  /\ running \in Tick \cup {NoTick}
  /\ suspended \in Seq(Tick)
  /\ ws \in {"open", "down"}
  /\ wire \in [Entry -> Nat]
  /\ gaveUp \in [Entry -> Nat]
  /\ overlapped \in BOOLEAN

Init ==
  /\ queue = <<>>
  /\ inflightIds = {}
  /\ idOf = [e \in Entry |-> NoMsg]
  /\ attempts = [e \in Entry |-> 0]
  /\ due = {}
  /\ running = NoTick
  /\ suspended = <<>>
  /\ ws = "down"
  /\ wire = [e \in Entry |-> 0]
  /\ gaveUp = [e \in Entry |-> 0]
  /\ overlapped = FALSE

-----------------------------------------------------------------------------
\* Starting a tick on the current array.

StartTick(q) == [rest |-> q, still |-> <<>>, live |-> TRUE, ok |-> FALSE]

\* A push onto this.queue is seen by the ticks that walk that same array.
Push(t, e) == IF t.live THEN [t EXCEPT !.rest = Append(@, e)] ELSE t
PushAll(ts, e) == [i \in 1..Len(ts) |-> Push(ts[i], e)]

\* enqueue() of an id that is not in flight.
EnqueueNew(e, m) ==
  /\ m \notin inflightIds
  /\ inflightIds' = inflightIds \cup {m}
  /\ idOf' = [idOf EXCEPT ![e] = m]
  /\ due' = due \cup {e}
  /\ queue' = Append(queue, e)
  /\ suspended' = PushAll(suspended, e)
  /\ running' = StartTick(Append(queue, e))

\* enqueue() of an id in flight is a no-op; the tick is started all the same.
EnqueueAgain(m) ==
  /\ m \in inflightIds
  /\ running' = StartTick(queue)
  /\ UNCHANGED <<inflightIds, idOf, due, queue, suspended>>

\* sendContentInner() from the end of encryption on: enqueue, then tick.
Send(e, m) ==
  /\ running = NoTick
  /\ idOf[e] = NoMsg
  /\ Len(suspended) < MaxTicks
  /\ EnqueueNew(e, m) \/ EnqueueAgain(m)
  /\ overlapped' = (overlapped \/ suspended # <<>>)
  /\ UNCHANGED <<attempts, ws, wire, gaveUp>>

\* Mutant: the transition to "open" does not drive the outbox.
WsOpenNoTick ==
  /\ running = NoTick
  /\ suspended = <<>>
  /\ ws = "down"
  /\ ws' = "open"
  /\ UNCHANGED <<queue, inflightIds, idOf, attempts, due, running, suspended, wire, gaveUp, overlapped>>

\* onWsState("open"): a socket event, handled when no microtask is left.
WsOpen ==
  /\ running = NoTick
  /\ suspended = <<>>
  /\ ws = "down"
  /\ ws' = "open"
  /\ running' = StartTick(queue)
  /\ UNCHANGED <<queue, inflightIds, idOf, attempts, due, suspended, wire, gaveUp, overlapped>>

\* The socket closes, or the application calls close(), which may happen
\* while ticks are suspended.
WsDown ==
  /\ running = NoTick
  /\ ws = "open"
  /\ ws' = "down"
  /\ UNCHANGED <<queue, inflightIds, idOf, attempts, due, running, suspended, wire, gaveUp, overlapped>>

\* The clock reaches the nextRetryAt of a waiting entry.
Elapse(e) ==
  /\ running = NoTick
  /\ suspended = <<>>
  /\ e \in Members(queue) \ due
  /\ due' = due \cup {e}
  /\ UNCHANGED <<queue, inflightIds, idOf, attempts, running, suspended, ws, wire, gaveUp, overlapped>>

-----------------------------------------------------------------------------
\* The steps of the tick that holds the thread.

\* An entry in back-off is carried over without an attempt.
SkipNotDue ==
  /\ running # NoTick
  /\ running.rest # <<>>
  /\ Head(running.rest) \notin due
  /\ running' = [running EXCEPT !.rest = Tail(@), !.still = Append(@, Head(running.rest))]
  /\ UNCHANGED <<queue, inflightIds, idOf, attempts, due, suspended, ws, wire, gaveUp, overlapped>>

\* entry.attempts++, then attempt(): the frames are written at once when the
\* socket is open, and the tick suspends either way.
Attempt ==
  /\ running # NoTick
  /\ running.rest # <<>>
  /\ LET e == Head(running.rest)
     IN  /\ e \in due
         /\ attempts' = [attempts EXCEPT ![e] = @ + 1]
         /\ wire' = [wire EXCEPT ![e] = IF ws = "open" THEN @ + 1 ELSE @]
  /\ suspended' = Append(suspended, [running EXCEPT !.ok = (ws = "open")])
  /\ running' = NoTick
  /\ UNCHANGED <<queue, inflightIds, idOf, due, ws, gaveUp, overlapped>>

\* The array is exhausted: this.queue = stillPending.  Whoever walks the
\* replaced array no longer sees what is pushed.
EndTick ==
  /\ running # NoTick
  /\ running.rest = <<>>
  /\ queue' = running.still
  /\ suspended' = [i \in 1..Len(suspended) |-> [suspended[i] EXCEPT !.live = FALSE]]
  /\ running' = NoTick
  /\ UNCHANGED <<inflightIds, idOf, attempts, due, ws, wire, gaveUp, overlapped>>

-----------------------------------------------------------------------------
\* The tick suspended first resumes with the outcome of its attempt.

Awaited == Head(Head(suspended).rest)

\* The resumed tick, past the entry it awaited.
Resumed == [Head(suspended) EXCEPT !.rest = Tail(@)]

CanResume ==
  /\ running = NoTick
  /\ suspended # <<>>

\* Mutant: the entry that was sent is not dropped (a missing `continue`).
AttemptSucceededKept ==
  /\ CanResume
  /\ Head(suspended).ok
  /\ inflightIds' = inflightIds \ {idOf[Awaited]}
  /\ running' = [Resumed EXCEPT !.still = Append(@, Awaited)]
  /\ suspended' = Tail(suspended)
  /\ UNCHANGED <<queue, idOf, attempts, due, ws, wire, gaveUp, overlapped>>

AttemptSucceeded ==
  /\ CanResume
  /\ Head(suspended).ok
  /\ inflightIds' = inflightIds \ {idOf[Awaited]}
  /\ running' = Resumed
  /\ suspended' = Tail(suspended)
  /\ UNCHANGED <<queue, idOf, attempts, due, ws, wire, gaveUp, overlapped>>

\* The retry budget is used up: onTerminalFailure fires.
AttemptExhausted ==
  /\ CanResume
  /\ ~Head(suspended).ok
  /\ attempts[Awaited] >= MaxAttempts
  /\ inflightIds' = inflightIds \ {idOf[Awaited]}
  /\ gaveUp' = [gaveUp EXCEPT ![Awaited] = @ + 1]
  /\ running' = Resumed
  /\ suspended' = Tail(suspended)
  /\ UNCHANGED <<queue, idOf, attempts, due, ws, wire, overlapped>>

\* Mutant: the rescheduled entry is not pushed onto stillPending.
AttemptRescheduledDropped ==
  /\ CanResume
  /\ ~Head(suspended).ok
  /\ attempts[Awaited] < MaxAttempts
  /\ due' = due \ {Awaited}
  /\ running' = Resumed
  /\ suspended' = Tail(suspended)
  /\ UNCHANGED <<queue, inflightIds, idOf, attempts, ws, wire, gaveUp, overlapped>>

\* nextRetryAt moves into the future and the entry stays.
AttemptRescheduled ==
  /\ CanResume
  /\ ~Head(suspended).ok
  /\ attempts[Awaited] < MaxAttempts
  /\ due' = due \ {Awaited}
  /\ running' = [Resumed EXCEPT !.still = Append(@, Awaited)]
  /\ suspended' = Tail(suspended)
  /\ UNCHANGED <<queue, inflightIds, idOf, attempts, ws, wire, gaveUp, overlapped>>

TickStep ==
  \/ SkipNotDue
  \/ Attempt
  \/ EndTick
  \/ AttemptSucceeded
  \/ AttemptExhausted
  \/ AttemptRescheduled

Next ==
  \/ \E e \in Entry, m \in Msg : Send(e, m)
  \/ WsOpen
  \/ WsDown
  \/ \E e \in Entry : Elapse(e)
  \/ TickStep

Spec == Init /\ [][Next]_vars

\* The thread always finishes its microtasks, and time passes however often
\* ticks interrupt it (they take none of it): strong fairness for the clock.
\* Sends and the state of the network are up to the environment.
FairSpec ==
  /\ Spec
  /\ WF_vars(TickStep)
  /\ \A e \in Entry : SF_vars(Elapse(e))

-----------------------------------------------------------------------------
Accepted(e) == idOf[e] # NoMsg
Settled(e) == wire[e] > 0 \/ gaveUp[e] > 0

\* As long as no two ticks overlapped, a message the outbox accepted is in the
\* queue until it was written to the socket or reported as failed: nothing is
\* dropped on the way (outbox.ts: queue against inflightIds).
NothingLost ==
  ~overlapped =>
    \A e \in Entry : Accepted(e) /\ ~Settled(e) => e \in Members(queue)

\* As long as no two ticks overlapped, a message has one fate: it is written to
\* the socket once, or reported as failed once, never both.
OneFate ==
  ~overlapped => \A e \in Entry : wire[e] + gaveUp[e] <= 1

\* As long as no two ticks overlapped, enqueue() is idempotent on the message
\* id: no two entries of one message wait at the same time (outbox.ts 60-68).
OneEntryPerMessage ==
  ~overlapped =>
    \A e, f \in Members(queue) :
      idOf[e] = idOf[f] /\ ~Settled(e) /\ ~Settled(f) => e = f

\* When connections keep coming and going, every accepted message is written or
\* reported as failed in the end, unless ticks overlapped: reconnects are what
\* drives the retries (index.ts onWsState, outbox.ts tick).
EventuallySettled ==
  []<>(ws = "open") /\ []<>(ws = "down") =>
    \A e \in Entry : Accepted(e) ~> (Settled(e) \/ overlapped)
=============================================================================
