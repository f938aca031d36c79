---------------------------- MODULE InboundProofs ----------------------------
(* Theorems about InboundDelivery, for any set of envelopes and any number of *)
(* publishes and reloads; and about Conversation, where what is delivered     *)
(* changes the store, for any devices of both users and any number of events. *)
EXTENDS InboundDelivery, Conversation, SequenceTheorems, TLAPS

USE DEF external, dedup, handler, history

-----------------------------------------------------------------------------
\* Variables keep their types in every step.
LEMMA TypeStep == TypeOK /\ [Next]_vars => TypeOK'
<1> SUFFICES ASSUME TypeOK, [Next]_vars PROVE TypeOK'
  OBVIOUS
<1>1. ASSUME NEW e \in Env, Publish(e) PROVE TypeOK'
  BY <1>1 DEF Publish, TypeOK, NodeState, Source, Task, Idle, Undo, Drain, DrainIdle
<1>2. ASSUME NEW e \in Env, FallBack(e) PROVE TypeOK'
  BY <1>2 DEF FallBack, TypeOK, NodeState, Source, Task, Idle, Undo, Drain, DrainIdle
<1>3. ASSUME NEW e \in Env, LiveFirst(e) PROVE TypeOK'
  BY <1>3 DEF LiveFirst, Reserve, TypeOK, NodeState, Source, Task, Idle, Undo, Drain, DrainIdle
<1>4. ASSUME NEW e \in Env, LiveDuplicate(e) PROVE TypeOK'
  BY <1>4 DEF LiveDuplicate, WsAck, RacedWith, TypeOK, NodeState, Source, Task, Idle, Undo, Drain, DrainIdle
<1>5. ASSUME NEW e \in Env, Evict(e) PROVE TypeOK'
  BY <1>5 DEF Evict, TypeOK, NodeState, Source, Task, Idle, Undo, Drain, DrainIdle
<1>6. ASSUME NEW e \in Env, Reserved(e) PROVE TypeOK'
  BY <1>6 DEF Reserved, TypeOK, NodeState, Source, Task, Idle, Undo, Drain, DrainIdle
<1>7. ASSUME NEW e \in Env, DecryptOk(e) PROVE TypeOK'
  BY <1>7 DEF DecryptOk, TypeOK, NodeState, Source, Task, Idle, Undo, Drain, DrainIdle
<1>8. ASSUME NEW e \in Env, DecryptFails(e) PROVE TypeOK'
  BY <1>8 DEF DecryptFails, Fail, TypeOK, NodeState, Source, Task, Idle, Undo, Drain, DrainIdle
<1>9. ASSUME NEW e \in Env, Malformed(e) PROVE TypeOK'
  BY <1>9 DEF Malformed, DrainOutcome, TypeOK, NodeState, Source, Task, Idle, Undo, Drain, DrainIdle
<1>10. ASSUME NEW e \in Env, Dispatch(e) PROVE TypeOK'
  <2>1. node' \in [Env -> NodeState]
    BY <1>10 DEF Dispatch, WsAck, TypeOK, NodeState
  <2>2. stored' \in [Env -> Nat] /\ task' \in [Env -> Task]
    BY <1>10 DEF Dispatch, TypeOK, Task, Source, Idle
  <2>3. drain' \in Drain
    BY <1>10 DEF Dispatch, DrainOutcome, TypeOK, Drain
  <2>4. QED
    BY <1>10, <2>1, <2>2, <2>3 DEF Dispatch, TypeOK
<1>11. ASSUME NEW e \in Env, DispatchFails(e) PROVE TypeOK'
  <2>1. stored' \in [Env -> Nat]
    BY <1>11 DEF DispatchFails, TypeOK
  <2>2. task' \in [Env -> Task]
    BY <1>11 DEF DispatchFails, Fail, TypeOK, Task, Source, Idle
  <2>3. task[e].source \in Source
    BY DEF TypeOK, Task
  <2>4. [env |-> e, source |-> task[e].source, terminal |-> FALSE] \in Undo
    BY <2>3 DEF Undo
  <2>5. undoing' \subseteq Undo
    BY <1>11, <2>4 DEF DispatchFails, Fail, TypeOK
  <2>6. QED
    BY <1>11, <2>1, <2>2, <2>5 DEF DispatchFails, Fail, TypeOK
<1>12. ASSUME NEW u \in undoing, Undone(u) PROVE TypeOK'
  BY <1>12 DEF Undone, DrainOutcome, TypeOK, NodeState, Source, Task, Idle, Undo, Drain, DrainIdle
<1>13. CASE WsOpen
  BY <1>13 DEF WsOpen, TypeOK, NodeState, Source, Task, Idle, Undo, Drain, DrainIdle
<1>14. CASE WsClose
  BY <1>14 DEF WsClose, TypeOK, NodeState, Source, Task, Idle, Undo, Drain, DrainIdle
<1>15. CASE Crash
  BY <1>15, MaxCrashesAssumption DEF Crash, TypeOK, NodeState, Source, Task, Idle, Undo, Drain, DrainIdle
<1>16. CASE DrainFetch
  BY <1>16 DEF DrainFetch, TypeOK, NodeState, Source, Task, Idle, Undo, Drain, DrainIdle
<1>17. CASE DrainFails
  BY <1>17 DEF DrainFails, TypeOK, NodeState, Source, Task, Idle, Undo, Drain, DrainIdle
<1>18. ASSUME NEW e \in Env, DrainFirst(e) PROVE TypeOK'
  BY <1>18 DEF DrainFirst, Reserve, TypeOK, NodeState, Source, Task, Idle, Undo, Drain, DrainIdle
<1>19. ASSUME NEW e \in Env, DrainDuplicate(e) PROVE TypeOK'
  BY <1>19 DEF DrainDuplicate, RacedWith, TypeOK, NodeState, Source, Task, Idle, Undo, Drain, DrainIdle
<1>20. CASE DrainBatchDone
  BY <1>20 DEF DrainBatchDone, TypeOK, NodeState, Source, Task, Idle, Undo, Drain, DrainIdle
<1>21. CASE DrainAck
  BY <1>21 DEF DrainAck, TypeOK, NodeState, Source, Task, Idle, Undo, Drain, DrainIdle
<1>22. CASE UNCHANGED vars
  BY <1>22 DEF vars, TypeOK, NodeState, Source, Task, Idle, Undo, Drain, DrainIdle
<1>23. QED
  BY <1>1, <1>2, <1>3, <1>4, <1>5, <1>6, <1>7, <1>8, <1>9, <1>10, <1>11, <1>12, <1>13, <1>14, <1>15, <1>16, <1>17, <1>18, <1>19, <1>20, <1>21, <1>22 DEF Next, HandlerStep, DrainStep

\* The initial state is well typed.
LEMMA TypeInit == Init => TypeOK
BY MaxCrashesAssumption, MaxPublishAssumption
DEF Init, TypeOK, NodeState, Source, Task, Idle, Undo, Drain, DrainIdle

\* The type invariant.
THEOREM TypeCorrect == Spec => []TypeOK
BY TypeInit, TypeStep, PTL DEF Spec

-----------------------------------------------------------------------------
\* What keeps the ratchet and the message store safe: a handler holds its
\* reservation in memory, and from the decryption on in the store too, with no
\* rollback of the same envelope under way; an envelope whose key is used up
\* stays reserved in both unless it was forgotten.
Undoing(e) == \E u \in undoing : u.env = e

RatchetInv ==
  \A e \in Env :
    /\ task[e].at # "idle" => e \in cache
    /\ task[e].at \in {"decrypt", "dispatch"} => e \in saved /\ ~Undoing(e)
    /\ task[e].at = "dispatch" => e \in spent /\ stored[e] = 0
    /\ stored[e] <= 1
    /\ stored[e] > 0 => e \in spent
    /\ e \in spent /\ e \notin forgotten =>
         /\ e \in cache /\ e \in saved /\ ~Undoing(e)
         /\ task[e].at \notin {"reserve", "decrypt"}
    /\ e \in replayed => e \in forgotten

\* Reserving an envelope keeps the invariant, on either path.
LEMMA RatchetReserve ==
  ASSUME TypeOK, RatchetInv, NEW e \in Env, NEW src \in Source, Reserve(e, src),
         UNCHANGED <<saved, spent, stored, forgotten, replayed>>
  PROVE  RatchetInv'
<1>1. e \notin cache /\ (e \in spent => e \in forgotten)
  BY DEF Reserve, Seen, RatchetInv
<1>2. task'[e].at = "reserve" /\ \A f \in Env \ {e} : task'[f] = task[f]
  BY DEF Reserve, TypeOK
<1>3. cache' = cache \cup {e} /\ undoing' = undoing
  BY DEF Reserve
<1>4. QED
  BY <1>1, <1>2, <1>3 DEF RatchetInv, Undoing

\* Every step keeps the invariant of dedup set and ratchet.
LEMMA RatchetStep == TypeOK /\ RatchetInv /\ [Next]_vars => RatchetInv'
<1> SUFFICES ASSUME TypeOK, RatchetInv, [Next]_vars PROVE RatchetInv'
  OBVIOUS
<1> USE DEF RatchetInv, Undoing
<1>1. ASSUME NEW e \in Env, Publish(e) PROVE RatchetInv'
  BY <1>1 DEF Publish, TypeOK, Task, Idle, Undo
<1>2. ASSUME NEW e \in Env, FallBack(e) PROVE RatchetInv'
  BY <1>2 DEF FallBack, TypeOK, Task, Idle, Undo
<1>3. ASSUME NEW e \in Env, LiveFirst(e) PROVE RatchetInv'
  BY <1>3, RatchetReserve DEF LiveFirst, Source
<1>4. ASSUME NEW e \in Env, LiveDuplicate(e) PROVE RatchetInv'
  BY <1>4 DEF LiveDuplicate, WsAck, RacedWith, TypeOK, Task, Idle, Undo
<1>5. ASSUME NEW e \in Env, Evict(e) PROVE RatchetInv'
  BY <1>5 DEF Evict, TypeOK, Task, Idle, Undo
<1>6. ASSUME NEW e \in Env, Reserved(e) PROVE RatchetInv'
  BY <1>6 DEF Reserved, TypeOK, Task, Idle, Undo
<1>7. ASSUME NEW e \in Env, DecryptOk(e) PROVE RatchetInv'
  BY <1>7 DEF DecryptOk, TypeOK, Task, Idle, Undo
<1>8. ASSUME NEW e \in Env, DecryptFails(e) PROVE RatchetInv'
  BY <1>8 DEF DecryptFails, Fail, TypeOK, Task, Idle, Undo
<1>9. ASSUME NEW e \in Env, Malformed(e) PROVE RatchetInv'
  BY <1>9 DEF Malformed, DrainOutcome, TypeOK, Task, Idle, Undo
<1>10. ASSUME NEW e \in Env, Dispatch(e) PROVE RatchetInv'
  BY <1>10 DEF Dispatch, DrainOutcome, WsAck, TypeOK, Task, Idle, Undo
<1>11. ASSUME NEW e \in Env, DispatchFails(e) PROVE RatchetInv'
  BY <1>11 DEF DispatchFails, Fail, TypeOK, Task, Idle, Undo
<1>12. ASSUME NEW u \in undoing, Undone(u) PROVE RatchetInv'
  BY <1>12 DEF Undone, DrainOutcome, TypeOK, Task, Idle, Undo
<1>13. CASE WsOpen
  BY <1>13 DEF WsOpen, TypeOK, Task, Idle, Undo
<1>14. CASE WsClose
  BY <1>14 DEF WsClose, TypeOK, Task, Idle, Undo
<1>15. CASE Crash
  BY <1>15 DEF Crash, TypeOK, Task, Idle, Undo
<1>16. CASE DrainFetch
  BY <1>16 DEF DrainFetch, TypeOK, Task, Idle, Undo
<1>17. CASE DrainFails
  BY <1>17 DEF DrainFails, TypeOK, Task, Idle, Undo
<1>18. ASSUME NEW e \in Env, DrainFirst(e) PROVE RatchetInv'
  BY <1>18, RatchetReserve DEF DrainFirst, Source
<1>19. ASSUME NEW e \in Env, DrainDuplicate(e) PROVE RatchetInv'
  BY <1>19 DEF DrainDuplicate, RacedWith, TypeOK, Task, Idle, Undo
<1>20. CASE DrainBatchDone
  BY <1>20 DEF DrainBatchDone, TypeOK, Task, Idle, Undo
<1>21. CASE DrainAck
  BY <1>21 DEF DrainAck, TypeOK, Task, Idle, Undo
<1>22. CASE UNCHANGED vars
  BY <1>22 DEF vars, TypeOK, Task, Idle, Undo
<1>23. QED
  BY <1>1, <1>2, <1>3, <1>4, <1>5, <1>6, <1>7, <1>8, <1>9, <1>10, <1>11, <1>12, <1>13, <1>14, <1>15, <1>16, <1>17, <1>18, <1>19, <1>20, <1>21, <1>22 DEF Next, HandlerStep, DrainStep

\* The invariant of dedup set and ratchet.
THEOREM RatchetInvariant == Spec => []RatchetInv
<1>1. ASSUME Init PROVE RatchetInv
  <2>1. \A e \in Env : task[e].at = "idle"
    BY <1>1 DEF Init, Idle
  <2>2. \A e \in Env : stored[e] = 0
    BY <1>1 DEF Init
  <2>3. spent = {} /\ replayed = {}
    BY <1>1 DEF Init
  <2>4. ASSUME NEW e \in Env PROVE stored[e] <= 1 /\ ~(stored[e] > 0)
    BY <2>2
  <2>5. QED
    BY <2>1, <2>3, <2>4 DEF RatchetInv
<1>2. QED
  BY <1>1, RatchetStep, TypeCorrect, PTL DEF Spec

\* No envelope reaches messages.put twice, whatever is duplicated, retried,
\* rolled back or reloaded (index.ts handleInboundCiphertext).
THEOREM NeverStoredTwice == Spec => []StoredOnce
<1>1. RatchetInv => StoredOnce
  BY DEF RatchetInv, StoredOnce
<1>2. QED
  BY <1>1, RatchetInvariant, PTL

\* No ciphertext reaches the ratchet twice unless the dedup set forgot it
\* (envelope_dedup.ts 1-11).
THEOREM NeverReplayed == Spec => []NoReplay
<1>1. TypeOK /\ RatchetInv => NoReplay
  BY DEF TypeOK, RatchetInv, NoReplay
<1>2. QED
  BY <1>1, TypeCorrect, RatchetInvariant, PTL

-----------------------------------------------------------------------------
\* Why nothing else is lost: whoever lets go of an envelope (the dedup set that
\* answers for it, the drain that acks it, the sender who saw "live", the
\* pending queue it has left) does so for an envelope that was stored or that
\* one of the known causes accounts for.
Excused(e) == stored[e] > 0 \/ e \in Unknown \cup raced \cup interrupted \cup refused

Accounted(e) ==
  /\ e \in cache /\ task[e].at = "idle" => Excused(e)
  /\ e \in saved /\ task[e].at = "idle" /\ ~Undoing(e) => Excused(e)
  /\ e \in drain.acks => Excused(e)
  /\ node[e] = "live" => Excused(e)
  /\ node[e] = "stored" /\ e \notin pending => Excused(e)

LossInv == \A e \in Env : Accounted(e)

\* An excuse never goes away.
LEMMA ExcusedStays ==
  ASSUME TypeOK, [Next]_vars, NEW e \in Env, Excused(e)
  PROVE  Excused(e)'
<1> USE DEF Excused, TypeOK
<1>1. ASSUME NEW f \in Env, Publish(f) PROVE Excused(e)'
  BY <1>1 DEF Publish, TypeOK
<1>2. ASSUME NEW f \in Env, FallBack(f) PROVE Excused(e)'
  BY <1>2 DEF FallBack, TypeOK
<1>3. ASSUME NEW f \in Env, LiveFirst(f) PROVE Excused(e)'
  BY <1>3 DEF LiveFirst, Reserve, TypeOK
<1>4. ASSUME NEW f \in Env, LiveDuplicate(f) PROVE Excused(e)'
  BY <1>4 DEF LiveDuplicate, WsAck, RacedWith, TypeOK
<1>5. ASSUME NEW f \in Env, Evict(f) PROVE Excused(e)'
  BY <1>5 DEF Evict, TypeOK
<1>6. ASSUME NEW f \in Env, Reserved(f) PROVE Excused(e)'
  BY <1>6 DEF Reserved, TypeOK
<1>7. ASSUME NEW f \in Env, DecryptOk(f) PROVE Excused(e)'
  BY <1>7 DEF DecryptOk, TypeOK
<1>8. ASSUME NEW f \in Env, DecryptFails(f) PROVE Excused(e)'
  BY <1>8 DEF DecryptFails, Fail, TypeOK
<1>9. ASSUME NEW f \in Env, Malformed(f) PROVE Excused(e)'
  BY <1>9 DEF Malformed, DrainOutcome, TypeOK
<1>10. ASSUME NEW f \in Env, Dispatch(f) PROVE Excused(e)'
  BY <1>10 DEF Dispatch, DrainOutcome, WsAck, TypeOK
<1>11. ASSUME NEW f \in Env, DispatchFails(f) PROVE Excused(e)'
  BY <1>11 DEF DispatchFails, Fail, TypeOK
<1>12. ASSUME NEW u \in undoing, Undone(u) PROVE Excused(e)'
  BY <1>12 DEF Undone, DrainOutcome, TypeOK
<1>13. CASE WsOpen
  BY <1>13 DEF WsOpen, TypeOK
<1>14. CASE WsClose
  BY <1>14 DEF WsClose, TypeOK
<1>15. CASE Crash
  BY <1>15 DEF Crash, TypeOK
<1>16. CASE DrainFetch
  BY <1>16 DEF DrainFetch, TypeOK
<1>17. CASE DrainFails
  BY <1>17 DEF DrainFails, TypeOK
<1>18. ASSUME NEW f \in Env, DrainFirst(f) PROVE Excused(e)'
  BY <1>18 DEF DrainFirst, Reserve, TypeOK
<1>19. ASSUME NEW f \in Env, DrainDuplicate(f) PROVE Excused(e)'
  BY <1>19 DEF DrainDuplicate, RacedWith, TypeOK
<1>20. CASE DrainBatchDone
  BY <1>20 DEF DrainBatchDone, TypeOK
<1>21. CASE DrainAck
  BY <1>21 DEF DrainAck, TypeOK
<1>22. CASE UNCHANGED vars
  BY <1>22 DEF vars, TypeOK
<1>23. QED
  BY <1>1, <1>2, <1>3, <1>4, <1>5, <1>6, <1>7, <1>8, <1>9, <1>10, <1>11, <1>12, <1>13, <1>14, <1>15, <1>16, <1>17, <1>18, <1>19, <1>20, <1>21, <1>22 DEF Next, HandlerStep, DrainStep

\* Every step keeps the account of lost envelopes.
LEMMA LossStep == TypeOK /\ RatchetInv /\ LossInv /\ [Next]_vars => LossInv'
<1> SUFFICES ASSUME TypeOK, RatchetInv, LossInv, [Next]_vars, NEW g \in Env
             PROVE  Accounted(g)'
  BY DEF LossInv
<1> Accounted(g)
  BY DEF LossInv
<1>0. Excused(g) => Excused(g)'
  BY ExcusedStays
<1> USE DEF Accounted, Undoing
<1>1. ASSUME NEW e \in Env, Publish(e) PROVE Accounted(g)'
  BY <1>1, <1>0 DEF Publish, TypeOK, Task, Idle, Undo, Drain, DrainIdle
<1>2. ASSUME NEW e \in Env, FallBack(e) PROVE Accounted(g)'
  BY <1>2, <1>0 DEF FallBack, TypeOK, Task, Idle, Undo, Drain, DrainIdle
<1>3. ASSUME NEW e \in Env, LiveFirst(e) PROVE Accounted(g)'
  BY <1>3, <1>0 DEF LiveFirst, Reserve, TypeOK, Task, Idle, Undo, Drain, DrainIdle
<1>4. ASSUME NEW e \in Env, LiveDuplicate(e) PROVE Accounted(g)'
  <2>1. CASE g = e
    <3>1. Excused(g)'
      BY <1>4, <1>0, <2>1 DEF LiveDuplicate, RacedWith, Seen, Excused, TypeOK
    <3>2. QED
      BY <3>1
  <2>2. CASE g # e
    BY <1>4, <1>0, <2>2 DEF LiveDuplicate, WsAck, TypeOK, Drain
  <2>3. QED
    BY <2>1, <2>2
<1>5. ASSUME NEW e \in Env, Evict(e) PROVE Accounted(g)'
  BY <1>5, <1>0 DEF Evict, TypeOK, Task, Idle, Undo, Drain, DrainIdle
<1>6. ASSUME NEW e \in Env, Reserved(e) PROVE Accounted(g)'
  BY <1>6, <1>0 DEF Reserved, TypeOK, Task, Idle, Undo, Drain, DrainIdle
<1>7. ASSUME NEW e \in Env, DecryptOk(e) PROVE Accounted(g)'
  BY <1>7, <1>0 DEF DecryptOk, TypeOK, Task, Idle, Undo, Drain, DrainIdle
<1>8. ASSUME NEW e \in Env, DecryptFails(e) PROVE Accounted(g)'
  <2>1. CASE g = e
    <3> PICK terminal \in BOOLEAN : Fail(e, terminal)
      BY <1>8 DEF DecryptFails
    <3> DEFINE failed == [env |-> e, source |-> task[e].source, terminal |-> terminal]
    <3>0. failed \in undoing' /\ failed.env = g
      BY <1>8, <2>1 DEF DecryptFails, Fail
    <3>1. g \notin cache' /\ Undoing(g)'
      BY <1>8, <2>1, <3>0 DEF DecryptFails, Fail
    <3>2. node' = node /\ pending' = pending /\ drain' = drain
      BY <1>8 DEF DecryptFails
    <3>3. QED
      BY <3>1, <3>2, <1>0
  <2>2. CASE g # e
    <3>1. g \in cache' <=> g \in cache
      BY <1>8, <2>2 DEF DecryptFails, Fail
    <3>2. task'[g] = task[g] /\ (Undoing(g) => Undoing(g)')
      BY <1>8, <2>2 DEF DecryptFails, Fail, TypeOK
    <3>3. Undoing(g)' => Undoing(g)
      BY <1>8, <2>2 DEF DecryptFails, Fail
    <3>4. saved' = saved /\ node' = node /\ pending' = pending /\ drain' = drain
      BY <1>8 DEF DecryptFails
    <3>5. QED
      BY <3>1, <3>2, <3>3, <3>4, <1>0
  <2>3. QED
    BY <2>1, <2>2
<1>9. ASSUME NEW e \in Env, Malformed(e) PROVE Accounted(g)'
  <2>1. CASE g = e
    <3>1. Excused(g)'
      BY <1>9, <1>0, <2>1 DEF Malformed, Excused, TypeOK
    <3>2. QED
      BY <3>1
  <2>2. CASE g # e
    BY <1>9, <1>0, <2>2 DEF Malformed, DrainOutcome, TypeOK, Drain
  <2>3. QED
    BY <2>1, <2>2
<1>10. ASSUME NEW e \in Env, Dispatch(e) PROVE Accounted(g)'
  <2>1. CASE g = e
    <3>1. Excused(g)'
      BY <1>10, <1>0, <2>1 DEF Dispatch, Excused, TypeOK
    <3>2. QED
      BY <3>1
  <2>2. CASE g # e
    BY <1>10, <1>0, <2>2 DEF Dispatch, DrainOutcome, WsAck, TypeOK, Drain
  <2>3. QED
    BY <2>1, <2>2
<1>11. ASSUME NEW e \in Env, DispatchFails(e) PROVE Accounted(g)'
  <2>1. CASE g = e
    <3> DEFINE failed == [env |-> e, source |-> task[e].source, terminal |-> FALSE]
    <3>0. failed \in undoing' /\ failed.env = g
      BY <1>11, <2>1 DEF DispatchFails, Fail
    <3>1. g \notin cache' /\ Undoing(g)'
      BY <1>11, <2>1, <3>0 DEF DispatchFails, Fail
    <3>2. node' = node /\ pending' = pending /\ drain' = drain
      BY <1>11 DEF DispatchFails
    <3>3. QED
      BY <3>1, <3>2, <1>0
  <2>2. CASE g # e
    <3>1. g \in cache' <=> g \in cache
      BY <1>11, <2>2 DEF DispatchFails, Fail
    <3>2. task'[g] = task[g] /\ (Undoing(g) => Undoing(g)')
      BY <1>11, <2>2 DEF DispatchFails, Fail, TypeOK
    <3>3. Undoing(g)' => Undoing(g)
      BY <1>11, <2>2 DEF DispatchFails, Fail
    <3>4. saved' = saved /\ node' = node /\ pending' = pending /\ drain' = drain
      BY <1>11 DEF DispatchFails
    <3>5. QED
      BY <3>1, <3>2, <3>3, <3>4, <1>0
  <2>3. QED
    BY <2>1, <2>2
<1>12. ASSUME NEW u \in undoing, Undone(u) PROVE Accounted(g)'
  <2>1. CASE g = u.env
    <3>1. g \notin saved' /\ cache' = cache /\ task' = task
      BY <1>12, <2>1 DEF Undone
    <3>2. g \in drain'.acks => g \in drain.acks \/ g \in refused'
      BY <1>12, <2>1 DEF Undone, DrainOutcome, TypeOK, Drain
    <3>3. node' = node /\ pending' = pending
      BY <1>12 DEF Undone
    <3>4. QED
      BY <3>1, <3>2, <3>3, <1>0 DEF Excused
  <2>2. CASE g # u.env
    BY <1>12, <1>0, <2>2 DEF Undone, DrainOutcome, TypeOK, Drain
  <2>3. QED
    BY <2>1, <2>2
<1>13. CASE WsOpen
  BY <1>13, <1>0 DEF WsOpen, TypeOK, Task, Idle, Undo, Drain, DrainIdle
<1>14. CASE WsClose
  BY <1>14, <1>0 DEF WsClose, TypeOK, Task, Idle, Undo, Drain, DrainIdle
<1>15. CASE Crash
  <2>1. g \in cache' => Excused(g)'
    BY <1>15, <1>0 DEF Crash, Excused
  <2>2. g \in saved' => Excused(g)'
    BY <1>15, <1>0 DEF Crash, Excused
  <2>3. drain'.acks = {} /\ node' = node /\ pending' = pending
    BY <1>15 DEF Crash, DrainIdle
  <2>4. QED
    BY <2>1, <2>2, <2>3, <1>0
<1>16. CASE DrainFetch
  BY <1>16, <1>0 DEF DrainFetch, TypeOK, Task, Idle, Undo, Drain, DrainIdle
<1>17. CASE DrainFails
  BY <1>17, <1>0 DEF DrainFails, TypeOK, Task, Idle, Undo, Drain, DrainIdle
<1>18. ASSUME NEW e \in Env, DrainFirst(e) PROVE Accounted(g)'
  BY <1>18, <1>0 DEF DrainFirst, Reserve, TypeOK, Task, Idle, Undo, Drain, DrainIdle
<1>19. ASSUME NEW e \in Env, DrainDuplicate(e) PROVE Accounted(g)'
  <2>1. CASE g = e
    <3>1. Excused(g)'
      BY <1>19, <1>0, <2>1 DEF DrainDuplicate, RacedWith, Seen, Excused, TypeOK
    <3>2. QED
      BY <3>1
  <2>2. CASE g # e
    BY <1>19, <1>0, <2>2 DEF DrainDuplicate, TypeOK, Drain
  <2>3. QED
    BY <2>1, <2>2
<1>20. CASE DrainBatchDone
  BY <1>20, <1>0 DEF DrainBatchDone, TypeOK, Task, Idle, Undo, Drain, DrainIdle
<1>21. CASE DrainAck
  BY <1>21, <1>0 DEF DrainAck, TypeOK, Task, Idle, Undo, Drain, DrainIdle
<1>22. CASE UNCHANGED vars
  BY <1>22, <1>0 DEF vars, TypeOK, Task, Idle, Undo, Drain, DrainIdle
<1>23. QED
  BY <1>1, <1>2, <1>3, <1>4, <1>5, <1>6, <1>7, <1>8, <1>9, <1>10, <1>11, <1>12, <1>13, <1>14, <1>15, <1>16, <1>17, <1>18, <1>19, <1>20, <1>21, <1>22 DEF Next, HandlerStep, DrainStep

\* The invariant behind the account of lost envelopes.
THEOREM LossInvariant == Spec => []LossInv
<1>1. ASSUME Init PROVE LossInv
  <2>1. cache = {} /\ saved = {} /\ drain.acks = {} /\ \A e \in Env : node[e] = "unsent"
    BY <1>1 DEF Init, DrainIdle
  <2>2. QED
    BY <2>1 DEF LossInv, Accounted
<1>2. QED
  BY <1>1, LossStep, TypeCorrect, RatchetInvariant, PTL DEF Spec

\* An envelope is lost only to a duplicate acked too early, to a reload in the
\* middle of its handling, or to a ciphertext found undecryptable for good
\* (index.ts drainPending, handleInboundCiphertext).
THEOREM LossesAreKnown == Spec => []OnlyKnownLosses
<1>1. TypeOK /\ LossInv => OnlyKnownLosses
  <2> SUFFICES ASSUME TypeOK, LossInv, NEW e \in Env, Lost(e)
               PROVE  e \in raced \cup interrupted \cup refused
    BY DEF OnlyKnownLosses
  <2>1. Excused(e)
    BY DEF LossInv, Accounted, Lost
  <2>2. ~(stored[e] > 0) /\ e \notin Unknown
    BY DEF Lost, TypeOK
  <2>3. QED
    BY <2>1, <2>2 DEF Excused
<1>2. QED
  BY <1>1, LossInvariant, TypeCorrect, PTL

-----------------------------------------------------------------------------
\* An envelope that was not sent has left no trace.
UnsentInv ==
  \A e \in Env :
    node[e] = "unsent" => /\ frames[e] = 0 /\ e \notin pending /\ e \notin drain.todo
                          /\ task[e].at = "idle"

\* Every step leaves an envelope nobody sent out of sight of the handlers.
LEMMA UnsentStep == TypeOK /\ UnsentInv /\ [Next]_vars => UnsentInv'
<1> SUFFICES ASSUME TypeOK, UnsentInv, [Next]_vars PROVE UnsentInv'
  OBVIOUS
<1> USE DEF UnsentInv
<1>1. ASSUME NEW e \in Env, Publish(e) PROVE UnsentInv'
  BY <1>1 DEF Publish, TypeOK, Task, Idle, Drain, DrainIdle, NodeState
<1>2. ASSUME NEW e \in Env, FallBack(e) PROVE UnsentInv'
  BY <1>2 DEF FallBack, TypeOK, Task, Idle, Drain, DrainIdle, NodeState
<1>3. ASSUME NEW e \in Env, LiveFirst(e) PROVE UnsentInv'
  BY <1>3 DEF LiveFirst, Reserve, TypeOK, Task, Idle, Drain, DrainIdle, NodeState
<1>4. ASSUME NEW e \in Env, LiveDuplicate(e) PROVE UnsentInv'
  BY <1>4 DEF LiveDuplicate, WsAck, RacedWith, TypeOK, Task, Idle, Drain, DrainIdle, NodeState
<1>5. ASSUME NEW e \in Env, Evict(e) PROVE UnsentInv'
  BY <1>5 DEF Evict, TypeOK, Task, Idle, Drain, DrainIdle, NodeState
<1>6. ASSUME NEW e \in Env, Reserved(e) PROVE UnsentInv'
  BY <1>6 DEF Reserved, TypeOK, Task, Idle, Drain, DrainIdle, NodeState
<1>7. ASSUME NEW e \in Env, DecryptOk(e) PROVE UnsentInv'
  BY <1>7 DEF DecryptOk, TypeOK, Task, Idle, Drain, DrainIdle, NodeState
<1>8. ASSUME NEW e \in Env, DecryptFails(e) PROVE UnsentInv'
  BY <1>8 DEF DecryptFails, Fail, TypeOK, Task, Idle, Drain, DrainIdle, NodeState
<1>9. ASSUME NEW e \in Env, Malformed(e) PROVE UnsentInv'
  BY <1>9 DEF Malformed, DrainOutcome, TypeOK, Task, Idle, Drain, DrainIdle, NodeState
<1>10. ASSUME NEW e \in Env, Dispatch(e) PROVE UnsentInv'
  BY <1>10 DEF Dispatch, DrainOutcome, WsAck, TypeOK, Task, Idle, Drain, DrainIdle, NodeState
<1>11. ASSUME NEW e \in Env, DispatchFails(e) PROVE UnsentInv'
  BY <1>11 DEF DispatchFails, Fail, TypeOK, Task, Idle, Drain, DrainIdle, NodeState
<1>12. ASSUME NEW u \in undoing, Undone(u) PROVE UnsentInv'
  BY <1>12 DEF Undone, DrainOutcome, TypeOK, Task, Idle, Drain, DrainIdle, NodeState
<1>13. CASE WsOpen
  BY <1>13 DEF WsOpen, TypeOK, Task, Idle, Drain, DrainIdle, NodeState
<1>14. CASE WsClose
  BY <1>14 DEF WsClose, TypeOK, Task, Idle, Drain, DrainIdle, NodeState
<1>15. CASE Crash
  BY <1>15 DEF Crash, TypeOK, Task, Idle, Drain, DrainIdle, NodeState
<1>16. CASE DrainFetch
  BY <1>16 DEF DrainFetch, TypeOK, Task, Idle, Drain, DrainIdle, NodeState
<1>17. CASE DrainFails
  BY <1>17 DEF DrainFails, TypeOK, Task, Idle, Drain, DrainIdle, NodeState
<1>18. ASSUME NEW e \in Env, DrainFirst(e) PROVE UnsentInv'
  BY <1>18 DEF DrainFirst, Reserve, TypeOK, Task, Idle, Drain, DrainIdle, NodeState
<1>19. ASSUME NEW e \in Env, DrainDuplicate(e) PROVE UnsentInv'
  BY <1>19 DEF DrainDuplicate, RacedWith, TypeOK, Task, Idle, Drain, DrainIdle, NodeState
<1>20. CASE DrainBatchDone
  BY <1>20 DEF DrainBatchDone, TypeOK, Task, Idle, Drain, DrainIdle, NodeState
<1>21. CASE DrainAck
  BY <1>21 DEF DrainAck, TypeOK, Task, Idle, Drain, DrainIdle, NodeState
<1>22. CASE UNCHANGED vars
  BY <1>22 DEF vars, TypeOK, Task, Idle, Drain, DrainIdle, NodeState
<1>23. QED
  BY <1>1, <1>2, <1>3, <1>4, <1>5, <1>6, <1>7, <1>8, <1>9, <1>10, <1>11, <1>12, <1>13, <1>14, <1>15, <1>16, <1>17, <1>18, <1>19, <1>20, <1>21, <1>22 DEF Next, HandlerStep, DrainStep

\* An envelope nobody sent is on no path to the device: the handlers run only
\* on what the node published or the backend queued.
THEOREM UnsentInvariant == Spec => []UnsentInv
<1>1. Init => UnsentInv
  BY DEF Init, UnsentInv, Idle, DrainIdle
<1>2. QED
  BY <1>1, UnsentStep, TypeCorrect, PTL DEF Spec

\* Every step of the handlers is a step of the abstract specification or leaves
\* its variables alone.
LEMMA PromiseStep ==
  TypeOK /\ RatchetInv /\ UnsentInv /\ [Next]_vars
    => [Promise!Next]_<<Sent, stored>>
<1> SUFFICES ASSUME TypeOK, RatchetInv, UnsentInv, [Next]_vars
             PROVE  Promise!Next \/ (Sent' = Sent /\ stored' = stored)
  OBVIOUS
<1>1. ASSUME NEW e \in Env, Publish(e) PROVE Promise!Next \/ (Sent' = Sent /\ stored' = stored)
  <2>1. stored' = stored
    BY <1>1 DEF Publish
  <2>2. CASE node[e] = "unsent"
    <3>1. Sent' = Sent \cup {e} /\ e \notin Sent
      BY <1>1, <2>2 DEF Publish, Sent, TypeOK
    <3>2. Promise!Send(e)
      BY <2>1, <3>1 DEF Promise!Send
    <3>3. QED
      BY <3>2 DEF Promise!Next
  <2>3. CASE node[e] # "unsent"
    BY <1>1, <2>1, <2>3 DEF Publish, Sent, TypeOK
  <2>4. QED
    BY <2>2, <2>3
<1>2. ASSUME NEW e \in Env, FallBack(e) PROVE Promise!Next \/ (Sent' = Sent /\ stored' = stored)
  BY <1>2 DEF FallBack, Sent, TypeOK, NodeState
<1>3. ASSUME NEW e \in Env, LiveFirst(e) PROVE Promise!Next \/ (Sent' = Sent /\ stored' = stored)
  BY <1>3 DEF LiveFirst, Reserve, Sent, TypeOK, NodeState
<1>4. ASSUME NEW e \in Env, LiveDuplicate(e) PROVE Promise!Next \/ (Sent' = Sent /\ stored' = stored)
  BY <1>4 DEF LiveDuplicate, WsAck, RacedWith, Sent, TypeOK, NodeState
<1>5. ASSUME NEW e \in Env, Evict(e) PROVE Promise!Next \/ (Sent' = Sent /\ stored' = stored)
  BY <1>5 DEF Evict, Sent, TypeOK, NodeState
<1>6. ASSUME NEW e \in Env, Reserved(e) PROVE Promise!Next \/ (Sent' = Sent /\ stored' = stored)
  BY <1>6 DEF Reserved, Sent, TypeOK, NodeState
<1>7. ASSUME NEW e \in Env, DecryptOk(e) PROVE Promise!Next \/ (Sent' = Sent /\ stored' = stored)
  BY <1>7 DEF DecryptOk, Sent, TypeOK, NodeState
<1>8. ASSUME NEW e \in Env, DecryptFails(e) PROVE Promise!Next \/ (Sent' = Sent /\ stored' = stored)
  BY <1>8 DEF DecryptFails, Fail, Sent, TypeOK, NodeState
<1>9. ASSUME NEW e \in Env, Malformed(e) PROVE Promise!Next \/ (Sent' = Sent /\ stored' = stored)
  BY <1>9 DEF Malformed, DrainOutcome, Sent, TypeOK, NodeState
<1>10. ASSUME NEW e \in Env, Dispatch(e) PROVE Promise!Next \/ (Sent' = Sent /\ stored' = stored)
  <2>1. e \in Sent /\ stored[e] = 0
    BY <1>10 DEF Dispatch, UnsentInv, RatchetInv, Sent
  <2>2. Sent' = Sent
    BY <1>10 DEF Dispatch, WsAck, Sent, TypeOK
  <2>3. stored' = [stored EXCEPT ![e] = 1]
    BY <1>10, <2>1 DEF Dispatch
  <2>4. Promise!Deliver(e)
    BY <2>1, <2>2, <2>3 DEF Promise!Deliver
  <2>5. QED
    BY <2>4 DEF Promise!Next
<1>11. ASSUME NEW e \in Env, DispatchFails(e) PROVE Promise!Next \/ (Sent' = Sent /\ stored' = stored)
  <2>1. e \in Sent /\ stored[e] = 0
    BY <1>11 DEF DispatchFails, UnsentInv, RatchetInv, Sent
  <2>2. Sent' = Sent
    BY <1>11 DEF DispatchFails, Sent
  <2>3. PICK n \in {0, 1} : stored' = [stored EXCEPT ![e] = @ + n]
    BY <1>11 DEF DispatchFails
  <2>4. CASE n = 0
    <3>1. stored' = stored
      BY <2>1, <2>3, <2>4 DEF TypeOK
    <3>2. QED
      BY <2>2, <3>1
  <2>5. CASE n = 1
    <3>1. stored' = [stored EXCEPT ![e] = 1]
      BY <2>1, <2>3, <2>5
    <3>2. Promise!Deliver(e)
      BY <2>1, <2>2, <3>1 DEF Promise!Deliver
    <3>3. QED
      BY <3>2 DEF Promise!Next
  <2>6. QED
    BY <2>4, <2>5
<1>12. ASSUME NEW u \in undoing, Undone(u) PROVE Promise!Next \/ (Sent' = Sent /\ stored' = stored)
  BY <1>12 DEF Undone, DrainOutcome, Sent, TypeOK, NodeState
<1>13. CASE WsOpen
  BY <1>13 DEF WsOpen, Sent, TypeOK, NodeState
<1>14. CASE WsClose
  BY <1>14 DEF WsClose, Sent, TypeOK, NodeState
<1>15. CASE Crash
  BY <1>15 DEF Crash, Sent, TypeOK, NodeState
<1>16. CASE DrainFetch
  BY <1>16 DEF DrainFetch, Sent, TypeOK, NodeState
<1>17. CASE DrainFails
  BY <1>17 DEF DrainFails, Sent, TypeOK, NodeState
<1>18. ASSUME NEW e \in Env, DrainFirst(e) PROVE Promise!Next \/ (Sent' = Sent /\ stored' = stored)
  BY <1>18 DEF DrainFirst, Reserve, Sent, TypeOK, NodeState
<1>19. ASSUME NEW e \in Env, DrainDuplicate(e) PROVE Promise!Next \/ (Sent' = Sent /\ stored' = stored)
  BY <1>19 DEF DrainDuplicate, RacedWith, Sent, TypeOK, NodeState
<1>20. CASE DrainBatchDone
  BY <1>20 DEF DrainBatchDone, Sent, TypeOK, NodeState
<1>21. CASE DrainAck
  BY <1>21 DEF DrainAck, Sent, TypeOK, NodeState
<1>22. CASE UNCHANGED vars
  BY <1>22 DEF vars, Sent, TypeOK, NodeState
<1>23. QED
  BY <1>1, <1>2, <1>3, <1>4, <1>5, <1>6, <1>7, <1>8, <1>9, <1>10, <1>11, <1>12, <1>13, <1>14, <1>15, <1>16, <1>17, <1>18, <1>19, <1>20, <1>21, <1>22 DEF Next, HandlerStep, DrainStep

\* The receiving device implements the abstract specification.
THEOREM ImplementsDelivery == Spec => AtMostOnce
<1>1. Init => Promise!Init
  BY DEF Init, Promise!Init, Sent
<1>2. QED
  BY <1>1, PromiseStep, TypeCorrect, RatchetInvariant, UnsentInvariant, PTL
  DEF Spec, AtMostOnce, Promise!Spec

-----------------------------------------------------------------------------
\* The inductive invariant of Conversation

\* An edit or tombstone comes after what it is about.
Follows(l, E) == \A x \in E : l[x].kind \in {"edit", "delete"} => l[x].of < x

\* A job is about an event of the log, of a kind that takes it where it is.
Fits(l, j) ==
  /\ j.at <= Len(l) /\ \A r \in j.snap : r.at <= Len(l)
  /\ j.at = 0 => j.phase \in {"wipe", "unindex", "mark"}
  /\ j.phase \in {"bump", "put", "index"} => l[j.at].kind = "text"
  /\ j.phase \in {"ship", "apply"} => l[j.at].kind \in {"edit", "delete"}
  /\ j.phase = "guard" => l[j.at].kind = "wipeAll"
  /\ j.at # 0 /\ j.phase \in {"wipe", "unindex", "mark"} => l[j.at].kind \in {"wipeSelf", "wipeAll"}

KnownInv ==
  /\ Len(log) <= MaxEvents /\ Follows(log, 1..Len(log))
  /\ mail \subseteq Device \X (1..Len(log))
  /\ \A d \in Device :
       /\ \A r \in rows[d] : r.at <= Len(log)
       /\ \A j \in jobs[d] : Fits(log, j)
       /\ HandledOn(d) \subseteq 1..Len(log)
       /\ watermark[d] <= Len(log)

\* A device that does one thing at a time: what its job has read is still so,
\* and its rows were stored under the watermark or are listed as unguarded.
ReadInv(d, j) ==
  /\ j.phase \in {"bump", "guard"} => j.seen = watermark[d]
  /\ j.phase = "bump" /\ Own(d, j) => watermark[d] < j.at
  /\ j.phase = "put" => j.at <= watermark[d]
  /\ j.phase = "apply" => At(j.snap) \subseteq At(rows[d])
  /\ j.phase = "wipe" => j.snap = rows[d]
  /\ j.phase = "wipe" /\ j.at # 0 /\ ~Siblings(d, log[j.at].by) => watermark[d] < j.at
  /\ j.phase \in {"unindex", "mark"} => rows[d] = {}

Covered(d) == \A t \in At(rows[d]) : t \in unguarded[d] \/ t <= watermark[d]

SafeAt(d) ==
  /\ \A j, k \in jobs[d] : j = k
  /\ \A j \in jobs[d] : ReadInv(d, j)
  /\ Covered(d)
  /\ \A p \in retro[d] : p[2] \in unguarded[d]

SafeInv == \A d \in Device \ disturbed : SafeAt(d)

\* If its events come in their order too, its job is about the last of them, and
\* its rows show the others until the job changes them, and then all of them.
Latest(d, t) == t \in HandledOn(d) /\ \A x \in HandledOn(d) : x <= t
Before(d, j) == HandledOn(d) \ {j.at}

ShowInv(d, j) ==
  /\ j.at # 0 => Latest(d, j.at)
  /\ j.phase = "guard" => watermark[d] < j.at
  /\ j.phase \in {"bump", "put", "ship", "apply"} => rows[d] = View(log, Before(d, j))
  /\ j.phase = "apply" => j.snap = Target(d, j.at)
  /\ j.phase = "index" => rows[d] = View(log, HandledOn(d))

OrderAt(d) ==
  /\ watermark[d] \in {0} \cup HandledOn(d)
  /\ jobs[d] = {} => rows[d] = View(log, HandledOn(d))
  /\ \A j \in jobs[d] : ShowInv(d, j)

OrderInv == \A d \in Device \ disturbed : InOrder(d) => OrderAt(d)

ChatInv == ChatTypeOK /\ KnownInv /\ SafeInv /\ OrderInv

-----------------------------------------------------------------------------
\* What a conversation looks like after one more event

LEMMA NewestIsLast ==
  ASSUME NEW S \in SUBSET Nat, NEW t \in S, \A x \in S : x <= t PROVE Newest(S) = t
<1>1. \A e \in S : (\A f \in S : f <= e) => e = t
  <2>1. SUFFICES ASSUME NEW e \in S, \A f \in S : f <= e PROVE e = t
    OBVIOUS
  <2>2. t <= e /\ e <= t /\ e \in Nat /\ t \in Nat
    BY <2>1
  <2> QED BY <2>2
<1>2. \E e \in S : \A f \in S : f <= e
  OBVIOUS
<1>3. (CHOOSE e \in S : \A f \in S : f <= e) = t
  BY <1>1, <1>2
<1> QED BY <1>3 DEF Newest

\* A log that only grows does not change it.
LEMMA ViewOfLonger ==
  ASSUME NEW l, NEW m, NEW E, \A x \in E : m[x] = l[x] PROVE View(m, E) = View(l, E)
<1>1. Wipes(m, E) = Wipes(l, E)
  BY DEF Wipes
<1>2. Texts(m, E) = Texts(l, E)
  BY <1>1 DEF Texts
<1>3. \A t : Tombs(m, E, t) = Tombs(l, E, t)
  BY DEF Tombs
<1>4. \A t : Edits(m, E, t) = Edits(l, E, t)
  BY <1>3 DEF Edits
<1>5. \A t : Shown(m, E, t) = Shown(l, E, t)
  BY <1>3, <1>4 DEF Shown
<1> QED BY <1>2, <1>5 DEF View

\* The last event is a wipe.
LEMMA ViewWiped ==
  ASSUME NEW l, NEW E \in SUBSET Nat, NEW t \in E, \A x \in E : x <= t, l[t].kind \in {"wipeSelf", "wipeAll"}
  PROVE  View(l, E) = {}
<1>1. \A x \in E : ~(t < x)
  OBVIOUS
<1>2. Texts(l, E) = {}
  BY <1>1 DEF Texts, Wipes
<1> QED BY <1>2 DEF View

LEMMA ViewRows ==
  ASSUME NEW l, NEW E
  PROVE  /\ At(View(l, E)) = Texts(l, E)
         /\ \A x \in Texts(l, E) : {r \in View(l, E) : r.at = x} = {Shown(l, E, x)}
<1>1. \A x : Shown(l, E, x).at = x
  BY DEF Shown
<1> QED BY <1>1 DEF View, At

\* The last event is a text.
LEMMA ViewText ==
  ASSUME NEW l, NEW E \in SUBSET Nat, NEW t \in Nat, \A x \in E : x < t, Follows(l, E), l[t].kind = "text"
  PROVE  View(l, E \cup {t}) = Store(View(l, E), {Text(t)})
<1> DEFINE F == E \cup {t}
<1>1. Wipes(l, F) = Wipes(l, E)
  BY DEF Wipes
<1>2. Texts(l, F) = Texts(l, E) \cup {t}
  BY <1>1 DEF Texts, Wipes
<1>3. \A s : Tombs(l, F, s) = Tombs(l, E, s) /\ Edits(l, F, s) = Edits(l, E, s)
  BY DEF Tombs, Edits
<1>4. Tombs(l, E, t) = {} /\ Edits(l, E, t) = {}
  <2>1. ASSUME NEW x \in E, l[x].kind \in {"edit", "delete"}, l[x].of = t PROVE FALSE
    <3>1. t < x /\ x < t /\ x \in Nat
      BY <2>1 DEF Follows
    <3> QED BY <3>1
  <2> QED BY <2>1 DEF Tombs, Edits
<1>5. Shown(l, F, t) = Text(t) /\ \A s : Shown(l, F, s) = Shown(l, E, s)
  <2>1. Newest({}) = 0
    BY DEF Newest
  <2>2. Tombs(l, F, t) = {} /\ Edits(l, F, t) = {}
    BY <1>3, <1>4
  <2> QED BY <1>3, <2>1, <2>2 DEF Shown, Text
<1>6. View(l, F) = View(l, E) \cup {Text(t)}
  BY <1>2, <1>5 DEF View
<1>7. At({Text(t)}) = {t}
  BY DEF At, Text
<1>8. \A r \in View(l, E) : r.at # t
  <2>1. \A x \in Texts(l, E) : x \in E /\ x # t
    BY DEF Texts
  <2> QED BY <2>1, ViewRows DEF At
<1> QED BY <1>6, <1>7, <1>8 DEF Store

\* The last event is an edit: of a row that is shown and not tombstoned.
LEMMA ViewEdited ==
  ASSUME NEW l, NEW E \in SUBSET Nat, NEW t \in Nat, \A x \in E : x < t, l[t].kind = "edit"
  PROVE  View(l, E \cup {t}) = Store(View(l, E), {[r EXCEPT !.edit = t] : r \in Editable(View(l, E), l[t].of)})
<1> DEFINE F == E \cup {t}
           s == l[t].of
           new == {[r EXCEPT !.edit = t] : r \in Editable(View(l, E), s)}
<1>1. Wipes(l, F) = Wipes(l, E) /\ Texts(l, F) = Texts(l, E)
  BY DEF Wipes, Texts
<1>2. \A x : Tombs(l, F, x) = Tombs(l, E, x) /\ Tombs(l, E, x) \subseteq E
  BY DEF Tombs
<1>3. \A x : x # s => Edits(l, F, x) = Edits(l, E, x)
  BY <1>2 DEF Edits
<1>4. Tombs(l, E, s) # {} => Edits(l, F, s) = Edits(l, E, s)
  <2>1. SUFFICES ASSUME NEW x \in Tombs(l, E, s) PROVE Edits(l, F, s) = Edits(l, E, s)
    OBVIOUS
  <2>2. x \in E
    BY <1>2, <2>1
  <2>3. x \in Nat /\ x < t /\ ~(t < x)
    BY <2>2
  <2> QED BY <1>2, <2>1, <2>3 DEF Edits
<1>5. Tombs(l, E, s) = {} => Newest(Edits(l, F, s)) = t
  <2>1. SUFFICES ASSUME Tombs(l, E, s) = {} PROVE Newest(Edits(l, F, s)) = t
    OBVIOUS
  <2>2. t \in Edits(l, F, s) /\ Edits(l, F, s) \subseteq F
    BY <1>2, <2>1 DEF Edits
  <2>3. F \subseteq Nat /\ \A x \in F : x <= t
    OBVIOUS
  <2> QED BY <2>2, <2>3, NewestIsLast
<1>6. ASSUME NEW x, x # s \/ Tombs(l, E, s) # {} PROVE Shown(l, F, x) = Shown(l, E, x)
  BY <1>2, <1>3, <1>4, <1>6 DEF Shown
<1>7. Tombs(l, E, s) = {} => Shown(l, F, s) = [Shown(l, E, s) EXCEPT !.edit = t]
  BY <1>2, <1>5 DEF Shown
<1>8. Editable(View(l, E), s) = {Shown(l, E, x) : x \in {y \in Texts(l, E) : y = s /\ Tombs(l, E, s) = {}}}
  <2>1. \A x : Shown(l, E, x).at = x /\ (Shown(l, E, x).dead <=> Tombs(l, E, x) # {})
    BY DEF Shown
  <2> QED BY <2>1 DEF Editable, View
<1> HIDE DEF s
<1>9. CASE s \in Texts(l, E) /\ Tombs(l, E, s) = {}
  <2>1. new = {Shown(l, F, s)}
    <3>1. Editable(View(l, E), s) = {Shown(l, E, s)}
      BY <1>8, <1>9
    <3> QED BY <1>7, <1>9, <3>1
  <2>2. At(new) = {s}
    <3>1. Shown(l, F, s).at = s
      BY DEF Shown
    <3> HIDE DEF new, F
    <3> QED BY <2>1, <3>1 DEF At
  <2>3. {r \in View(l, E) : r.at # s} = {Shown(l, E, x) : x \in Texts(l, E) \ {s}}
    <3>1. \A x : Shown(l, E, x).at = x
      BY DEF Shown
    <3> QED BY <3>1 DEF View
  <2>4. View(l, F) = {Shown(l, E, x) : x \in Texts(l, E) \ {s}} \cup {Shown(l, F, s)}
    BY <1>1, <1>6, <1>9 DEF View
  <2> HIDE DEF new
  <2>5. Store(View(l, E), new) = {r \in View(l, E) : r.at # s} \cup new
    BY <2>2 DEF Store
  <2> QED BY <2>1, <2>3, <2>4, <2>5 DEF s, new
<1>10. CASE ~(s \in Texts(l, E) /\ Tombs(l, E, s) = {})
  <2>1. new = {}
    BY <1>8, <1>10
  <2>2. View(l, F) = View(l, E)
    BY <1>1, <1>6, <1>10 DEF View
  <2> HIDE DEF new
  <2>3. Store(View(l, E), new) = View(l, E)
    BY <2>1 DEF Store, At
  <2> QED BY <2>2, <2>3 DEF s, new
<1> QED BY <1>9, <1>10

\* The last event is a tombstone.
LEMMA ViewDeleted ==
  ASSUME NEW l, NEW E \in SUBSET Nat, NEW t \in Nat, \A x \in E : x < t, l[t].kind = "delete"
  PROVE  View(l, E \cup {t}) = Store(View(l, E), {[r EXCEPT !.dead = TRUE] : r \in Deletable(View(l, E), l[t].of)})
<1> DEFINE F == E \cup {t}
           s == l[t].of
           new == {[r EXCEPT !.dead = TRUE] : r \in Deletable(View(l, E), s)}
<1>1. Wipes(l, F) = Wipes(l, E) /\ Texts(l, F) = Texts(l, E)
  BY DEF Wipes, Texts
<1>2. Tombs(l, F, s) = Tombs(l, E, s) \cup {t} /\ \A x : x # s => Tombs(l, F, x) = Tombs(l, E, x)
  BY DEF Tombs
<1>3. \A x : Edits(l, F, x) = Edits(l, E, x)
  <2>1. \A x : \A e \in E : (\A y \in Tombs(l, F, x) : e < y) <=> (\A y \in Tombs(l, E, x) : e < y)
    BY <1>2
  <2>2. l[t].kind # "edit"
    OBVIOUS
  <2> QED BY <2>1, <2>2 DEF Edits
<1>4. Shown(l, F, s) = [Shown(l, E, s) EXCEPT !.dead = TRUE]
  <2>1. (Tombs(l, F, s) # {}) = TRUE
    BY <1>2
  <2> HIDE DEF F, s
  <2>2. \A a, e, b, c : [[at |-> a, edit |-> e, dead |-> b] EXCEPT !.dead = c] = [at |-> a, edit |-> e, dead |-> c]
    OBVIOUS
  <2>3. [Shown(l, E, s) EXCEPT !.dead = TRUE] = [at |-> s, edit |-> Newest(Edits(l, E, s)), dead |-> TRUE]
    <3>1. PICK b : Shown(l, E, s) = [at |-> s, edit |-> Newest(Edits(l, E, s)), dead |-> b]
      BY Zenon DEF Shown
    <3>2. PICK c : c = TRUE
      OBVIOUS
    <3>3. [Shown(l, E, s) EXCEPT !.dead = c] = [at |-> s, edit |-> Newest(Edits(l, E, s)), dead |-> c]
      BY <2>2, <3>1
    <3> QED BY <3>2, <3>3, Zenon
  <2>4. Shown(l, F, s) = [at |-> s, edit |-> Newest(Edits(l, E, s)), dead |-> Tombs(l, F, s) # {}]
    BY <1>3 DEF Shown
  <2>5. Shown(l, F, s) = [at |-> s, edit |-> Newest(Edits(l, E, s)), dead |-> TRUE]
    BY <2>1, <2>4, Zenon
  <2> QED BY <2>3, <2>5
<1>5. \A x : x # s => Shown(l, F, x) = Shown(l, E, x)
  BY <1>2, <1>3 DEF Shown
<1>6. \A x : Shown(l, E, x).at = x
  BY DEF Shown
<1>7. Deletable(View(l, E), s) = {Shown(l, E, x) : x \in {y \in Texts(l, E) : y = s}}
  BY <1>6 DEF Deletable, View
<1> HIDE DEF s
<1>8. CASE s \in Texts(l, E)
  <2>1. new = {Shown(l, F, s)}
    <3>1. Deletable(View(l, E), s) = {Shown(l, E, s)}
      BY <1>7, <1>8
    <3> QED BY <1>4, <3>1
  <2>2. At(new) = {s}
    <3>1. Shown(l, F, s).at = s
      BY DEF Shown
    <3> HIDE DEF new, F
    <3> QED BY <2>1, <3>1 DEF At
  <2>3. {r \in View(l, E) : r.at # s} = {Shown(l, E, x) : x \in Texts(l, E) \ {s}}
    BY <1>6 DEF View
  <2>4. View(l, F) = {Shown(l, E, x) : x \in Texts(l, E) \ {s}} \cup {Shown(l, F, s)}
    BY <1>1, <1>5, <1>8 DEF View
  <2> HIDE DEF new
  <2>5. Store(View(l, E), new) = {r \in View(l, E) : r.at # s} \cup new
    BY <2>2 DEF Store
  <2> QED BY <2>1, <2>3, <2>4, <2>5 DEF s, new
<1>9. CASE s \notin Texts(l, E)
  <2>1. new = {}
    BY <1>7, <1>9
  <2>2. View(l, F) = View(l, E)
    BY <1>1, <1>5, <1>9 DEF View
  <2> HIDE DEF new
  <2>3. Store(View(l, E), new) = View(l, E)
    BY <2>1 DEF Store, At
  <2> QED BY <2>2, <2>3 DEF s, new
<1> QED BY <1>8, <1>9

-----------------------------------------------------------------------------
\* Types, and what has been created

LEMMA Stamps ==
  ASSUME ChatTypeOK, KnownInv
  PROVE  /\ Len(log) \in Nat /\ MaxEvents \in Nat /\ 1..Len(log) \subseteq Stamp
         /\ \A x \in 1..Len(log) : log[x] \in Event
BY BoundsAssumption, LenProperties, ElementOfSeq DEF ChatTypeOK, KnownInv, Stamp

LEMMA StoreAll ==
  ASSUME NEW R, NEW new PROVE Store(R, new) \subseteq R \cup new
BY DEF Store

\* What becomes of the log: nothing, or one more event.
Grown == log' = log \/ \E ev \in Event : log' = Append(log, ev) /\ Len(log) < MaxEvents
                                        /\ (ev.kind \in {"edit", "delete"} => ev.of <= Len(log))

LEMMA LogGrows ==
  ASSUME ChatTypeOK, KnownInv, Grown
  PROVE  /\ log' \in Seq(Event) /\ Len(log') \in Nat /\ Len(log) <= Len(log') /\ Len(log') <= MaxEvents
         /\ \A x \in 1..Len(log) : x \in 1..Len(log') /\ log'[x] = log[x]
         /\ Follows(log', 1..Len(log'))
<1>1. log \in Seq(Event) /\ Len(log) \in Nat /\ Len(log) <= MaxEvents /\ Follows(log, 1..Len(log)) /\ MaxEvents \in Nat
  BY Stamps DEF ChatTypeOK, KnownInv
<1>2. CASE log' = log
  BY <1>1, <1>2
<1>3. ASSUME NEW ev \in Event, log' = Append(log, ev), Len(log) < MaxEvents, ev.kind \in {"edit", "delete"} => ev.of <= Len(log)
      PROVE  /\ log' \in Seq(Event) /\ Len(log') \in Nat /\ Len(log) <= Len(log') /\ Len(log') <= MaxEvents
             /\ \A x \in 1..Len(log) : x \in 1..Len(log') /\ log'[x] = log[x]
             /\ Follows(log', 1..Len(log'))
  <2>1. /\ log' \in Seq(Event) /\ Len(log') = Len(log) + 1
        /\ log'[Len(log) + 1] = ev /\ \A x \in 1..Len(log) : log'[x] = log[x]
    BY <1>1, <1>3, AppendProperties
  <2>2. \A x \in 1..Len(log') : x \in 1..Len(log) \/ x = Len(log) + 1
    BY <1>1, <2>1
  <2>3. ev.of \in Nat
    BY DEF Event
  <2>4. Follows(log', 1..Len(log'))
    BY <1>1, <1>3, <2>1, <2>2, <2>3 DEF Follows
  <2> QED BY <1>1, <1>3, <2>1, <2>4
<1> QED BY <1>2, <1>3 DEF Grown

LEMMA FitsLonger ==
  ASSUME ChatTypeOK, KnownInv, Grown, NEW j \in Job, Fits(log, j) PROVE Fits(log', j)
<1>1. Len(log) \in Nat /\ Len(log') \in Nat /\ Len(log) <= Len(log') /\ \A x \in 1..Len(log) : log'[x] = log[x]
  BY Stamps, LogGrows
<1>2. j.at \in Nat /\ \A r \in j.snap : r.at \in Nat
  BY DEF Job, Row, Stamp
<1>3. j.at # 0 => log'[j.at] = log[j.at]
  BY <1>1, <1>2 DEF Fits
<1>4. j.at <= Len(log') /\ \A r \in j.snap : r.at <= Len(log')
  BY <1>1, <1>2 DEF Fits
<1> QED BY <1>3, <1>4 DEF Fits

\* A step changes the rows, jobs, handled events and watermark of one device.
Effect(d, R, J, H, w) ==
  /\ rows' = [rows EXCEPT ![d] = R] /\ jobs' = [jobs EXCEPT ![d] = J]
  /\ handled' = [handled EXCEPT ![d] = H] /\ watermark' = [watermark EXCEPT ![d] = w]

LEMMA BasicKept ==
  ASSUME ChatTypeOK, KnownInv, Grown, NEW d \in Device,
         NEW R \in SUBSET Row, NEW J \in SUBSET Job, NEW H \in Seq(Stamp), NEW w \in Nat, Effect(d, R, J, H, w),
         mail' \subseteq mail \cup (Device \X (1..Len(log'))),
         \A r \in R : r \in rows[d] \/ r.at <= Len(log'),
         \A j \in J : j \in jobs[d] \/ Fits(log', j),
         \A i \in 1..Len(H) : H[i] \in HandledOn(d) \cup (1..Len(log')),
         w <= Len(log'),
         index' \in [Device -> Nat], disturbed' \subseteq Device, unguarded' \in [Device -> SUBSET Stamp],
         retro' \in [Device -> SUBSET (Stamp \X Stamp)]
  PROVE  ChatTypeOK' /\ KnownInv'
<1>1. /\ log' \in Seq(Event) /\ Len(log') \in Nat /\ Len(log) \in Nat /\ Len(log) <= Len(log') /\ Len(log') <= MaxEvents
      /\ 1..Len(log) \subseteq 1..Len(log') /\ Follows(log', 1..Len(log'))
  BY LogGrows, Stamps
<1>2. 1..Len(log') \subseteq Stamp
  BY <1>1, BoundsAssumption DEF Stamp
<1>3. mail' \subseteq Device \X (1..Len(log'))
  BY <1>1 DEF KnownInv
<1>4. /\ rows' \in [Device -> SUBSET Row] /\ jobs' \in [Device -> SUBSET Job] /\ handled' \in [Device -> Seq(Stamp)]
      /\ watermark' \in [Device -> Nat]
  BY DEF Effect, ChatTypeOK
<1>5. ChatTypeOK'
  BY <1>1, <1>2, <1>3, <1>4 DEF ChatTypeOK
<1>6. ASSUME NEW e \in Device
      PROVE  /\ \A r \in rows'[e] : r.at <= Len(log')
             /\ \A j \in jobs'[e] : Fits(log', j)
             /\ \A i \in 1..Len(handled'[e]) : handled'[e][i] \in 1..Len(log')
             /\ watermark'[e] <= Len(log')
  <2>1. \A r \in rows[e] : r.at \in Nat /\ r.at <= Len(log)
    BY DEF ChatTypeOK, Row, Stamp, KnownInv
  <2>2. \A r \in rows[e] : r.at <= Len(log')
    BY <1>1, <2>1
  <2>3. \A j \in jobs[e] : Fits(log', j)
    BY FitsLonger DEF ChatTypeOK, KnownInv
  <2>4. watermark[e] \in Nat /\ watermark[e] <= Len(log)
    BY DEF ChatTypeOK, KnownInv
  <2>5. watermark[e] <= Len(log')
    BY <1>1, <2>4
  <2>6. HandledOn(e) \subseteq 1..Len(log')
    BY <1>1 DEF KnownInv
  <2>7. CASE e = d
    <3>1. rows'[e] = R /\ jobs'[e] = J /\ handled'[e] = H /\ watermark'[e] = w
      BY <2>7 DEF Effect, ChatTypeOK
    <3> QED BY <2>2, <2>3, <2>6, <2>7, <3>1
  <2>8. CASE e # d
    <3>1. rows'[e] = rows[e] /\ jobs'[e] = jobs[e] /\ handled'[e] = handled[e] /\ watermark'[e] = watermark[e]
      BY <2>8 DEF Effect, ChatTypeOK
    <3>2. \A i \in 1..Len(handled[e]) : handled[e][i] \in HandledOn(e)
      BY DEF HandledOn
    <3> QED BY <2>2, <2>3, <2>5, <2>6, <3>1, <3>2
  <2> QED BY <2>7, <2>8
<1>7. \A e \in Device : HandledOn(e)' \subseteq 1..Len(log')
  BY <1>6 DEF HandledOn
<1> QED BY <1>1, <1>3, <1>5, <1>6, <1>7 DEF KnownInv

LEMMA Same ==
  ASSUME ChatTypeOK, NEW d \in Device
  PROVE  /\ rows = [rows EXCEPT ![d] = rows[d]] /\ jobs = [jobs EXCEPT ![d] = jobs[d]]
         /\ handled = [handled EXCEPT ![d] = handled[d]] /\ watermark = [watermark EXCEPT ![d] = watermark[d]]
         /\ rows[d] \in SUBSET Row /\ jobs[d] \in SUBSET Job /\ handled[d] \in Seq(Stamp) /\ watermark[d] \in Nat
         /\ \A i \in 1..Len(handled[d]) : handled[d][i] \in HandledOn(d)
BY DEF ChatTypeOK, HandledOn

\* A device handles one more event.
LEMMA Handles ==
  ASSUME ChatTypeOK, NEW d \in Device, NEW t \in Stamp
  PROVE  /\ Append(handled[d], t) \in Seq(Stamp) /\ Len(Append(handled[d], t)) = Len(handled[d]) + 1
         /\ \A i \in 1..Len(handled[d]) : Append(handled[d], t)[i] = handled[d][i]
         /\ Append(handled[d], t)[Len(handled[d]) + 1] = t
         /\ \A i \in 1..Len(Append(handled[d], t)) : Append(handled[d], t)[i] \in HandledOn(d) \cup {t}
<1>1. handled[d] \in Seq(Stamp) /\ Len(handled[d]) \in Nat
  BY Same, LenProperties
<1>2. /\ Append(handled[d], t) \in Seq(Stamp) /\ Len(Append(handled[d], t)) = Len(handled[d]) + 1
      /\ \A i \in 1..Len(handled[d]) : Append(handled[d], t)[i] = handled[d][i]
      /\ Append(handled[d], t)[Len(handled[d]) + 1] = t
  BY <1>1, AppendProperties
<1>3. \A i \in 1..(Len(handled[d]) + 1) : i \in 1..Len(handled[d]) \/ i = Len(handled[d]) + 1
  BY <1>1
<1> QED BY <1>2, <1>3, Same

\* A step that begins a job.
LEMMA BasicBegins ==
  ASSUME ChatTypeOK, KnownInv, Grown, NEW d \in Device, NEW t \in 1..Len(log'), Began(d, t),
         NEW k \in Job, Fits(log', k), jobs' = [jobs EXCEPT ![d] = @ \cup {k}],
         NEW R \in SUBSET Row, rows' = [rows EXCEPT ![d] = R], \A r \in R : r \in rows[d] \/ r.at <= Len(log'),
         mail' \subseteq mail, UNCHANGED <<index, watermark, retro>>, unguarded' \in [Device -> SUBSET Stamp]
  PROVE  ChatTypeOK' /\ KnownInv'
<1> DEFINE J == jobs[d] \cup {k}
           H == Append(handled[d], t)
           w == watermark[d]
<1>1. t \in Stamp /\ Len(log') \in Nat /\ Len(log) \in Nat /\ Len(log) <= Len(log')
  BY Stamps, LogGrows, BoundsAssumption DEF Stamp
<1>2. Effect(d, R, J, H, w)
  BY Same DEF Effect, Began
<1>3. J \in SUBSET Job /\ \A j \in J : j \in jobs[d] \/ Fits(log', j)
  BY Same
<1>4. H \in Seq(Stamp) /\ \A i \in 1..Len(H) : H[i] \in HandledOn(d) \cup (1..Len(log'))
  BY <1>1, Handles
<1>5. w \in Nat /\ w <= Len(log')
  <2>1. w \in Nat /\ w <= Len(log)
    BY DEF ChatTypeOK, KnownInv
  <2> QED BY <1>1, <2>1
<1>6. disturbed' \subseteq Device /\ index' \in [Device -> Nat] /\ retro' \in [Device -> SUBSET (Stamp \X Stamp)]
  BY DEF Began, Begins, ChatTypeOK
<1> HIDE DEF J, H, w
<1> QED BY <1>2, <1>3, <1>4, <1>5, <1>6, BasicKept

\* A step of a job.
LEMMA BasicGoesOn ==
  ASSUME ChatTypeOK, KnownInv, NEW d \in Device, NEW j \in jobs[d],
         NEW k \in Job, Fits(log, k), NEW J \in {jobs[d] \ {j}, (jobs[d] \ {j}) \cup {k}}, jobs' = [jobs EXCEPT ![d] = J],
         NEW R \in SUBSET Row, rows' = [rows EXCEPT ![d] = R], \A r \in R : r \in rows[d] \/ r.at <= Len(log),
         NEW w \in Nat, watermark' = [watermark EXCEPT ![d] = w], w <= Len(log),
         mail' \subseteq mail \cup (Device \X (1..Len(log))), UNCHANGED <<log, handled, disturbed>>,
         index' \in [Device -> Nat], unguarded' \in [Device -> SUBSET Stamp], retro' \in [Device -> SUBSET (Stamp \X Stamp)]
  PROVE  ChatTypeOK' /\ KnownInv'
<1> DEFINE H == handled[d]
<1>1. Effect(d, R, J, H, w) /\ Grown
  BY Same DEF Effect, Grown
<1>2. J \in SUBSET Job /\ \A i \in J : i \in jobs[d] \/ Fits(log', i)
  BY Same
<1>3. H \in Seq(Stamp) /\ \A i \in 1..Len(H) : H[i] \in HandledOn(d) \cup (1..Len(log'))
  BY Same
<1>4. disturbed' \subseteq Device
  BY DEF ChatTypeOK
<1> HIDE DEF H
<1> QED BY <1>1, <1>2, <1>3, <1>4, BasicKept

\* A job of device d and its event.
LEMMA JobFacts ==
  ASSUME ChatTypeOK, KnownInv, NEW d \in Device, NEW j \in jobs[d]
  PROVE  /\ j \in Job /\ Fits(log, j) /\ j.at \in Nat /\ j.seen \in Nat /\ j.snap \in SUBSET Row
         /\ j.at # 0 => j.at \in 1..Len(log) /\ j.at \in Stamp
         /\ \A p \in {"bump", "put", "index", "ship", "apply", "guard", "wipe", "unindex", "mark"}, S \in SUBSET Row :
              [j EXCEPT !.phase = p] \in Job /\ [j EXCEPT !.phase = p, !.snap = S] \in Job
<1>1. j \in Job /\ Fits(log, j)
  BY DEF ChatTypeOK, KnownInv
<1>2. j.at \in Nat /\ j.seen \in Nat /\ j.snap \in SUBSET Row
  BY <1>1 DEF Job
<1>3. j.at # 0 => j.at \in 1..Len(log) /\ j.at \in Stamp
  <2>1. j.at <= Len(log) /\ Len(log) \in Nat /\ 1..Len(log) \subseteq Stamp
    BY <1>1, Stamps DEF Fits
  <2> QED BY <1>2, <2>1
<1> QED BY <1>1, <1>2, <1>3 DEF Job

\* What Store() and the changes of rows yield.
LEMMA RowTypes ==
  ASSUME ChatTypeOK, KnownInv, NEW d \in Device
  PROVE  /\ \A t \in Stamp : Text(t) \in Row /\ Text(t).at = t
         /\ \A r \in rows[d] : r \in Row /\ r.at \in 1..Len(log)
         /\ \A r \in Row, t \in Nat : [r EXCEPT !.edit = t] \in Row /\ [r EXCEPT !.edit = t].at = r.at
         /\ \A r \in Row : [r EXCEPT !.dead = TRUE] \in Row /\ [r EXCEPT !.dead = TRUE].at = r.at
         /\ \A t : Target(d, t) \subseteq rows[d]
<1>1. \A t \in Stamp : Text(t) \in Row /\ Text(t).at = t
  BY DEF Text, Row
<1>2. \A r \in rows[d] : r \in Row /\ r.at \in 1..Len(log)
  <2>1. \A r \in rows[d] : r \in Row /\ r.at \in Nat /\ 1 <= r.at /\ r.at <= Len(log)
    BY DEF ChatTypeOK, Row, Stamp, KnownInv
  <2>2. Len(log) \in Nat
    BY Stamps
  <2> QED BY <2>1, <2>2
<1>3. \A r \in Row, t \in Nat : [r EXCEPT !.edit = t] \in Row /\ [r EXCEPT !.edit = t].at = r.at
  BY DEF Row
<1>4. \A r \in Row : [r EXCEPT !.dead = TRUE] \in Row /\ [r EXCEPT !.dead = TRUE].at = r.at
  BY DEF Row
<1>5. \A t : Target(d, t) \subseteq rows[d]
  BY DEF Target, Editable, Deletable
<1> QED BY <1>1, <1>2, <1>3, <1>4, <1>5

\* An event that a device creates.
LEMMA Created ==
  ASSUME ChatTypeOK, KnownInv, NEW kind \in Kind, NEW d \in Device, NEW of \in Nat, Create(kind, d, of),
         kind \in {"edit", "delete"} => of <= Len(log)
  PROVE  /\ Grown /\ Len(log') = Len(log) + 1 /\ Now \in 1..Len(log') /\ Now \in Stamp
         /\ log'[Now].kind = kind /\ log'[Now].by = d /\ log'[Now].of = of
         /\ Now = Len(log') /\ Len(log') \in Nat /\ Now \in Nat /\ Now # 0
<1>1. [kind |-> kind, by |-> d, of |-> of] \in Event
  BY DEF Event
<1>2. Grown
  BY <1>1 DEF Create, Grown
<1>3. log \in Seq(Event) /\ Len(log) \in Nat /\ Len(log) < MaxEvents /\ MaxEvents \in Nat
  BY Stamps DEF ChatTypeOK, Create
<1>4. Len(log') = Len(log) + 1 /\ log'[Len(log) + 1] = [kind |-> kind, by |-> d, of |-> of]
  BY <1>1, <1>3, AppendProperties DEF Create
<1> QED BY <1>2, <1>3, <1>4 DEF Now, Stamp

\* A copy that arrives.
LEMMA Arrived ==
  ASSUME ChatTypeOK, KnownInv, NEW d \in Device, NEW t, NEW kind, Arrives(d, t, kind)
  PROVE  /\ t \in 1..Len(log) /\ t \in Stamp /\ t # 0 /\ log[t].kind = kind /\ Began(d, t) /\ log' = log /\ mail' \subseteq mail
         /\ Grown /\ t \in 1..Len(log')
<1>1. <<d, t>> \in Device \X (1..Len(log))
  BY DEF Arrives, KnownInv
<1>2. t \in 1..Len(log) /\ Len(log) \in Nat
  BY <1>1, Stamps
<1> QED BY <1>2, Stamps DEF Arrives, Grown

LEMMA NewJobType ==
  ASSUME NEW t \in Nat, NEW p \in {"bump", "put", "index", "ship", "apply", "guard", "wipe", "unindex", "mark"},
         NEW s \in Nat, NEW S \in SUBSET Row
  PROVE  /\ NewJob(t, p, s, S) \in Job
         /\ NewJob(t, p, s, S).at = t /\ NewJob(t, p, s, S).phase = p /\ NewJob(t, p, s, S).seen = s /\ NewJob(t, p, s, S).snap = S
BY DEF NewJob, Job

LEMMA Broadcasts ==
  ASSUME NEW d \in Device, NEW t \in 1..Len(log), NEW kind, Broadcast(d, t, kind) \/ UNCHANGED mail
  PROVE  mail' \subseteq mail \cup (Device \X (1..Len(log)))
BY DEF Broadcast, Others

\* One job of device d goes on as k, or ends, and these change no more than they
\* may: the rest of the invariant's first part follows.
Continues(d, j, k, R, w) ==
  /\ jobs' \in {[jobs EXCEPT ![d] = @ \ {j}], [jobs EXCEPT ![d] = (@ \ {j}) \cup {k}]}
  /\ rows' = [rows EXCEPT ![d] = R] /\ watermark' = [watermark EXCEPT ![d] = w]
  /\ UNCHANGED <<log, handled, disturbed>>

LEMMA BasicContinues ==
  ASSUME ChatTypeOK, KnownInv, NEW d \in Device, NEW j \in jobs[d], NEW k \in Job, Fits(log, k),
         NEW R \in SUBSET Row, \A r \in R : r \in rows[d] \/ r.at <= Len(log), NEW w \in Nat, w <= Len(log),
         Continues(d, j, k, R, w), mail' \subseteq mail \cup (Device \X (1..Len(log))),
         index' \in [Device -> Nat], unguarded' \in [Device -> SUBSET Stamp], retro' \in [Device -> SUBSET (Stamp \X Stamp)]
  PROVE  ChatTypeOK' /\ KnownInv'
<1>1. PICK J \in {jobs[d] \ {j}, (jobs[d] \ {j}) \cup {k}} : jobs' = [jobs EXCEPT ![d] = J]
  BY DEF Continues
<1>2. rows' = [rows EXCEPT ![d] = R] /\ watermark' = [watermark EXCEPT ![d] = w] /\ UNCHANGED <<log, handled, disturbed>>
  BY DEF Continues
<1> QED BY <1>1, <1>2, BasicGoesOn

\* Every step keeps the types, and what is said of what has been created.
LEMMA BasicStep == ASSUME ChatTypeOK, KnownInv, [ChatNext]_chatVars PROVE ChatTypeOK' /\ KnownInv'
<1> USE DEF store, chatHistory
<1>1. Len(log) \in Nat /\ 1..Len(log) \subseteq Stamp
  BY Stamps
<1>2. ASSUME NEW d \in Device, SendText(d) PROVE ChatTypeOK' /\ KnownInv'
  <2> DEFINE k == NewJob(Now, "bump", watermark[d], {})
  <2>1. Grown /\ Now \in 1..Len(log') /\ Now \in Stamp /\ log'[Now].kind = "text" /\ Len(log') \in Nat
    <3>1. Create("text", d, 0) /\ "text" \in Kind /\ 0 \in Nat
      BY <1>2 DEF SendText, Kind
    <3> QED BY <3>1, Created
  <2>2. k \in Job /\ k.at = Now /\ k.phase = "bump" /\ k.snap = {}
    BY <2>1, NewJobType, Same DEF Stamp
  <2>3. Fits(log', k)
    BY <2>1, <2>2 DEF Fits
  <2>4. jobs' = [jobs EXCEPT ![d] = @ \cup {k}] /\ Began(d, Now) /\ UNCHANGED <<mail, rows, index, watermark, retro, unguarded>>
    BY <1>2 DEF SendText
  <2>5. rows[d] \in SUBSET Row /\ rows' = [rows EXCEPT ![d] = rows[d]] /\ unguarded' \in [Device -> SUBSET Stamp]
    BY <2>4, Same DEF ChatTypeOK
  <2> HIDE DEF k
  <2> QED BY <2>1, <2>2, <2>3, <2>4, <2>5, BasicBegins
<1>3. ASSUME NEW d \in Device, NEW kind \in {"edit", "delete"}, NEW t \in Stamp, ChangeMessage(d, kind, t) PROVE ChatTypeOK' /\ KnownInv'
  <2> DEFINE k == NewJob(Now, "ship", 0, {})
  <2>1. t \in Nat /\ t <= Len(log) /\ kind \in Kind
    BY <1>1, <1>3, RowTypes DEF ChangeMessage, At, Kind
  <2>2. Grown /\ Now \in 1..Len(log') /\ Now \in Stamp /\ log'[Now].kind = kind /\ Len(log') \in Nat
    <3>1. Create(kind, d, t)
      BY <1>3 DEF ChangeMessage
    <3> QED BY <2>1, <3>1, Created
  <2>3. k \in Job /\ k.at = Now /\ k.phase = "ship" /\ k.snap = {}
    <3>1. Now \in Nat /\ 0 \in Nat /\ {} \in SUBSET Row
      BY <2>2 DEF Stamp
    <3> QED BY <3>1, NewJobType
  <2>4. Fits(log', k)
    BY <2>2, <2>3 DEF Fits
  <2>5. jobs' = [jobs EXCEPT ![d] = @ \cup {k}] /\ Began(d, Now) /\ UNCHANGED <<mail, rows, index, watermark, retro, unguarded>>
    BY <1>3 DEF ChangeMessage
  <2>6. rows[d] \in SUBSET Row /\ rows' = [rows EXCEPT ![d] = rows[d]] /\ unguarded' \in [Device -> SUBSET Stamp]
    BY <2>5, Same DEF ChatTypeOK
  <2> HIDE DEF k
  <2> QED BY <2>2, <2>3, <2>4, <2>5, <2>6, BasicBegins
<1>4. ASSUME NEW d \in Device, DeleteForEveryone(d) PROVE ChatTypeOK' /\ KnownInv'
  <2> DEFINE k == NewJob(Now, "wipe", 0, rows[d])
  <2>1. Grown /\ Now \in 1..Len(log') /\ Now \in Stamp /\ log'[Now].kind = "wipeAll" /\ Len(log') \in Nat /\ Len(log) <= Len(log')
    <3>1. Create("wipeAll", d, 0) /\ "wipeAll" \in Kind /\ 0 \in Nat
      BY <1>4 DEF DeleteForEveryone, Kind
    <3> QED BY <1>1, <3>1, Created
  <2>2. k \in Job /\ k.at = Now /\ k.phase = "wipe" /\ k.snap = rows[d]
    <3>1. Now \in Nat /\ 0 \in Nat /\ rows[d] \in SUBSET Row
      BY <2>1, Same DEF Stamp
    <3> QED BY <3>1, NewJobType
  <2>3. \A r \in rows[d] : r.at <= Len(log')
    BY <1>1, <2>1, RowTypes
  <2>4. Fits(log', k)
    BY <2>1, <2>2, <2>3 DEF Fits
  <2>5. jobs' = [jobs EXCEPT ![d] = @ \cup {k}] /\ Began(d, Now) /\ UNCHANGED <<mail, rows, index, watermark, retro, unguarded>>
    BY <1>4 DEF DeleteForEveryone
  <2>6. rows[d] \in SUBSET Row /\ rows' = [rows EXCEPT ![d] = rows[d]] /\ unguarded' \in [Device -> SUBSET Stamp]
    BY <2>5, Same DEF ChatTypeOK
  <2> HIDE DEF k
  <2> QED BY <2>1, <2>2, <2>4, <2>5, <2>6, BasicBegins
<1>5. ASSUME NEW d \in Device, DeleteForMe(d) PROVE ChatTypeOK' /\ KnownInv'
  <2> DEFINE k == NewJob(0, "wipe", 0, rows[d])
             J == jobs[d] \cup {k}
  <2>1. k \in Job /\ k.at = 0 /\ k.phase = "wipe" /\ k.snap = rows[d]
    BY NewJobType, Same
  <2>2. Fits(log, k)
    BY <1>1, <2>1, RowTypes DEF Fits
  <2>3. jobs' = [jobs EXCEPT ![d] = J] /\ Begins(d) /\ UNCHANGED <<log, mail, rows, index, watermark, handled, unguarded, retro>>
    BY <1>5 DEF DeleteForMe
  <2>4. Effect(d, rows[d], J, handled[d], watermark[d]) /\ Grown
    BY <2>3, Same DEF Effect, Grown
  <2>5. J \in SUBSET Job /\ \A j \in J : j \in jobs[d] \/ Fits(log', j)
    BY <2>1, <2>2, <2>3, Same
  <2>6. watermark[d] <= Len(log') /\ disturbed' \subseteq Device
    BY <2>3 DEF KnownInv, Begins, ChatTypeOK
  <2>7. index' \in [Device -> Nat] /\ unguarded' \in [Device -> SUBSET Stamp] /\ retro' \in [Device -> SUBSET (Stamp \X Stamp)]
    BY <2>3 DEF ChatTypeOK
  <2> HIDE DEF k, J
  <2> QED BY <2>3, <2>4, <2>5, <2>6, <2>7, Same, BasicKept
<1>6. ASSUME NEW d \in Device, NEW t, PeerText(d, t) PROVE ChatTypeOK' /\ KnownInv'
  <2> DEFINE k == NewJob(t, "bump", watermark[d], {})
  <2>1. t \in 1..Len(log') /\ t \in Nat /\ t # 0 /\ log'[t].kind = "text" /\ Began(d, t) /\ log' = log /\ mail' \subseteq mail /\ Grown
    BY <1>6, Arrived DEF PeerText, Stamp
  <2>2. k \in Job /\ k.at = t /\ k.phase = "bump" /\ k.snap = {}
    BY <2>1, NewJobType, Same
  <2>3. Fits(log', k)
    BY <1>1, <2>1, <2>2 DEF Fits
  <2>4. jobs' = [jobs EXCEPT ![d] = @ \cup {k}] /\ UNCHANGED <<rows, index, watermark, retro, unguarded>>
    BY <1>6 DEF PeerText
  <2>5. rows[d] \in SUBSET Row /\ rows' = [rows EXCEPT ![d] = rows[d]] /\ unguarded' \in [Device -> SUBSET Stamp]
    BY <2>4, Same DEF ChatTypeOK
  <2> HIDE DEF k
  <2> QED BY <2>1, <2>2, <2>3, <2>4, <2>5, BasicBegins
<1>7. ASSUME NEW d \in Device, NEW t, EchoText(d, t) PROVE ChatTypeOK' /\ KnownInv'
  <2> DEFINE k == NewJob(t, "index", 0, {})
             R == Store(rows[d], {Text(t)})
  <2>1. t \in 1..Len(log') /\ t \in Stamp /\ t # 0 /\ log'[t].kind = "text" /\ Began(d, t) /\ log' = log /\ mail' \subseteq mail /\ Grown
    BY <1>7, Arrived DEF EchoText
  <2>2. k \in Job /\ k.at = t /\ k.phase = "index" /\ k.snap = {}
    BY <2>1, NewJobType DEF Stamp
  <2>3. Fits(log', k)
    BY <1>1, <2>1, <2>2 DEF Fits
  <2>4. jobs' = [jobs EXCEPT ![d] = @ \cup {k}] /\ rows' = [rows EXCEPT ![d] = R] /\ UNCHANGED <<index, watermark, retro>>
        /\ unguarded' = [unguarded EXCEPT ![d] = @ \cup {t}]
    BY <1>7 DEF EchoText
  <2>5. R \in SUBSET Row /\ \A r \in R : r \in rows[d] \/ r.at <= Len(log')
    BY <1>1, <2>1, RowTypes, StoreAll
  <2>6. unguarded' \in [Device -> SUBSET Stamp]
    BY <2>1, <2>4 DEF ChatTypeOK
  <2> HIDE DEF k, R
  <2> QED BY <2>1, <2>2, <2>3, <2>4, <2>5, <2>6, BasicBegins
<1>8. ASSUME NEW d \in Device, NEW t, NEW kind \in {"edit", "delete"}, Changed(d, t, kind) PROVE ChatTypeOK' /\ KnownInv'
  <2> DEFINE k == NewJob(t, "apply", 0, Target(d, t))
  <2>1. t \in 1..Len(log') /\ t \in Nat /\ t # 0 /\ log'[t].kind = kind /\ Began(d, t) /\ log' = log /\ mail' \subseteq mail /\ Grown
    BY <1>8, Arrived DEF Changed, Stamp
  <2>2. Target(d, t) \in SUBSET Row /\ \A r \in Target(d, t) : r.at <= Len(log)
    BY <1>1, RowTypes
  <2>3. k \in Job /\ k.at = t /\ k.phase = "apply" /\ k.snap = Target(d, t)
    BY <2>1, <2>2, NewJobType
  <2>4. Fits(log', k)
    BY <1>1, <2>1, <2>2, <2>3 DEF Fits
  <2>5. jobs' = [jobs EXCEPT ![d] = @ \cup {k}] /\ UNCHANGED <<rows, index, watermark, retro, unguarded>>
    BY <1>8 DEF Changed
  <2>6. rows[d] \in SUBSET Row /\ rows' = [rows EXCEPT ![d] = rows[d]] /\ unguarded' \in [Device -> SUBSET Stamp]
    BY <2>5, Same DEF ChatTypeOK
  <2> HIDE DEF k
  <2> QED BY <2>1, <2>3, <2>4, <2>5, <2>6, BasicBegins
<1>9. ASSUME NEW d \in Device, NEW t, PeerWipe(d, t) PROVE ChatTypeOK' /\ KnownInv'
  <2> DEFINE k == NewJob(t, "guard", watermark[d], {})
  <2>1. t \in 1..Len(log') /\ t \in Nat /\ t # 0 /\ log'[t].kind = "wipeAll" /\ Began(d, t) /\ log' = log /\ mail' \subseteq mail /\ Grown
    BY <1>9, Arrived DEF PeerWipe, Stamp
  <2>2. k \in Job /\ k.at = t /\ k.phase = "guard" /\ k.snap = {}
    BY <2>1, NewJobType, Same
  <2>3. Fits(log', k)
    BY <1>1, <2>1, <2>2 DEF Fits
  <2>4. jobs' = [jobs EXCEPT ![d] = @ \cup {k}] /\ UNCHANGED <<rows, index, watermark, retro, unguarded>>
    BY <1>9 DEF PeerWipe
  <2>5. rows[d] \in SUBSET Row /\ rows' = [rows EXCEPT ![d] = rows[d]] /\ unguarded' \in [Device -> SUBSET Stamp]
    BY <2>4, Same DEF ChatTypeOK
  <2> HIDE DEF k
  <2> QED BY <2>1, <2>2, <2>3, <2>4, <2>5, BasicBegins
<1>10. ASSUME NEW d \in Device, NEW t, EchoWipe(d, t) PROVE ChatTypeOK' /\ KnownInv'
  <2> DEFINE k == NewJob(t, "wipe", 0, rows[d])
  <2>1. t \in 1..Len(log') /\ t \in Nat /\ t # 0 /\ log'[t].kind \in {"wipeAll", "wipeSelf"} /\ Began(d, t) /\ log' = log /\ mail' \subseteq mail /\ Grown
    BY <1>10, Arrived DEF EchoWipe, Stamp
  <2>2. k \in Job /\ k.at = t /\ k.phase = "wipe" /\ k.snap = rows[d]
    <3>1. t \in Nat /\ 0 \in Nat /\ rows[d] \in SUBSET Row
      BY <2>1, Same
    <3> QED BY <3>1, NewJobType
  <2>3. Fits(log', k)
    BY <1>1, <2>1, <2>2, RowTypes DEF Fits
  <2>4. jobs' = [jobs EXCEPT ![d] = @ \cup {k}] /\ UNCHANGED <<rows, index, watermark, retro, unguarded>>
    BY <1>10 DEF EchoWipe
  <2>5. rows[d] \in SUBSET Row /\ rows' = [rows EXCEPT ![d] = rows[d]] /\ unguarded' \in [Device -> SUBSET Stamp]
    BY <2>4, Same DEF ChatTypeOK
  <2> HIDE DEF k
  <2> QED BY <2>1, <2>2, <2>3, <2>4, <2>5, BasicBegins
<1>11. ASSUME NEW d \in Device, NEW j \in jobs[d], Step(d, j) PROVE ChatTypeOK' /\ KnownInv'
  <2>1. /\ j \in Job /\ Fits(log, j) /\ j.at \in Nat /\ j.seen \in Nat /\ j.snap \in SUBSET Row
        /\ j.at # 0 => j.at \in 1..Len(log) /\ j.at \in Stamp
    BY <1>11, JobFacts
  <2>2. rows[d] \in SUBSET Row /\ watermark[d] \in Nat /\ watermark[d] <= Len(log) /\ \A r \in rows[d] : r.at <= Len(log)
    BY DEF ChatTypeOK, KnownInv
  <2>3. /\ index \in [Device -> Nat] /\ unguarded \in [Device -> SUBSET Stamp] /\ retro \in [Device -> SUBSET (Stamp \X Stamp)]
        /\ rows = [rows EXCEPT ![d] = rows[d]] /\ watermark = [watermark EXCEPT ![d] = watermark[d]]
        /\ mail \subseteq mail \cup (Device \X (1..Len(log)))
    BY Same DEF ChatTypeOK
  <2>4. CASE Bump(d, j)
    <3> DEFINE k == [j EXCEPT !.phase = "put"]
    <3>1. k \in Job /\ k.at = j.at /\ k.phase = "put" /\ k.snap = j.snap
      BY <2>1 DEF Job
    <3>2. j.at # 0 /\ log[j.at].kind = "text" /\ j.at <= Len(log)
      BY <2>1, <2>4 DEF Bump, Fits
    <3>3. Fits(log, k)
      BY <2>1, <3>1, <3>2 DEF Fits
    <3>4. Continues(d, j, k, rows[d], j.at) /\ UNCHANGED <<mail, index, unguarded, retro>>
      BY <2>3, <2>4 DEF Bump, Advance, Continues
    <3> HIDE DEF k
    <3> QED BY <1>11, <2>1, <2>2, <2>3, <3>1, <3>2, <3>3, <3>4, BasicContinues
  <2>5. CASE Put(d, j)
    <3> DEFINE k == [j EXCEPT !.phase = "index"]
               R == Store(rows[d], {Text(j.at)})
    <3>1. k \in Job /\ k.at = j.at /\ k.phase = "index" /\ k.snap = j.snap
      BY <2>1 DEF Job
    <3>2. j.at # 0 /\ log[j.at].kind = "text" /\ j.at <= Len(log)
      BY <2>1, <2>5 DEF Put, Fits
    <3>3. Fits(log, k)
      BY <2>1, <3>1, <3>2 DEF Fits
    <3>4. Continues(d, j, k, R, watermark[d]) /\ UNCHANGED <<mail, index, retro>>
      BY <2>3, <2>5 DEF Put, Advance, Continues
    <3>5. unguarded' \in [Device -> SUBSET Stamp]
      BY <2>1, <2>3, <2>5, <3>2 DEF Put
    <3>6. R \in SUBSET Row /\ \A r \in R : r \in rows[d] \/ r.at <= Len(log)
      BY <2>1, <2>2, <3>2, RowTypes, StoreAll
    <3> HIDE DEF k, R
    <3> QED BY <1>11, <2>1, <2>2, <2>3, <3>1, <3>3, <3>4, <3>5, <3>6, BasicContinues
  <2>6. CASE Index(d, j)
    <3>1. j.at \in 1..Len(log)
      BY <2>1, <2>6 DEF Index, Fits
    <3>2. mail' \subseteq mail \cup (Device \X (1..Len(log)))
      BY <2>6, <3>1, Broadcasts DEF Index
    <3>3. Continues(d, j, j, rows[d], watermark[d]) /\ UNCHANGED <<unguarded, retro>>
      BY <2>3, <2>6 DEF Index, Finish, Continues
    <3>4. index' \in [Device -> Nat]
      BY <2>1, <2>3, <2>6 DEF Index, LastMessage
    <3> QED BY <1>11, <2>1, <2>2, <2>3, <3>2, <3>3, <3>4, BasicContinues
  <2>7. CASE Ship(d, j)
    <3> DEFINE S == Target(d, j.at)
               k == [j EXCEPT !.phase = "apply", !.snap = S]
    <3>1. S \in SUBSET Row /\ \A r \in S : r.at <= Len(log)
      BY <2>2, RowTypes
    <3>2. k \in Job /\ k.at = j.at /\ k.phase = "apply" /\ k.snap = S
      BY <2>1, <3>1 DEF Job
    <3>3. Fits(log, k)
      BY <2>1, <2>7, <3>1, <3>2 DEF Fits, Ship
    <3>4. Continues(d, j, k, rows[d], watermark[d]) /\ UNCHANGED <<mail, index, unguarded, retro>>
      BY <2>3, <2>7 DEF Ship, Advance, Continues
    <3> HIDE DEF k, S
    <3> QED BY <1>11, <2>1, <2>2, <2>3, <3>2, <3>3, <3>4, BasicContinues
  <2>8. CASE Apply(d, j)
    <3> DEFINE new == {Change(r, j.at) : r \in j.snap}
               R == Store(rows[d], new)
    <3>1. j.at \in 1..Len(log)
      BY <2>1, <2>8 DEF Apply, Fits
    <3>2. mail' \subseteq mail \cup (Device \X (1..Len(log)))
      BY <2>8, <3>1, Broadcasts DEF Apply
    <3>3. Continues(d, j, j, R, watermark[d]) /\ UNCHANGED <<index, unguarded, retro>>
      BY <2>3, <2>8 DEF Apply, Finish, Continues
    <3>4. \A r \in j.snap : r \in Row /\ r.at <= Len(log) /\ Change(r, j.at) \in Row /\ Change(r, j.at).at = r.at
      BY <2>1, RowTypes DEF Change, Fits
    <3>5. new \in SUBSET Row /\ \A r \in new : r.at <= Len(log)
      BY <3>4
    <3> HIDE DEF new
    <3>6. R \in SUBSET Row /\ \A r \in R : r \in rows[d] \/ r.at <= Len(log)
      BY <2>2, <3>5, StoreAll
    <3> HIDE DEF R
    <3> QED BY <1>11, <2>1, <2>2, <2>3, <3>2, <3>3, <3>6, BasicContinues
  <2>9. CASE GuardDrops(d, j)
    <3>1. Continues(d, j, j, rows[d], watermark[d]) /\ UNCHANGED <<mail, index, unguarded, retro>>
      BY <2>3, <2>9 DEF GuardDrops, Finish, Continues
    <3> QED BY <1>11, <2>1, <2>2, <2>3, <3>1, BasicContinues
  <2>10. CASE GuardAccepts(d, j)
    <3> DEFINE k == [j EXCEPT !.phase = "wipe", !.snap = rows[d]]
    <3>1. k \in Job /\ k.at = j.at /\ k.phase = "wipe" /\ k.snap = rows[d]
      BY <2>1, <2>2 DEF Job
    <3>2. Fits(log, k)
      BY <2>1, <2>2, <2>10, <3>1 DEF Fits, GuardAccepts
    <3>3. Continues(d, j, k, rows[d], watermark[d]) /\ UNCHANGED <<mail, index, unguarded, retro>>
      BY <2>3, <2>10 DEF GuardAccepts, Advance, Continues
    <3> HIDE DEF k
    <3> QED BY <1>11, <2>1, <2>2, <2>3, <3>1, <3>2, <3>3, BasicContinues
  <2>11. CASE Wipe(d, j)
    <3> DEFINE k == [j EXCEPT !.phase = "unindex", !.snap = {}]
               R == {r \in rows[d] : r.at \notin At(j.snap)}
               P == {j.at} \X {t \in At(j.snap) : t > j.at}
    <3>1. k \in Job /\ k.at = j.at /\ k.phase = "unindex" /\ k.snap = {}
      BY <2>1 DEF Job
    <3>2. Fits(log, k)
      BY <2>1, <2>11, <3>1 DEF Fits, Wipe
    <3>3. Continues(d, j, k, R, watermark[d]) /\ UNCHANGED <<mail, index, unguarded>>
      BY <2>3, <2>11 DEF Wipe, Advance, Continues
    <3>4. j.at # 0 => P \subseteq Stamp \X Stamp
      <4>1. At(j.snap) \subseteq Stamp
        BY <2>1 DEF At, Row
      <4> QED BY <2>1, <4>1
    <3>5. retro' = retro \/ (j.at # 0 /\ retro' = [retro EXCEPT ![d] = @ \cup P])
      BY <2>11 DEF Wipe
    <3> HIDE DEF P, k
    <3>6. retro' \in [Device -> SUBSET (Stamp \X Stamp)]
      BY <2>3, <3>4, <3>5
    <3>7. R \in SUBSET Row /\ \A r \in R : r \in rows[d]
      BY <2>2
    <3> HIDE DEF R
    <3> QED BY <1>11, <2>1, <2>2, <2>3, <3>1, <3>2, <3>3, <3>6, <3>7, BasicContinues
  <2>12. CASE Unindex(d, j)
    <3> DEFINE k == [j EXCEPT !.phase = "mark"]
    <3>1. k \in Job /\ k.at = j.at /\ k.phase = "mark" /\ k.snap = j.snap
      BY <2>1 DEF Job
    <3>2. Fits(log, k)
      BY <2>1, <2>12, <3>1 DEF Fits, Unindex
    <3>3. Continues(d, j, k, rows[d], watermark[d]) /\ UNCHANGED <<mail, unguarded, retro>> /\ index' \in [Device -> Nat]
      BY <2>3, <2>12 DEF Unindex, Advance, Continues
    <3> HIDE DEF k
    <3> QED BY <1>11, <2>1, <2>2, <2>3, <3>1, <3>2, <3>3, BasicContinues
  <2>13. CASE Mark(d, j)
    <3>1. j.at \in 1..Len(log) /\ j.at <= Len(log)
      BY <2>1, <2>13 DEF Mark, Fits
    <3>2. mail' \subseteq mail \cup (Device \X (1..Len(log)))
      BY <2>13, <3>1, Broadcasts DEF Mark
    <3>3. Continues(d, j, j, rows[d], j.at) /\ UNCHANGED <<index, unguarded, retro>>
      BY <2>3, <2>13 DEF Mark, Finish, Continues
    <3> QED BY <1>11, <2>1, <2>2, <2>3, <3>1, <3>2, <3>3, BasicContinues
  <2>14. CASE MarkSelf(d, j)
    <3> DEFINE H == Append(handled[d], Now)
               J == jobs[d] \ {j}
    <3>1. Create("wipeSelf", d, 0) /\ "wipeSelf" \in Kind /\ 0 \in Nat
      BY <2>14 DEF MarkSelf, Kind
    <3>2. Grown /\ Now \in 1..Len(log') /\ Now \in Stamp /\ Now = Len(log') /\ Len(log') \in Nat /\ Now \in Nat
      BY <3>1, Created
    <3>3. H \in Seq(Stamp) /\ \A i \in 1..Len(H) : H[i] \in HandledOn(d) \cup (1..Len(log'))
      BY <3>2, Handles
    <3>4. Effect(d, rows[d], J, H, Now)
      BY <2>3, <2>14 DEF MarkSelf, Finish, Effect
    <3>5. mail' \subseteq mail \cup (Device \X (1..Len(log')))
      BY <2>14, <3>2 DEF MarkSelf, Broadcast, Others
    <3>6. UNCHANGED <<index, disturbed, unguarded, retro>> /\ disturbed \subseteq Device
      BY <2>14 DEF MarkSelf, ChatTypeOK
    <3>7. J \in SUBSET Job /\ \A i \in J : i \in jobs[d]
      BY Same
    <3>8. Now <= Len(log')
      BY <3>2
    <3> HIDE DEF H, J
    <3> QED BY <2>2, <2>3, <3>2, <3>3, <3>4, <3>5, <3>6, <3>7, <3>8, BasicKept
  <2> QED BY <1>11, <2>4, <2>5, <2>6, <2>7, <2>8, <2>9, <2>10, <2>11, <2>12, <2>13, <2>14 DEF Step
<1>12. ASSUME UNCHANGED chatVars PROVE ChatTypeOK' /\ KnownInv'
  BY <1>12 DEF chatVars, ChatTypeOK, KnownInv, HandledOn
<1>13. ASSUME NEW d \in Device, Call(d) PROVE ChatTypeOK' /\ KnownInv'
  BY <1>2, <1>3, <1>4, <1>5, <1>13 DEF Call
<1>14. ASSUME NEW d \in Device, NEW t \in Stamp, Inbound(d, t) PROVE ChatTypeOK' /\ KnownInv'
  BY <1>6, <1>7, <1>8, <1>9, <1>10, <1>14 DEF Inbound
<1> QED BY <1>11, <1>12, <1>13, <1>14 DEF ChatNext

-----------------------------------------------------------------------------
\* Where a step happens, and elsewhere

\* A step leaves the other devices as they are.
Away(d) ==
  \A e \in Device \ {d} :
    /\ rows'[e] = rows[e] /\ jobs'[e] = jobs[e] /\ watermark'[e] = watermark[e] /\ handled'[e] = handled[e]
    /\ unguarded'[e] = unguarded[e] /\ retro'[e] = retro[e] /\ (e \in disturbed' => e \in disturbed) /\ (e \in disturbed => e \in disturbed')

LEMMA Elsewhere ==
  ASSUME ChatTypeOK, KnownInv, NEW d \in Device, Call(d) \/ (\E t \in Stamp : Inbound(d, t)) \/ (\E j \in jobs[d] : Step(d, j))
  PROVE  Away(d) /\ disturbed \subseteq disturbed' /\ Grown
<1> USE DEF store, chatHistory
<1>0. /\ \A R : rows' = [rows EXCEPT ![d] = R] => \A e \in Device \ {d} : rows'[e] = rows[e]
      /\ \A R : jobs' = [jobs EXCEPT ![d] = R] => \A e \in Device \ {d} : jobs'[e] = jobs[e]
      /\ \A R : watermark' = [watermark EXCEPT ![d] = R] => \A e \in Device \ {d} : watermark'[e] = watermark[e]
      /\ \A R : handled' = [handled EXCEPT ![d] = R] => \A e \in Device \ {d} : handled'[e] = handled[e]
      /\ \A R : unguarded' = [unguarded EXCEPT ![d] = R] => \A e \in Device \ {d} : unguarded'[e] = unguarded[e]
      /\ \A R : retro' = [retro EXCEPT ![d] = R] => \A e \in Device \ {d} : retro'[e] = retro[e]
  BY DEF ChatTypeOK
<1>1. ASSUME Begins(d) PROVE disturbed \subseteq disturbed' /\ \A e \in Device \ {d} : e \in disturbed' => e \in disturbed
  BY <1>1 DEF Begins
<1>2. ASSUME NEW t, Began(d, t) PROVE Begins(d) /\ \E R : handled' = [handled EXCEPT ![d] = R]
  BY <1>2 DEF Began
<1>3. CASE SendText(d)
  <2>1. (\E R : jobs' = [jobs EXCEPT ![d] = R]) /\ Began(d, Now) /\ UNCHANGED <<rows, watermark, unguarded, retro>>
    BY <1>3 DEF SendText
  <2>2. Create("text", d, 0) /\ "text" \in Kind /\ 0 \in Nat
    BY <1>3 DEF SendText, Kind
  <2>3. Grown
    BY <2>2, Created
  <2> QED BY <1>0, <1>1, <1>2, <2>1, <2>3 DEF Away
<1>4. ASSUME NEW kind \in {"edit", "delete"}, NEW t \in Stamp, ChangeMessage(d, kind, t) PROVE Away(d) /\ disturbed \subseteq disturbed' /\ Grown
  <2>1. (\E R : jobs' = [jobs EXCEPT ![d] = R]) /\ Began(d, Now) /\ UNCHANGED <<rows, watermark, unguarded, retro>>
    BY <1>4 DEF ChangeMessage
  <2>2. Create(kind, d, t) /\ kind \in Kind /\ t \in At(rows[d])
    BY <1>4 DEF ChangeMessage, Kind
  <2>3. t \in Nat /\ t <= Len(log)
    BY <2>2, Stamps, RowTypes DEF At
  <2>4. Grown
    BY <2>2, <2>3, Created
  <2> QED BY <1>0, <1>1, <1>2, <2>1, <2>4 DEF Away
<1>5. CASE DeleteForEveryone(d)
  <2>1. (\E R : jobs' = [jobs EXCEPT ![d] = R]) /\ Began(d, Now) /\ UNCHANGED <<rows, watermark, unguarded, retro>>
    BY <1>5 DEF DeleteForEveryone
  <2>2. Create("wipeAll", d, 0) /\ "wipeAll" \in Kind /\ 0 \in Nat
    BY <1>5 DEF DeleteForEveryone, Kind
  <2>3. Grown
    BY <2>2, Created
  <2> QED BY <1>0, <1>1, <1>2, <2>1, <2>3 DEF Away
<1>6. CASE DeleteForMe(d)
  <2>1. (\E R : jobs' = [jobs EXCEPT ![d] = R]) /\ Begins(d) /\ UNCHANGED <<log, handled, rows, watermark, unguarded, retro>>
    BY <1>6 DEF DeleteForMe
  <2> QED BY <1>0, <1>1, <2>1 DEF Away, Grown
<1>7. ASSUME NEW t \in Stamp, Inbound(d, t) PROVE Away(d) /\ disturbed \subseteq disturbed' /\ Grown
  <2>1. /\ (\E R : jobs' = [jobs EXCEPT ![d] = R]) /\ Began(d, t) /\ UNCHANGED <<log, watermark, retro>>
    BY <1>7 DEF Inbound, PeerText, EchoText, Changed, PeerWipe, EchoWipe, Arrives
  <2>2. UNCHANGED <<rows, unguarded>> \/ ((\E R : rows' = [rows EXCEPT ![d] = R]) /\ \E R : unguarded' = [unguarded EXCEPT ![d] = R])
    BY <1>7 DEF Inbound, PeerText, EchoText, Changed, PeerWipe, EchoWipe
  <2> QED BY <1>0, <1>1, <1>2, <2>1, <2>2 DEF Away, Grown
<1>8. ASSUME NEW j \in jobs[d], Step(d, j) PROVE Away(d) /\ disturbed \subseteq disturbed' /\ Grown
  <2>1. (\E R : jobs' = [jobs EXCEPT ![d] = R]) /\ disturbed' = disturbed
    BY <1>8 DEF Step, Bump, Put, Index, Ship, Apply, GuardDrops, GuardAccepts, Wipe, Unindex, Mark, MarkSelf, Advance, Finish
  <2>2. rows' = rows \/ \E R : rows' = [rows EXCEPT ![d] = R]
    BY <1>8 DEF Step, Bump, Put, Index, Ship, Apply, GuardDrops, GuardAccepts, Wipe, Unindex, Mark, MarkSelf
  <2>3. watermark' = watermark \/ \E R : watermark' = [watermark EXCEPT ![d] = R]
    BY <1>8 DEF Step, Bump, Put, Index, Ship, Apply, GuardDrops, GuardAccepts, Wipe, Unindex, Mark, MarkSelf
  <2>4. handled' = handled \/ \E R : handled' = [handled EXCEPT ![d] = R]
    BY <1>8 DEF Step, Bump, Put, Index, Ship, Apply, GuardDrops, GuardAccepts, Wipe, Unindex, Mark, MarkSelf
  <2>5. unguarded' = unguarded \/ \E R : unguarded' = [unguarded EXCEPT ![d] = R]
    BY <1>8 DEF Step, Bump, Put, Index, Ship, Apply, GuardDrops, GuardAccepts, Wipe, Unindex, Mark, MarkSelf
  <2>6. retro' = retro \/ \E R : retro' = [retro EXCEPT ![d] = R]
    BY <1>8 DEF Step, Bump, Put, Index, Ship, Apply, GuardDrops, GuardAccepts, Wipe, Unindex, Mark, MarkSelf
  <2>7. log' = log \/ (Create("wipeSelf", d, 0) /\ "wipeSelf" \in Kind /\ 0 \in Nat)
    BY <1>8 DEF Step, Bump, Put, Index, Ship, Apply, GuardDrops, GuardAccepts, Wipe, Unindex, Mark, MarkSelf, Kind
  <2>8. Grown
    BY <2>7, Created DEF Grown
  <2> QED BY <1>0, <2>1, <2>2, <2>3, <2>4, <2>5, <2>6, <2>8 DEF Away
<1> QED BY <1>3, <1>4, <1>5, <1>6, <1>7, <1>8 DEF Call

\* What the invariant says of one device.
Here(d) == SafeAt(d) /\ (InOrder(d) => OrderAt(d))

\* A device where nothing happens does not notice that the log grows.
LEMMA HereKept ==
  ASSUME ChatTypeOK, KnownInv, Grown, NEW e \in Device, Here(e),
         rows'[e] = rows[e], jobs'[e] = jobs[e], watermark'[e] = watermark[e], handled'[e] = handled[e],
         unguarded'[e] = unguarded[e], retro'[e] = retro[e]
  PROVE  Here(e)'
<1>1. \A x \in 1..Len(log) : log'[x] = log[x]
  BY LogGrows
<1>2. HandledOn(e)' = HandledOn(e) /\ InOrder(e)' = InOrder(e) /\ HandledOn(e) \subseteq 1..Len(log)
  BY DEF HandledOn, InOrder, KnownInv
<1>3. \A E \in SUBSET (1..Len(log)) : View(log', E) = View(log, E)
  BY <1>1, ViewOfLonger
<1>4. ASSUME NEW j \in jobs[e] PROVE j.at # 0 => log'[j.at] = log[j.at]
  BY <1>1, JobFacts
<1>5. ASSUME NEW j \in jobs[e] PROVE j.at = 0 => j.phase \in {"wipe", "unindex", "mark"}
  BY JobFacts DEF Fits
<1>6. SafeAt(e)'
  <2>1. ASSUME NEW j \in jobs[e] PROVE ReadInv(e, j)'
    <3>1. ReadInv(e, j)
      BY <2>1 DEF Here, SafeAt
    <3> QED BY <1>4, <1>5, <3>1 DEF ReadInv, Own
  <2>2. Covered(e)'
    BY DEF Here, SafeAt, Covered
  <2> QED BY <2>1, <2>2 DEF Here, SafeAt
<1>7. ASSUME InOrder(e) PROVE OrderAt(e)'
  <2>1. OrderAt(e)
    BY <1>7 DEF Here
  <2>2. View(log', HandledOn(e)) = View(log, HandledOn(e))
    BY <1>2, <1>3
  <2>3. ASSUME NEW j \in jobs[e] PROVE ShowInv(e, j)'
    <3>1. ShowInv(e, j)
      BY <2>1 DEF OrderAt
    <3>2. Before(e, j)' = Before(e, j) /\ View(log', Before(e, j)) = View(log, Before(e, j))
      BY <1>2, <1>3 DEF Before
    <3>3. Latest(e, j.at)' = Latest(e, j.at)
      BY <1>2 DEF Latest
    <3>4. j.phase = "apply" => Target(e, j.at)' = Target(e, j.at)
      BY <1>4, <1>5 DEF Target
    <3> QED BY <1>2, <2>2, <3>1, <3>2, <3>3, <3>4 DEF ShowInv
  <2> QED BY <1>2, <2>1, <2>2, <2>3 DEF OrderAt
<1> QED BY <1>2, <1>6, <1>7 DEF Here

\* A device that is not disturbed by a new job had none.
LEMMA Alone ==
  ASSUME ChatTypeOK, NEW d \in Device, Begins(d), d \notin disturbed', NEW k, jobs' = [jobs EXCEPT ![d] = @ \cup {k}]
  PROVE  jobs[d] = {} /\ jobs'[d] = {k} /\ d \notin disturbed
<1>1. jobs[d] = {} /\ d \notin disturbed
  BY DEF Begins
<1> QED BY <1>1 DEF ChatTypeOK

\* What a device knows when it begins on event t.
LEMMA Beginning ==
  ASSUME ChatTypeOK, KnownInv, Grown, NEW d \in Device, Here(d), NEW t \in Stamp, t \in 1..Len(log'), Began(d, t), jobs[d] = {}
  PROVE  /\ HandledOn(d)' = HandledOn(d) \cup {t} /\ HandledOn(d) \in SUBSET Nat
         /\ InOrder(d)' => /\ InOrder(d) /\ \A x \in HandledOn(d) : x < t
                           /\ rows[d] = View(log', HandledOn(d)) /\ HandledOn(d)' \ {t} = HandledOn(d)
                           /\ Latest(d, t)' /\ watermark[d] \in {0} \cup HandledOn(d) /\ Follows(log', HandledOn(d))
<1> DEFINE n == Len(handled[d])
<1>1. n \in Nat /\ handled[d] \in Seq(Stamp)
  BY Same, LenProperties
<1>2. handled'[d] = Append(handled[d], t)
  BY DEF Began, ChatTypeOK
<1>3. /\ Len(handled'[d]) = n + 1 /\ handled'[d][n + 1] = t
      /\ \A i \in 1..n : handled'[d][i] = handled[d][i]
  BY <1>2, Handles
<1>4. \A i \in 1..(n + 1) : i \in 1..n \/ i = n + 1
  BY <1>1
<1>5. n + 1 \in 1..(n + 1) /\ \A i \in 1..n : i \in 1..(n + 1) /\ i < n + 1
  BY <1>1
<1>6. HandledOn(d)' = HandledOn(d) \cup {t}
  BY <1>3, <1>4, <1>5 DEF HandledOn
<1>7. HandledOn(d) \subseteq 1..Len(log) /\ 1..Len(log) \subseteq Nat
  BY DEF KnownInv
<1>8. ASSUME InOrder(d)'
      PROVE  /\ InOrder(d) /\ \A x \in HandledOn(d) : x < t
             /\ rows[d] = View(log', HandledOn(d)) /\ HandledOn(d)' \ {t} = HandledOn(d)
             /\ Latest(d, t)' /\ watermark[d] \in {0} \cup HandledOn(d) /\ Follows(log', HandledOn(d))
  <2>1. \A i, k \in 1..(n + 1) : i < k => handled'[d][i] < handled'[d][k]
    BY <1>3, <1>8 DEF InOrder
  <2>2. InOrder(d)
    <3>1. ASSUME NEW i \in 1..n, NEW k \in 1..n, i < k PROVE handled[d][i] < handled[d][k]
      BY <1>3, <1>5, <2>1, <3>1
    <3> QED BY <3>1 DEF InOrder
  <2>3. \A i \in 1..n : handled[d][i] < t
    BY <1>3, <1>5, <2>1
  <2>4. \A x \in HandledOn(d) : x < t
    BY <2>3 DEF HandledOn
  <2>5. rows[d] = View(log, HandledOn(d)) /\ watermark[d] \in {0} \cup HandledOn(d)
    BY <2>2 DEF Here, OrderAt
  <2>6. \A x \in 1..Len(log) : log'[x] = log[x]
    BY LogGrows
  <2>7. View(log', HandledOn(d)) = View(log, HandledOn(d))
    BY <1>7, <2>6, ViewOfLonger
  <2>8. Follows(log', HandledOn(d))
    <3>1. Follows(log', 1..Len(log')) /\ \A x \in 1..Len(log) : x \in 1..Len(log')
      BY LogGrows
    <3> QED BY <1>7, <3>1 DEF Follows
  <2>9. \A x \in HandledOn(d) : x \in Nat /\ x <= t /\ x # t
    BY <1>7, <2>4 DEF Stamp
  <2>10. Latest(d, t)'
    BY <1>6, <2>9 DEF Latest, Stamp
  <2>11. HandledOn(d)' \ {t} = HandledOn(d)
    BY <1>6, <2>9
  <2> QED BY <2>2, <2>4, <2>5, <2>7, <2>8, <2>10, <2>11
<1> QED BY <1>6, <1>7, <1>8

\* A call or an arrival that changes no row: what is left to say of the new job.
LEMMA HereBegins ==
  ASSUME ChatTypeOK, KnownInv, Grown, NEW d \in Device, Here(d), NEW t \in Stamp, t \in 1..Len(log'), Began(d, t), d \notin disturbed',
         NEW k, jobs' = [jobs EXCEPT ![d] = @ \cup {k}], k.at = t, UNCHANGED <<rows, watermark, unguarded, retro>>,
         k.phase \in {"bump", "ship", "apply", "guard", "wipe"},
         k.phase \in {"bump", "guard"} => k.seen = watermark[d],
         k.phase = "bump" /\ log'[t].by = d => watermark[d] < t,
         k.phase = "apply" => k.snap = Target(d, t)',
         k.phase = "wipe" => k.snap = rows[d] /\ Siblings(d, log'[t].by)
  PROVE  Here(d)'
<1>1. jobs[d] = {} /\ jobs'[d] = {k} /\ d \notin disturbed
  BY Alone DEF Began
<1>2. SafeAt(d)'
  <2>1. k.phase = "apply" => At(k.snap) \subseteq At(rows[d])
    BY DEF Target, Editable, Deletable, At
  <2>2. ReadInv(d, k)'
    BY <2>1 DEF ReadInv, Own
  <2>3. Covered(d)'
    BY DEF Covered, Here, SafeAt
  <2> QED BY <1>1, <2>2, <2>3 DEF Here, SafeAt
<1>3. ASSUME InOrder(d)' PROVE OrderAt(d)'
  <2>1. /\ rows[d] = View(log', HandledOn(d)) /\ HandledOn(d)' \ {t} = HandledOn(d) /\ \A x \in HandledOn(d) : x < t
        /\ Latest(d, t)' /\ watermark[d] \in {0} \cup HandledOn(d) /\ HandledOn(d)' = HandledOn(d) \cup {t}
    BY <1>1, <1>3, Beginning
  <2>2. Before(d, k)' = HandledOn(d)
    BY <2>1 DEF Before
  <2>3. watermark[d] < t
    BY <2>1 DEF Stamp
  <2>4. ShowInv(d, k)'
    BY <2>1, <2>2, <2>3 DEF ShowInv
  <2> QED BY <1>1, <2>1, <2>4 DEF OrderAt
<1> QED BY <1>2, <1>3 DEF Here

LEMMA JobIs == \A t, p, s, S : /\ NewJob(t, p, s, S).at = t /\ NewJob(t, p, s, S).phase = p
                               /\ NewJob(t, p, s, S).seen = s /\ NewJob(t, p, s, S).snap = S
BY DEF NewJob

LEMMA HereCall ==
  ASSUME ChatTypeOK, KnownInv, NEW d \in Device, Here(d), Call(d), d \notin disturbed'
  PROVE  Here(d)'
<1> USE DEF store, chatHistory
<1>1. Siblings(d, d)
  BY DEF Siblings
<1>2. CASE SendText(d)
  <2> DEFINE k == NewJob(Now, "bump", watermark[d], {})
  <2>1. Create("text", d, 0) /\ "text" \in Kind /\ 0 \in Nat
    BY <1>2 DEF SendText, Kind
  <2>2. Grown /\ Now \in 1..Len(log') /\ Now \in Stamp
    BY <2>1, Created
  <2>3. jobs' = [jobs EXCEPT ![d] = @ \cup {k}] /\ Began(d, Now) /\ UNCHANGED <<rows, watermark, unguarded, retro>>
    BY <1>2 DEF SendText
  <2>4. k.at = Now /\ k.phase = "bump" /\ k.seen = watermark[d]
    BY JobIs
  <2>5. watermark[d] < Now
    <3>1. watermark[d] \in Nat /\ watermark[d] <= Len(log) /\ Len(log) \in Nat
      BY Stamps DEF ChatTypeOK, KnownInv
    <3> QED BY <3>1 DEF Now
  <2> HIDE DEF k
  <2> QED BY <2>2, <2>3, <2>4, <2>5, HereBegins
<1>3. ASSUME NEW kind \in {"edit", "delete"}, NEW t \in Stamp, ChangeMessage(d, kind, t) PROVE Here(d)'
  <2> DEFINE k == NewJob(Now, "ship", 0, {})
  <2>1. Create(kind, d, t) /\ kind \in Kind /\ t \in At(rows[d])
    BY <1>3 DEF ChangeMessage, Kind
  <2>2. t \in Nat /\ t <= Len(log)
    BY <2>1, Stamps, RowTypes DEF At
  <2>3. Grown /\ Now \in 1..Len(log') /\ Now \in Stamp
    BY <2>1, <2>2, Created
  <2>4. jobs' = [jobs EXCEPT ![d] = @ \cup {k}] /\ Began(d, Now) /\ UNCHANGED <<rows, watermark, unguarded, retro>>
    BY <1>3 DEF ChangeMessage
  <2>5. k.at = Now /\ k.phase = "ship"
    BY JobIs
  <2> HIDE DEF k
  <2> QED BY <2>3, <2>4, <2>5, HereBegins
<1>4. CASE DeleteForEveryone(d)
  <2> DEFINE k == NewJob(Now, "wipe", 0, rows[d])
  <2>1. Create("wipeAll", d, 0) /\ "wipeAll" \in Kind /\ 0 \in Nat
    BY <1>4 DEF DeleteForEveryone, Kind
  <2>2. Grown /\ Now \in 1..Len(log') /\ Now \in Stamp /\ log'[Now].by = d
    BY <2>1, Created
  <2>3. jobs' = [jobs EXCEPT ![d] = @ \cup {k}] /\ Began(d, Now) /\ UNCHANGED <<rows, watermark, unguarded, retro>>
    BY <1>4 DEF DeleteForEveryone
  <2>4. k.at = Now /\ k.phase = "wipe" /\ k.snap = rows[d]
    BY JobIs
  <2> HIDE DEF k
  <2> QED BY <1>1, <2>2, <2>3, <2>4, HereBegins
<1>5. CASE DeleteForMe(d)
  <2>0. PICK k : k = NewJob(0, "wipe", 0, rows[d])
    OBVIOUS
  <2>1. jobs' = [jobs EXCEPT ![d] = @ \cup {k}] /\ Begins(d) /\ UNCHANGED <<log, handled, rows, watermark, unguarded, retro>>
    BY <1>5, <2>0 DEF DeleteForMe
  <2>2. k.at = 0 /\ k.phase = "wipe" /\ k.snap = rows[d]
    BY <2>0, JobIs
  <2>3. jobs[d] = {} /\ jobs'[d] = {k} /\ d \notin disturbed
    BY <2>1, Alone
  <2>4. ReadInv(d, k)' /\ ShowInv(d, k)'
    BY <2>1, <2>2 DEF ReadInv, ShowInv
  <2>5. SafeAt(d)'
    <3>1. Covered(d)'
      BY <2>1 DEF Here, SafeAt, Covered
    <3> QED BY <2>1, <2>3, <2>4, <3>1 DEF Here, SafeAt
  <2>6. InOrder(d)' => OrderAt(d)'
    <3>1. InOrder(d)' = InOrder(d) /\ HandledOn(d)' = HandledOn(d)
      BY <2>1 DEF InOrder, HandledOn
    <3> QED BY <2>1, <2>3, <2>4, <3>1 DEF Here, OrderAt
  <2> QED BY <2>5, <2>6 DEF Here
<1> QED BY <1>2, <1>3, <1>4, <1>5 DEF Call

LEMMA HereInbound ==
  ASSUME ChatTypeOK, KnownInv, NEW d \in Device, Here(d), NEW t \in Stamp, Inbound(d, t), d \notin disturbed'
  PROVE  Here(d)'
<1> USE DEF store, chatHistory
<1>1. \A e : e = d => Siblings(d, e)
  BY DEF Siblings
<1>2. CASE PeerText(d, t)
  <2> DEFINE k == NewJob(t, "bump", watermark[d], {})
  <2>1. Arrives(d, t, "text") /\ ~Siblings(d, log[t].by) /\ jobs' = [jobs EXCEPT ![d] = @ \cup {k}] /\ UNCHANGED <<rows, watermark, unguarded, retro>>
    BY <1>2 DEF PeerText
  <2>2. Grown /\ t \in 1..Len(log') /\ Began(d, t) /\ log' = log
    BY <2>1, Arrived
  <2>3. k.at = t /\ k.phase = "bump" /\ k.seen = watermark[d] /\ log'[t].by # d
    BY <1>1, <2>1, <2>2, JobIs
  <2> HIDE DEF k
  <2> QED BY <2>1, <2>2, <2>3, HereBegins
<1>3. CASE EchoText(d, t)
  <2> DEFINE k == NewJob(t, "index", 0, {})
  <2>1. /\ Arrives(d, t, "text") /\ jobs' = [jobs EXCEPT ![d] = @ \cup {k}] /\ UNCHANGED <<watermark, retro>>
        /\ rows' = [rows EXCEPT ![d] = Store(@, {Text(t)})] /\ unguarded' = [unguarded EXCEPT ![d] = @ \cup {t}]
    BY <1>3 DEF EchoText
  <2>2. Grown /\ t \in 1..Len(log') /\ Began(d, t) /\ log' = log /\ log[t].kind = "text"
    BY <2>1, Arrived
  <2>3. k.at = t /\ k.phase = "index"
    BY JobIs
  <2> HIDE DEF k
  <2>4. jobs[d] = {} /\ jobs'[d] = {k} /\ d \notin disturbed
    BY <2>1, <2>2, Alone DEF Began
  <2>5. rows'[d] = Store(rows[d], {Text(t)}) /\ unguarded'[d] = unguarded[d] \cup {t}
    BY <2>1 DEF ChatTypeOK
  <2>6. ReadInv(d, k)'
    BY <2>3 DEF ReadInv
  <2>7. Covered(d)'
    <3>1. \A r \in Store(rows[d], {Text(t)}) : r \in rows[d] \/ r = Text(t)
      BY StoreAll
    <3>2. \A x \in At(rows'[d]) : x \in At(rows[d]) \/ x = t
      BY <2>5, <3>1, RowTypes DEF At
    <3>3. Covered(d)
      BY DEF Here, SafeAt
    <3> QED BY <2>1, <2>5, <3>2, <3>3 DEF Covered
  <2>8. SafeAt(d)'
    BY <2>1, <2>4, <2>5, <2>6, <2>7 DEF Here, SafeAt
  <2>9. ASSUME InOrder(d)' PROVE OrderAt(d)'
    <3>1. /\ rows[d] = View(log', HandledOn(d)) /\ HandledOn(d) \in SUBSET Nat /\ \A x \in HandledOn(d) : x < t
          /\ Latest(d, t)' /\ watermark[d] \in {0} \cup HandledOn(d) /\ HandledOn(d)' = HandledOn(d) \cup {t}
          /\ Follows(log', HandledOn(d))
      BY <2>2, <2>4, <2>9, Beginning
    <3>2. View(log', HandledOn(d) \cup {t}) = Store(View(log', HandledOn(d)), {Text(t)})
      BY <2>2, <3>1, ViewText DEF Stamp
    <3>3. ShowInv(d, k)'
      BY <2>3, <2>5, <3>1, <3>2 DEF ShowInv
    <3> QED BY <2>1, <2>4, <3>1, <3>3 DEF OrderAt
  <2> QED BY <2>8, <2>9 DEF Here
<1>4. ASSUME NEW kind, Changed(d, t, kind) PROVE Here(d)'
  <2> DEFINE k == NewJob(t, "apply", 0, Target(d, t))
  <2>1. Arrives(d, t, kind) /\ jobs' = [jobs EXCEPT ![d] = @ \cup {k}] /\ UNCHANGED <<rows, watermark, unguarded, retro>>
    BY <1>4 DEF Changed
  <2>2. Grown /\ t \in 1..Len(log') /\ Began(d, t) /\ log' = log
    BY <2>1, Arrived
  <2>3. k.at = t /\ k.phase = "apply" /\ k.snap = Target(d, t)
    BY JobIs
  <2>4. Target(d, t)' = Target(d, t)
    BY <2>1, <2>2 DEF Target
  <2> HIDE DEF k
  <2> QED BY <2>1, <2>2, <2>3, <2>4, HereBegins
<1>5. CASE PeerWipe(d, t)
  <2> DEFINE k == NewJob(t, "guard", watermark[d], {})
  <2>1. Arrives(d, t, "wipeAll") /\ jobs' = [jobs EXCEPT ![d] = @ \cup {k}] /\ UNCHANGED <<rows, watermark, unguarded, retro>>
    BY <1>5 DEF PeerWipe
  <2>2. Grown /\ t \in 1..Len(log') /\ Began(d, t) /\ log' = log
    BY <2>1, Arrived
  <2>3. k.at = t /\ k.phase = "guard" /\ k.seen = watermark[d]
    BY JobIs
  <2> HIDE DEF k
  <2> QED BY <2>1, <2>2, <2>3, HereBegins
<1>6. CASE EchoWipe(d, t)
  <2> DEFINE k == NewJob(t, "wipe", 0, rows[d])
  <2>1. /\ Arrives(d, t, "wipeAll") \/ Arrives(d, t, "wipeSelf")
        /\ Siblings(d, log[t].by) /\ jobs' = [jobs EXCEPT ![d] = @ \cup {k}] /\ UNCHANGED <<rows, watermark, unguarded, retro>>
    BY <1>6 DEF EchoWipe
  <2>2. Grown /\ t \in 1..Len(log') /\ Began(d, t) /\ log' = log
    BY <2>1, Arrived
  <2>3. k.at = t /\ k.phase = "wipe" /\ k.snap = rows[d]
    BY JobIs
  <2> HIDE DEF k
  <2> QED BY <2>1, <2>2, <2>3, HereBegins
<1> QED BY <1>2, <1>3, <1>4, <1>5, <1>6 DEF Inbound

\* The job of a device that has one, and the events handled before its own.
LEMMA TheJob ==
  ASSUME ChatTypeOK, KnownInv, NEW d \in Device, Here(d), NEW j \in jobs[d]
  PROVE  /\ jobs[d] = {j} /\ ReadInv(d, j) /\ Covered(d)
         /\ InOrder(d) => /\ ShowInv(d, j) /\ watermark[d] \in {0} \cup HandledOn(d)
                          /\ j.at # 0 => /\ HandledOn(d) = Before(d, j) \cup {j.at} /\ Before(d, j) \in SUBSET Nat
                                         /\ \A x \in Before(d, j) : x < j.at
                                         /\ Follows(log, Before(d, j))
<1>1. jobs[d] = {j} /\ ReadInv(d, j) /\ Covered(d)
  BY DEF Here, SafeAt
<1>2. ASSUME InOrder(d), j.at # 0
      PROVE  /\ HandledOn(d) = Before(d, j) \cup {j.at} /\ Before(d, j) \in SUBSET Nat
             /\ \A x \in Before(d, j) : x < j.at
             /\ Follows(log, Before(d, j))
  <2>1. Latest(d, j.at)
    BY <1>2 DEF Here, OrderAt, ShowInv
  <2>2. HandledOn(d) \subseteq 1..Len(log) /\ Follows(log, 1..Len(log)) /\ Len(log) \in Nat
    BY Stamps DEF KnownInv
  <2>3. HandledOn(d) = Before(d, j) \cup {j.at} /\ Before(d, j) \subseteq HandledOn(d)
    BY <2>1 DEF Latest, Before
  <2>4. \A x \in Before(d, j) : x \in Nat /\ x <= j.at /\ x # j.at
    BY <2>1, <2>2 DEF Latest, Before
  <2>5. j.at \in Nat
    BY <2>1, <2>2 DEF Latest
  <2>6. \A x \in Before(d, j) : x < j.at
    BY <2>4, <2>5
  <2>7. Follows(log, Before(d, j))
    BY <2>2, <2>3 DEF Follows
  <2> QED BY <2>3, <2>4, <2>6, <2>7
<1> QED BY <1>1, <1>2 DEF Here, OrderAt

\* A step of a job that goes on as k, without raising or widening anything.
LEMMA HereContinues ==
  ASSUME ChatTypeOK, KnownInv, NEW d \in Device, Here(d), NEW j \in jobs[d], NEW k, Advance(d, j, k),
         UNCHANGED <<log, handled>>, ReadInv(d, k)', Covered(d)', \A p \in retro'[d] : p[2] \in unguarded'[d],
         InOrder(d) => watermark'[d] \in {0} \cup HandledOn(d) /\ ShowInv(d, k)'
  PROVE  Here(d)'
<1>1. jobs'[d] = {k}
  BY TheJob DEF Advance, ChatTypeOK
<1>2. InOrder(d)' = InOrder(d) /\ HandledOn(d)' = HandledOn(d)
  BY DEF InOrder, HandledOn
<1> QED BY <1>1, <1>2 DEF Here, SafeAt, OrderAt

\* The last step of a job.
LEMMA HereEnds ==
  ASSUME ChatTypeOK, KnownInv, NEW d \in Device, Here(d), NEW j \in jobs[d], Finish(d, j),
         UNCHANGED <<log, handled, unguarded, retro>>, Covered(d)',
         InOrder(d) => watermark'[d] \in {0} \cup HandledOn(d) /\ rows'[d] = View(log, HandledOn(d))
  PROVE  Here(d)'
<1>1. jobs'[d] = {}
  BY TheJob DEF Finish, ChatTypeOK
<1>2. InOrder(d)' = InOrder(d) /\ HandledOn(d)' = HandledOn(d)
  BY DEF InOrder, HandledOn
<1> QED BY <1>1, <1>2 DEF Here, SafeAt, OrderAt

\* The row of the job's text is stored.
LEMMA HerePut ==
  ASSUME ChatTypeOK, KnownInv, NEW d \in Device, Here(d), NEW j \in jobs[d], Put(d, j)
  PROVE  Here(d)'
<1> USE DEF chatHistory
<1> DEFINE k == [j EXCEPT !.phase = "index"]
<1>1. j \in Job /\ j.at \in Nat /\ j.at # 0 /\ log[j.at].kind = "text" /\ j.at \in Stamp
  BY JobFacts DEF Put, Fits
<1>2. k.at = j.at /\ k.phase = "index"
  BY <1>1 DEF Job
<1> HIDE DEF k
<1>3. Advance(d, j, k) /\ UNCHANGED <<log, handled, watermark, retro>> /\ rows' = [rows EXCEPT ![d] = Store(@, {Text(j.at)})]
  BY DEF Put, k
<1>4. rows'[d] = Store(rows[d], {Text(j.at)})
  BY <1>3 DEF ChatTypeOK
<1>5. unguarded[d] \subseteq unguarded'[d] /\ (j.at \in unguarded'[d] \/ j.at <= watermark[d])
  <2>1. CASE j.phase = "bump"
    BY <2>1 DEF Put, ChatTypeOK
  <2>2. CASE j.phase = "put"
    <3>1. j.at <= watermark[d] /\ unguarded' = unguarded
      BY <2>2, TheJob DEF ReadInv, Put
    <3> QED BY <3>1
  <2> QED BY <2>1, <2>2 DEF Put
<1>6. Covered(d)'
  <2>1. \A r \in Store(rows[d], {Text(j.at)}) : r \in rows[d] \/ r = Text(j.at)
    BY StoreAll
  <2>2. \A x \in At(rows'[d]) : x \in At(rows[d]) \/ x = j.at
    <3>1. j.at \in Stamp /\ Text(j.at).at = j.at
      BY <1>1, RowTypes
    <3>2. \A r \in rows'[d] : r \in rows[d] \/ r.at = j.at
      BY <1>4, <2>1, <3>1
    <3> QED BY <3>2 DEF At
  <2>3. Covered(d)
    BY TheJob
  <2> QED BY <1>3, <1>5, <2>2, <2>3 DEF Covered
<1>7. \A p \in retro'[d] : p[2] \in unguarded'[d]
  BY <1>3, <1>5 DEF Here, SafeAt
<1>8. ReadInv(d, k)'
  BY <1>2 DEF ReadInv
<1>9. ASSUME InOrder(d) PROVE watermark'[d] \in {0} \cup HandledOn(d) /\ ShowInv(d, k)'
  <2>1. /\ ShowInv(d, j) /\ watermark[d] \in {0} \cup HandledOn(d)
        /\ HandledOn(d) = Before(d, j) \cup {j.at} /\ Before(d, j) \in SUBSET Nat
        /\ \A x \in Before(d, j) : x < j.at
        /\ Follows(log, Before(d, j))
    BY <1>1, <1>9, TheJob
  <2>2. rows[d] = View(log, Before(d, j)) /\ Latest(d, j.at)
    BY <1>1, <2>1 DEF ShowInv, Put
  <2>3. View(log, HandledOn(d)) = Store(View(log, Before(d, j)), {Text(j.at)})
    BY <1>1, <2>1, ViewText
  <2>4. HandledOn(d)' = HandledOn(d)
    BY <1>3 DEF HandledOn
  <2>5. Latest(d, k.at)' /\ rows'[d] = View(log', HandledOn(d)')
    BY <1>2, <1>3, <1>4, <2>2, <2>3, <2>4 DEF Latest
  <2>6. ShowInv(d, k)'
    BY <1>2, <2>5 DEF ShowInv
  <2> QED BY <1>3, <2>1, <2>6
<1> QED BY <1>3, <1>6, <1>7, <1>8, <1>9, HereContinues

\* The row of the job's edit or tombstone is stored.
LEMMA HereApply ==
  ASSUME ChatTypeOK, KnownInv, NEW d \in Device, Here(d), NEW j \in jobs[d], Apply(d, j)
  PROVE  Here(d)'
<1> USE DEF chatHistory
<1> DEFINE new == {Change(r, j.at) : r \in j.snap}
<1>1. j \in Job /\ j.at \in Nat /\ j.at # 0 /\ log[j.at].kind \in {"edit", "delete"} /\ j.at \in Stamp /\ j.snap \in SUBSET Row /\ j.phase = "apply"
  BY JobFacts DEF Apply, Fits
<1>2. Finish(d, j) /\ UNCHANGED <<log, handled, watermark, retro, unguarded>> /\ rows' = [rows EXCEPT ![d] = Store(@, new)]
  BY DEF Apply
<1>3. rows'[d] = Store(rows[d], new)
  BY <1>2 DEF ChatTypeOK
<1>4. Covered(d)'
  <2>1. \A r \in j.snap : Change(r, j.at).at = r.at
    BY <1>1, RowTypes DEF Change
  <2>2. At(new) \subseteq At(j.snap)
    BY <2>1 DEF At
  <2>3. At(j.snap) \subseteq At(rows[d]) /\ Covered(d)
    BY <1>1, TheJob DEF ReadInv
  <2> HIDE DEF new
  <2>4. \A r \in Store(rows[d], new) : r \in rows[d] \/ r \in new
    BY StoreAll
  <2>5. At(rows'[d]) \subseteq At(rows[d])
    BY <1>3, <2>2, <2>3, <2>4 DEF At
  <2> QED BY <1>2, <2>3, <2>5 DEF Covered
<1>5. ASSUME InOrder(d) PROVE watermark'[d] \in {0} \cup HandledOn(d) /\ rows'[d] = View(log, HandledOn(d))
  <2>1. /\ ShowInv(d, j) /\ watermark[d] \in {0} \cup HandledOn(d)
        /\ HandledOn(d) = Before(d, j) \cup {j.at} /\ Before(d, j) \in SUBSET Nat
        /\ \A x \in Before(d, j) : x < j.at
    BY <1>1, <1>5, TheJob
  <2>2. rows[d] = View(log, Before(d, j)) /\ j.snap = Target(d, j.at)
    BY <1>1, <2>1 DEF ShowInv
  <2>3. CASE log[j.at].kind = "edit"
    <3>1. j.snap = Editable(rows[d], log[j.at].of)
      BY <2>2, <2>3 DEF Target
    <3>2. new = {[r EXCEPT !.edit = j.at] : r \in j.snap}
      BY <2>3 DEF Change
    <3> HIDE DEF new
    <3>3. View(log, Before(d, j) \cup {j.at}) = Store(View(log, Before(d, j)), {[r EXCEPT !.edit = j.at] : r \in Editable(View(log, Before(d, j)), log[j.at].of)})
      BY <1>1, <2>1, <2>3, ViewEdited
    <3>4. View(log, Before(d, j) \cup {j.at}) = Store(rows[d], new)
      BY <2>2, <3>1, <3>2, <3>3
    <3> QED BY <1>2, <1>3, <2>1, <3>4
  <2>4. CASE log[j.at].kind = "delete"
    <3>1. j.snap = Deletable(rows[d], log[j.at].of)
      BY <2>2, <2>4 DEF Target
    <3>2. new = {[r EXCEPT !.dead = TRUE] : r \in j.snap}
      BY <2>4 DEF Change
    <3> HIDE DEF new
    <3>3. View(log, Before(d, j) \cup {j.at}) = Store(View(log, Before(d, j)), {[r EXCEPT !.dead = TRUE] : r \in Deletable(View(log, Before(d, j)), log[j.at].of)})
      BY <1>1, <2>1, <2>4, ViewDeleted
    <3>4. View(log, Before(d, j) \cup {j.at}) = Store(rows[d], new)
      BY <2>2, <3>1, <3>2, <3>3
    <3> QED BY <1>2, <1>3, <2>1, <3>4
  <2> QED BY <1>1, <2>3, <2>4
<1> QED BY <1>2, <1>4, <1>5, HereEnds

\* The rows that were listed are removed.
LEMMA HereWipe ==
  ASSUME ChatTypeOK, KnownInv, NEW d \in Device, Here(d), NEW j \in jobs[d], Wipe(d, j)
  PROVE  Here(d)'
<1> DEFINE k == [j EXCEPT !.phase = "unindex", !.snap = {}]
<1>1. j \in Job /\ j.at \in Nat /\ j.snap \in SUBSET Row /\ j.phase = "wipe" /\ (j.at # 0 => j.at \in Stamp)
  BY JobFacts DEF Wipe
<1>2. k.at = j.at /\ k.phase = "unindex"
  BY <1>1 DEF Job
<1> HIDE DEF k
<1>3. /\ Advance(d, j, k) /\ UNCHANGED <<log, handled, watermark, unguarded>>
      /\ rows' = [rows EXCEPT ![d] = {r \in @ : r.at \notin At(j.snap)}]
  BY DEF Wipe, k
<1>4. j.snap = rows[d]
  BY <1>1, TheJob DEF ReadInv
<1>5. rows'[d] = {}
  BY <1>3, <1>4 DEF ChatTypeOK, At
<1>6. ReadInv(d, k)' /\ Covered(d)'
  BY <1>2, <1>5 DEF ReadInv, Covered, At
<1>7. \A p \in retro'[d] : p[2] \in unguarded'[d]
  <2>1. \A p \in retro[d] : p[2] \in unguarded[d]
    BY DEF Here, SafeAt
  <2>2. CASE j.at # 0 /\ ~Siblings(d, log[j.at].by)
    <3>1. watermark[d] < j.at /\ Covered(d) /\ watermark[d] \in Nat
      BY <1>1, <2>2, TheJob DEF ReadInv, ChatTypeOK
    <3>2. \A t \in At(j.snap) : t \in Nat
      BY <1>1 DEF At, Row, Stamp
    <3>3. \A t \in At(j.snap) : t > j.at => t \in unguarded[d]
      BY <1>1, <1>4, <3>1, <3>2 DEF Covered
    <3>4. retro'[d] = retro[d] \cup ({j.at} \X {t \in At(j.snap) : t > j.at})
      BY <2>2 DEF Wipe, ChatTypeOK
    <3>5. \A p \in {j.at} \X {t \in At(j.snap) : t > j.at} : p[2] \in At(j.snap) /\ p[2] > j.at
      OBVIOUS
    <3> QED BY <1>3, <2>1, <3>3, <3>4, <3>5
  <2>3. CASE ~(j.at # 0 /\ ~Siblings(d, log[j.at].by))
    BY <1>3, <2>1, <2>3 DEF Wipe
  <2> QED BY <2>2, <2>3
<1>8. ASSUME InOrder(d) PROVE watermark'[d] \in {0} \cup HandledOn(d) /\ ShowInv(d, k)'
  <2>1. watermark[d] \in {0} \cup HandledOn(d) /\ (j.at # 0 => Latest(d, j.at))
    BY <1>8, TheJob DEF ShowInv
  <2>2. Latest(d, k.at)' = Latest(d, j.at)
    BY <1>2, <1>3 DEF Latest, HandledOn
  <2> QED BY <1>2, <1>3, <2>1, <2>2 DEF ShowInv
<1> QED BY <1>3, <1>6, <1>7, <1>8, HereContinues

LEMMA HereStep ==
  ASSUME ChatTypeOK, KnownInv, NEW d \in Device, Here(d), NEW j \in jobs[d], Step(d, j)
  PROVE  Here(d)'
<1> USE DEF chatHistory
<1>1. j \in Job /\ j.at \in Nat /\ j.seen \in Nat /\ Fits(log, j) /\ (j.at # 0 => j.at \in Stamp /\ j.at \in 1..Len(log))
  BY JobFacts
<1>2. /\ ReadInv(d, j) /\ Covered(d) /\ \A p \in retro[d] : p[2] \in unguarded[d]
      /\ InOrder(d) => ShowInv(d, j) /\ watermark[d] \in {0} \cup HandledOn(d)
  BY TheJob DEF Here, SafeAt
<1>3. \A k : k.at = j.at /\ handled' = handled => Latest(d, k.at)' = Latest(d, j.at) /\ Before(d, k)' = Before(d, j)
  BY DEF Latest, Before, HandledOn
<1>4. watermark[d] \in Nat
  BY DEF ChatTypeOK
<1>5. CASE Bump(d, j)
  <2> DEFINE k == [j EXCEPT !.phase = "put"]
  <2>1. k.at = j.at /\ k.phase = "put"
    BY <1>1 DEF Job
  <2>2. Advance(d, j, k) /\ UNCHANGED <<log, handled, rows, unguarded, retro>> /\ watermark' = [watermark EXCEPT ![d] = j.at] /\ j.phase = "bump" /\ Raises(d, j)
    BY <1>5 DEF Bump
  <2> HIDE DEF k
  <2>3. watermark'[d] = j.at /\ j.at # 0
    BY <1>1, <2>2 DEF ChatTypeOK, Fits
  <2>4. watermark[d] <= j.at
    BY <1>1, <1>2, <1>4, <2>2 DEF ReadInv, Raises
  <2>5. Covered(d)'
    <3>1. \A t \in At(rows[d]) : t \in Nat
      BY RowTypes DEF At
    <3> QED BY <1>1, <1>2, <1>4, <2>2, <2>3, <2>4, <3>1 DEF Covered
  <2>6. ReadInv(d, k)'
    BY <1>1, <2>1, <2>3 DEF ReadInv
  <2>7. ASSUME InOrder(d) PROVE watermark'[d] \in {0} \cup HandledOn(d) /\ ShowInv(d, k)'
    <3>1. Latest(d, j.at) /\ rows[d] = View(log, Before(d, j))
      BY <1>2, <2>2, <2>3, <2>7 DEF ShowInv
    <3>2. ShowInv(d, k)'
      BY <1>3, <2>1, <2>2, <3>1 DEF ShowInv
    <3> QED BY <2>3, <3>1, <3>2 DEF Latest
  <2> QED BY <1>2, <2>2, <2>5, <2>6, <2>7, HereContinues
<1>6. CASE Put(d, j)
  BY <1>6, HerePut
<1>7. CASE Index(d, j)
  <2>1. Finish(d, j) /\ UNCHANGED <<log, handled, rows, watermark, unguarded, retro>> /\ j.phase = "index"
    BY <1>7 DEF Index
  <2>2. Covered(d)'
    BY <1>2, <2>1 DEF Covered
  <2>3. InOrder(d) => watermark'[d] \in {0} \cup HandledOn(d) /\ rows'[d] = View(log, HandledOn(d))
    BY <1>2, <2>1 DEF ShowInv
  <2> QED BY <2>1, <2>2, <2>3, HereEnds
<1>8. CASE Ship(d, j)
  <2>1. PICK k : k = [j EXCEPT !.phase = "apply", !.snap = Target(d, j.at)]
    OBVIOUS
  <2>2. k.at = j.at /\ k.phase = "apply" /\ k.snap = Target(d, j.at)
    BY <1>1, <2>1 DEF Job
  <2>3. Advance(d, j, k) /\ UNCHANGED <<log, handled, rows, watermark, unguarded, retro>> /\ j.phase = "ship"
    BY <1>8, <2>1 DEF Ship, store
  <2>4. At(k.snap) \subseteq At(rows[d]) /\ Target(d, j.at)' = Target(d, j.at)
    <3>1. Target(d, j.at) \subseteq rows[d]
      BY RowTypes
    <3>2. Target(d, j.at)' = Target(d, j.at)
      BY <2>3 DEF Target
    <3> QED BY <2>2, <3>1, <3>2 DEF At
  <2>5. ReadInv(d, k)' /\ Covered(d)'
    BY <1>2, <2>2, <2>3, <2>4 DEF ReadInv, Covered
  <2>6. ASSUME InOrder(d) PROVE watermark'[d] \in {0} \cup HandledOn(d) /\ ShowInv(d, k)'
    <3>1. rows[d] = View(log, Before(d, j)) /\ (j.at # 0 => Latest(d, j.at))
      BY <1>2, <2>3, <2>6 DEF ShowInv
    <3>2. ShowInv(d, k)'
      BY <1>3, <2>2, <2>3, <2>4, <3>1 DEF ShowInv
    <3> QED BY <1>2, <2>3, <2>6, <3>2
  <2> QED BY <1>2, <2>3, <2>5, <2>6, HereContinues
<1>9. CASE Apply(d, j)
  BY <1>9, HereApply
<1>10. CASE GuardDrops(d, j)
  <2>1. Finish(d, j) /\ UNCHANGED <<log, handled, rows, watermark, unguarded, retro>> /\ j.phase = "guard" /\ j.at <= j.seen
    BY <1>10 DEF GuardDrops, store
  <2>2. Covered(d)'
    BY <1>2, <2>1 DEF Covered
  <2>3. ~InOrder(d)
    <3>1. j.seen = watermark[d] /\ (InOrder(d) => watermark[d] < j.at)
      BY <1>2, <2>1 DEF ReadInv, ShowInv
    <3> QED BY <1>1, <1>4, <2>1, <3>1
  <2> QED BY <2>1, <2>2, <2>3, HereEnds
<1>11. CASE GuardAccepts(d, j)
  <2>1. PICK k : k = [j EXCEPT !.phase = "wipe", !.snap = rows[d]]
    OBVIOUS
  <2>2. k.at = j.at /\ k.phase = "wipe" /\ k.snap = rows[d]
    BY <1>1, <2>1 DEF Job
  <2>3. Advance(d, j, k) /\ UNCHANGED <<log, handled, rows, watermark, unguarded, retro>> /\ j.phase = "guard" /\ j.at > j.seen
    BY <1>11, <2>1 DEF GuardAccepts, store
  <2>4. watermark[d] < j.at
    BY <1>1, <1>2, <1>4, <2>3 DEF ReadInv
  <2>5. ReadInv(d, k)' /\ Covered(d)'
    BY <1>2, <2>2, <2>3, <2>4 DEF ReadInv, Covered
  <2>6. InOrder(d) => watermark'[d] \in {0} \cup HandledOn(d) /\ ShowInv(d, k)'
    BY <1>2, <1>3, <2>2, <2>3 DEF ShowInv
  <2> QED BY <1>2, <2>3, <2>5, <2>6, HereContinues
<1>12. CASE Wipe(d, j)
  BY <1>12, HereWipe
<1>13. CASE Unindex(d, j)
  <2> DEFINE k == [j EXCEPT !.phase = "mark"]
  <2>1. k.at = j.at /\ k.phase = "mark"
    BY <1>1 DEF Job
  <2>2. Advance(d, j, k) /\ UNCHANGED <<log, handled, rows, watermark, unguarded, retro>> /\ j.phase = "unindex"
    BY <1>13 DEF Unindex
  <2> HIDE DEF k
  <2>3. ReadInv(d, k)' /\ Covered(d)'
    BY <1>2, <2>1, <2>2 DEF ReadInv, Covered
  <2>4. InOrder(d) => watermark'[d] \in {0} \cup HandledOn(d) /\ ShowInv(d, k)'
    BY <1>2, <1>3, <2>1, <2>2 DEF ShowInv
  <2> QED BY <1>2, <2>2, <2>3, <2>4, HereContinues
<1>14. CASE Mark(d, j)
  <2>1. /\ Finish(d, j) /\ UNCHANGED <<log, handled, rows, unguarded, retro>> /\ j.phase = "mark" /\ j.at # 0
        /\ watermark' = [watermark EXCEPT ![d] = j.at]
    BY <1>14 DEF Mark
  <2>2. watermark'[d] = j.at /\ rows[d] = {}
    BY <1>2, <2>1 DEF ChatTypeOK, ReadInv
  <2>3. Covered(d)'
    BY <2>1, <2>2 DEF Covered, At
  <2>4. ASSUME InOrder(d) PROVE watermark'[d] \in {0} \cup HandledOn(d) /\ rows'[d] = View(log, HandledOn(d))
    <3>1. Latest(d, j.at) /\ log[j.at].kind \in {"wipeSelf", "wipeAll"}
      BY <1>1, <1>2, <2>1, <2>4 DEF ShowInv, Fits
    <3>2. HandledOn(d) \in SUBSET Nat
      BY Stamps DEF KnownInv
    <3>3. View(log, HandledOn(d)) = {}
      BY <3>1, <3>2, ViewWiped DEF Latest
    <3> QED BY <2>1, <2>2, <3>1, <3>3 DEF Latest
  <2> QED BY <2>1, <2>3, <2>4, HereEnds
<1>15. CASE MarkSelf(d, j)
  <2> DEFINE n == Len(handled[d])
  <2>1. /\ Finish(d, j) /\ UNCHANGED <<rows, unguarded, retro>> /\ j.phase = "mark"
        /\ watermark' = [watermark EXCEPT ![d] = Now] /\ handled' = [handled EXCEPT ![d] = Append(@, Now)]
    BY <1>15 DEF MarkSelf
  <2>2. Create("wipeSelf", d, 0) /\ "wipeSelf" \in Kind /\ 0 \in Nat
    BY <1>15 DEF MarkSelf, Kind
  <2>3. Now \in Nat /\ Now \in Stamp /\ log'[Now].kind = "wipeSelf" /\ Now = Len(log')
    BY <2>2, Created
  <2>4. watermark'[d] = Now /\ handled'[d] = Append(handled[d], Now) /\ jobs'[d] = {}
    BY <2>1, TheJob DEF Finish, ChatTypeOK
  <2>5. rows'[d] = {}
    BY <1>2, <2>1 DEF ReadInv
  <2>6. Covered(d)'
    BY <2>5 DEF Covered, At
  <2>7. HandledOn(d)' = HandledOn(d) \cup {Now}
    <3>1. n \in Nat
      BY Same, LenProperties
    <3>2. /\ Len(handled'[d]) = n + 1 /\ handled'[d][n + 1] = Now
          /\ \A i \in 1..n : handled'[d][i] = handled[d][i]
      BY <2>3, <2>4, Handles
    <3>3. (\A i \in 1..(n + 1) : i \in 1..n \/ i = n + 1) /\ n + 1 \in 1..(n + 1) /\ \A i \in 1..n : i \in 1..(n + 1)
      BY <3>1
    <3> HIDE DEF n
    <3> QED BY <3>2, <3>3 DEF HandledOn, n
  <2>8. HandledOn(d)' \in SUBSET Nat /\ Now \in HandledOn(d)' /\ \A x \in HandledOn(d)' : x <= Now
    <3>1. \A x \in HandledOn(d) : x \in Nat /\ x <= Len(log)
      BY Stamps DEF KnownInv
    <3>2. \A x \in HandledOn(d) : x \in Nat /\ x <= Now
      BY <3>1, Stamps DEF Now
    <3> QED BY <2>3, <2>7, <3>2
  <2>9. View(log', HandledOn(d)') = {}
    BY <2>3, <2>8, ViewWiped
  <2>10. OrderAt(d)'
    BY <2>4, <2>5, <2>7, <2>9 DEF OrderAt
  <2>11. SafeAt(d)'
    BY <1>2, <2>1, <2>4, <2>6 DEF SafeAt
  <2> QED BY <2>10, <2>11 DEF Here
<1> QED BY <1>5, <1>6, <1>7, <1>8, <1>9, <1>10, <1>11, <1>12, <1>13, <1>14, <1>15 DEF Step

-----------------------------------------------------------------------------
\* The invariant

LEMMA ChatInitially == ChatInit => ChatInv
<1> SUFFICES ASSUME ChatInit PROVE ChatInv
  OBVIOUS
<1>1. log = <<>> /\ log \in Seq(Event) /\ Len(log) = 0 /\ 1..Len(log) = {} /\ <<>> \in Seq(Stamp)
  BY EmptySeq DEF ChatInit
<1>2. ChatTypeOK
  BY <1>1 DEF ChatInit, ChatTypeOK
<1>3. \A d \in Device : handled[d] = <<>> /\ HandledOn(d) = {}
  BY DEF ChatInit, HandledOn
<1>4. KnownInv
  BY <1>1, <1>3, BoundsAssumption DEF ChatInit, KnownInv, Follows
<1>5. SafeInv
  BY DEF ChatInit, SafeInv, SafeAt, Covered, At
<1>6. View(log, {}) = {}
  BY DEF View, Texts
<1>7. OrderInv
  BY <1>3, <1>6 DEF ChatInit, OrderInv, OrderAt
<1> QED BY <1>2, <1>4, <1>5, <1>7 DEF ChatInv

LEMMA ChatStep == ChatInv /\ [ChatNext]_chatVars => ChatInv'
<1> SUFFICES ASSUME ChatInv, [ChatNext]_chatVars PROVE ChatInv'
  OBVIOUS
<1>1. ChatTypeOK /\ KnownInv /\ \A d \in Device \ disturbed : Here(d)
  BY DEF ChatInv, SafeInv, OrderInv, Here
<1>2. ChatTypeOK' /\ KnownInv'
  BY <1>1, BasicStep
<1>3. ASSUME NEW d \in Device, Call(d) \/ (\E t \in Stamp : Inbound(d, t)) \/ (\E j \in jobs[d] : Step(d, j)),
             NEW e \in Device \ disturbed'
      PROVE  Here(e)'
  <2>1. Away(d) /\ disturbed \subseteq disturbed' /\ Grown
    BY <1>1, <1>3, Elsewhere
  <2>2. Here(e)
    BY <1>1, <1>3, <2>1
  <2>3. CASE e = d
    BY <1>1, <1>3, <2>2, <2>3, HereCall, HereInbound, HereStep
  <2>4. CASE e # d
    <3>1. /\ rows'[e] = rows[e] /\ jobs'[e] = jobs[e] /\ watermark'[e] = watermark[e] /\ handled'[e] = handled[e]
          /\ unguarded'[e] = unguarded[e] /\ retro'[e] = retro[e]
      BY <2>1, <2>4 DEF Away
    <3> QED BY <1>1, <2>1, <2>2, <3>1, HereKept
  <2> QED BY <2>3, <2>4
<1>4. ASSUME UNCHANGED chatVars PROVE \A e \in Device \ disturbed' : Here(e)'
  <2>1. Grown
    BY <1>4 DEF chatVars, Grown
  <2>2. ASSUME NEW e \in Device \ disturbed' PROVE Here(e)'
    <3>1. /\ Here(e) /\ rows'[e] = rows[e] /\ jobs'[e] = jobs[e] /\ watermark'[e] = watermark[e] /\ handled'[e] = handled[e]
          /\ unguarded'[e] = unguarded[e] /\ retro'[e] = retro[e]
      BY <1>1, <1>4 DEF chatVars
    <3> QED BY <1>1, <2>1, <3>1, HereKept
  <2> QED BY <2>2
<1>5. \A e \in Device \ disturbed' : Here(e)'
  BY <1>3, <1>4 DEF ChatNext
<1> QED BY <1>2, <1>5 DEF ChatInv, SafeInv, OrderInv, Here

LEMMA ChatHolds == ChatSpec => []ChatInv
BY ChatInitially, ChatStep, PTL DEF ChatSpec

\* The rows, the watermark and the jobs of a device stay what they should be:
\* rows and jobs name events by their clientSentAt, in each of the calls and
\* handlers (index.ts, message_store.ts, conversations.ts).
THEOREM ChatTypes == ChatSpec => []ChatTypeOK
BY ChatHolds, PTL DEF ChatInv

\* A device that handles the events in the order they were sent, one at a time,
\* shows the texts sent since the last wipe, each with its last edit or its
\* tombstone, for any number of devices and events: no watermark drops what it
\* should not and no edit revives what is deleted (index.ts dispatchInboundEvent
\* and the calls, message_store.ts applyEdit() and applyDelete()).
THEOREM RowsAreTheEvents == ChatSpec => []OrderedView
<1>1. ChatInv => OrderedView
  BY DEF ChatInv, OrderInv, OrderAt, OrderedView, AtRest
<1> QED BY <1>1, ChatHolds, PTL

\* A delete for everyone that comes late removes a message sent after it only
\* when that message did not raise the watermark (index.ts 2004-2012,
\* 2115-2135), whatever the order in which the two arrive.
THEOREM RaisedTextsAreKept == ChatSpec => []RaisedIsSafe
<1>1. ChatInv => RaisedIsSafe
  BY DEF ChatInv, SafeInv, SafeAt, RaisedIsSafe
<1> QED BY <1>1, ChatHolds, PTL

-----------------------------------------------------------------------------
\* What a device has handled, stored and is at work on, whatever overlaps

OnceAt(d) ==
  /\ \A t \in HandledOn(d) : <<d, t>> \notin mail
  /\ \A j, k \in jobs[d] : j.at = k.at => j = k
  /\ At(rows[d]) \subseteq HandledOn(d)
  /\ \A j \in jobs[d] :
       /\ j.at # 0 => j.at \in HandledOn(d)
       /\ At(j.snap) \subseteq HandledOn(d)
       /\ j.phase \in {"bump", "put"} => j.at \notin At(rows[d]) /\ \A k \in jobs[d] : j.at \notin At(k.snap)
       /\ j.phase = "apply" /\ log[j.at].kind = "edit" => \A r \in j.snap : ~r.dead
       /\ j.at # 0 /\ Own(d, j) => \A e \in Device \ {d} : <<e, j.at>> \notin mail /\ j.at \notin HandledOn(e)

\* Whoever created an event has handled it, and the others handle it once.
OnceInv ==
  /\ \A d \in Device : \A t \in 1..Len(log) : log[t].by = d => t \in HandledOn(d)
  /\ \A d \in Device : OnceAt(d)

\* Event t is new, created by device d; or it is a copy that arrives.
Fresh(d, t) == Len(log) + 1 = t /\ Len(log') = t /\ log'[t].by = d
Copy(d, t) == log' = log /\ t \in 1..Len(log) /\ <<d, t>> \in mail

LEMMA OnceFacts ==
  ASSUME ChatTypeOK, KnownInv, OnceInv, Grown, NEW d \in Device, NEW t, Fresh(d, t) \/ Copy(d, t)
  PROVE  /\ t # 0 /\ t \notin HandledOn(d)
         /\ log' = log => log[t].by # d
         /\ \A e \in Device : \A j \in jobs[e] : j.at # 0 => log'[j.at] = log[j.at]
         /\ \A e \in Device : \A j \in jobs[e] : j.at # 0 /\ log[j.at].by = e => j.at # t
         /\ Fresh(d, t) => \A e \in Device : <<e, t>> \notin mail /\ t \notin HandledOn(e)
         /\ \A x \in 1..Len(log') : (x \in 1..Len(log) /\ log'[x].by = log[x].by) \/ (x = t /\ log'[x].by = d)
<1>1. /\ Len(log) \in Nat /\ Len(log') \in Nat /\ \A x \in 1..Len(log) : log'[x] = log[x]
      /\ mail \subseteq Device \X (1..Len(log)) /\ \A e \in Device : HandledOn(e) \subseteq 1..Len(log)
      /\ \A e \in Device : \A j \in jobs[e] : j.at # 0 => j.at \in 1..Len(log)
  BY Stamps, LogGrows, JobFacts DEF KnownInv
<1>2. CASE Fresh(d, t)
  <2>1. t \notin 1..Len(log) /\ t # 0 /\ log' # log
    BY <1>1, <1>2 DEF Fresh
  <2>2. \A x \in 1..Len(log') : x \in 1..Len(log) \/ x = t
    BY <1>1, <1>2 DEF Fresh
  <2>3. \A e \in Device : <<e, t>> \notin mail /\ t \notin HandledOn(e)
    BY <1>1, <2>1
  <2>4. \A x \in 1..Len(log') : (x \in 1..Len(log) /\ log'[x].by = log[x].by) \/ (x = t /\ log'[x].by = d)
    BY <1>1, <1>2, <2>2 DEF Fresh
  <2>5. \A e \in Device : \A j \in jobs[e] : j.at # 0 => log'[j.at] = log[j.at] /\ j.at # t
    BY <1>1, <2>1
  <2> QED BY <2>1, <2>3, <2>4, <2>5
<1>3. CASE Copy(d, t)
  <2>1. t \in 1..Len(log) /\ log' = log /\ <<d, t>> \in mail /\ t # 0
    BY <1>1, <1>3 DEF Copy
  <2>2. t \notin HandledOn(d) /\ log[t].by # d
    BY <2>1 DEF OnceInv, OnceAt
  <2>3. ~Fresh(d, t)
    BY <1>1, <2>1 DEF Fresh
  <2>4. \A e \in Device : \A j \in jobs[e] : j.at # 0 /\ log[j.at].by = e => j.at # t
    BY <2>1, <2>2 DEF OnceInv, OnceAt, Own
  <2> QED BY <2>1, <2>2, <2>3, <2>4
<1> QED BY <1>2, <1>3

\* A device that did nothing: an event came that it does not work on, or one of
\* its own went to the others.
LEMMA OnceAway ==
  ASSUME ChatTypeOK, KnownInv, OnceInv, NEW e \in Device, NEW d \in Device \ {e},
         rows'[e] = rows[e], jobs'[e] = jobs[e], handled'[e] = handled[e],
         \A j \in jobs[e] : j.at # 0 => log'[j.at] = log[j.at],
         \A t \in HandledOn(e) : <<e, t>> \in mail' => <<e, t>> \in mail,
         \A j \in jobs[e] : j.at # 0 /\ log[j.at].by = e /\ j.at \in HandledOn(d)' => j.at \in HandledOn(d),
         \A j \in jobs[e], f \in Device : j.at # 0 /\ log[j.at].by = e /\ <<f, j.at>> \in mail' => <<f, j.at>> \in mail,
         \A f \in Device \ {d} : handled'[f] = handled[f]
  PROVE  OnceAt(e)'
<1>1. OnceAt(e)
  BY DEF OnceInv
<1>2. \A f \in Device \ {d} : HandledOn(f)' = HandledOn(f)
  BY DEF HandledOn
<1>3. ASSUME NEW j \in jobs[e], j.at # 0, log[j.at].by = e PROVE \A f \in Device \ {e} : <<f, j.at>> \notin mail' /\ j.at \notin HandledOn(f)'
  <2>1. \A f \in Device \ {e} : <<f, j.at>> \notin mail /\ j.at \notin HandledOn(f)
    BY <1>1, <1>3 DEF OnceAt, Own
  <2> QED BY <1>2, <1>3, <2>1
<1>4. ASSUME NEW j \in jobs[e], j.phase = "apply" PROVE j.at # 0
  BY <1>4, JobFacts DEF Fits
<1>5. (\A t \in HandledOn(e) : <<e, t>> \notin mail)'
  BY <1>1, <1>2 DEF OnceAt
<1>6. ASSUME NEW j \in jobs[e]
      PROVE  /\ j.at # 0 => j.at \in HandledOn(e)'
             /\ At(j.snap) \subseteq HandledOn(e)'
             /\ j.phase \in {"bump", "put"} => j.at \notin At(rows'[e]) /\ \A k \in jobs'[e] : j.at \notin At(k.snap)
             /\ j.phase = "apply" /\ log'[j.at].kind = "edit" => \A r \in j.snap : ~r.dead
             /\ j.at # 0 /\ log'[j.at].by = e => \A f \in Device \ {e} : <<f, j.at>> \notin mail' /\ j.at \notin HandledOn(f)'
  BY <1>1, <1>2, <1>3, <1>4 DEF OnceAt
<1> QED BY <1>1, <1>2, <1>5, <1>6 DEF OnceAt, Own

\* A device handles one more event.
LEMMA HandlesOneMore ==
  ASSUME ChatTypeOK, NEW d \in Device, NEW t \in Stamp, handled' = [handled EXCEPT ![d] = Append(@, t)]
  PROVE  HandledOn(d)' = HandledOn(d) \cup {t} /\ \A e \in Device \ {d} : HandledOn(e)' = HandledOn(e)
<1> DEFINE n == Len(handled[d])
<1>1. n \in Nat /\ handled'[d] = Append(handled[d], t) /\ \A e \in Device \ {d} : handled'[e] = handled[e]
  BY Same, LenProperties DEF ChatTypeOK
<1>2. /\ Len(handled'[d]) = n + 1 /\ handled'[d][n + 1] = t
      /\ \A i \in 1..n : handled'[d][i] = handled[d][i]
  BY <1>1, Handles
<1>3. (\A i \in 1..(n + 1) : i \in 1..n \/ i = n + 1) /\ n + 1 \in 1..(n + 1) /\ \A i \in 1..n : i \in 1..(n + 1)
  BY <1>1
<1>4. HandledOn(d)' = HandledOn(d) \cup {t}
  <2> HIDE DEF n
  <2> QED BY <1>2, <1>3 DEF HandledOn, n
<1>5. \A e \in Device \ {d} : HandledOn(e)' = HandledOn(e)
  BY <1>1 DEF HandledOn
<1> QED BY <1>4, <1>5

\* A device begins on a new event or a copy.
LEMMA OnceBegins ==
  ASSUME ChatTypeOK, KnownInv, OnceInv, Grown, NEW d \in Device, Away(d), NEW t \in Stamp, Fresh(d, t) \/ Copy(d, t), Began(d, t),
         NEW k, jobs' = [jobs EXCEPT ![d] = @ \cup {k}], k.at = t, mail' \subseteq mail, <<d, t>> \notin mail',
         At(k.snap) \subseteq At(rows[d]), k.phase = "apply" /\ log'[t].kind = "edit" => \A r \in k.snap : ~r.dead,
         At(rows'[d]) \subseteq At(rows[d]) \cup {t}, k.phase \in {"bump", "put"} => rows'[d] = rows[d]
  PROVE  OnceInv'
<1>1. HandledOn(d)' = HandledOn(d) \cup {t}
  BY HandlesOneMore DEF Began
<1>2. /\ t # 0 /\ t \notin HandledOn(d)
      /\ log' = log => log[t].by # d
      /\ \A e \in Device : \A j \in jobs[e] : j.at # 0 => log'[j.at] = log[j.at]
      /\ \A e \in Device : \A j \in jobs[e] : j.at # 0 /\ log[j.at].by = e => j.at # t
      /\ Fresh(d, t) => \A e \in Device : <<e, t>> \notin mail /\ t \notin HandledOn(e)
      /\ \A x \in 1..Len(log') : (x \in 1..Len(log) /\ log'[x].by = log[x].by) \/ (x = t /\ log'[x].by = d)
  BY OnceFacts
<1>3. jobs'[d] = jobs[d] \cup {k} /\ OnceAt(d)
  BY DEF ChatTypeOK, OnceInv
<1>4. \A e \in Device \ {d} : HandledOn(e)' = HandledOn(e)
  BY DEF Away, HandledOn
<1>6. ASSUME NEW e \in Device, NEW x \in 1..Len(log'), log'[x].by = e PROVE x \in HandledOn(e)'
  <2>1. CASE x = t /\ log'[x].by = d
    BY <1>1, <1>6, <2>1
  <2>2. CASE x \in 1..Len(log) /\ log'[x].by = log[x].by
    <3>1. x \in HandledOn(e)
      BY <1>6, <2>2 DEF OnceInv
    <3>2. HandledOn(e) \subseteq HandledOn(e)'
      BY <1>1, <1>4
    <3> QED BY <3>1, <3>2
  <2> QED BY <1>2, <2>1, <2>2
<1>7. OnceAt(d)'
  <2>1. \A x \in HandledOn(d)' : <<d, x>> \notin mail'
    BY <1>1, <1>3 DEF OnceAt
  <2>2. \A i \in jobs[d] : i.at # t
    BY <1>2, <1>3 DEF OnceAt
  <2>3. \A i, j \in jobs'[d] : i.at = j.at => i = j
    BY <1>3, <2>2 DEF OnceAt
  <2>4. At(rows[d]) \subseteq HandledOn(d) /\ At(rows'[d]) \subseteq HandledOn(d)'
    BY <1>1, <1>3 DEF OnceAt
  <2>5. ASSUME NEW j \in jobs[d]
        PROVE  /\ j.at # 0 => j.at \in HandledOn(d)'
               /\ At(j.snap) \subseteq HandledOn(d)'
               /\ j.phase \in {"bump", "put"} => j.at \notin At(rows'[d]) /\ \A i \in jobs'[d] : j.at \notin At(i.snap)
               /\ j.phase = "apply" /\ log'[j.at].kind = "edit" => \A r \in j.snap : ~r.dead
               /\ j.at # 0 /\ log'[j.at].by = d => \A f \in Device \ {d} : <<f, j.at>> \notin mail' /\ j.at \notin HandledOn(f)'
    <3>1. j.phase \in {"bump", "put", "apply"} => j.at # 0
      BY JobFacts DEF Fits
    <3>2. /\ j.at # 0 => j.at \in HandledOn(d)
          /\ At(j.snap) \subseteq HandledOn(d)
          /\ j.phase \in {"bump", "put"} => j.at \notin At(rows[d]) /\ \A i \in jobs[d] : j.at \notin At(i.snap)
          /\ j.phase = "apply" /\ log[j.at].kind = "edit" => \A r \in j.snap : ~r.dead
          /\ j.at # 0 /\ log[j.at].by = d => \A f \in Device \ {d} : <<f, j.at>> \notin mail /\ j.at \notin HandledOn(f)
      BY <1>3 DEF OnceAt, Own
    <3>3. j.phase \in {"bump", "put"} => j.at \notin At(rows'[d]) /\ \A i \in jobs'[d] : j.at \notin At(i.snap)
      BY <1>3, <2>2, <3>2
    <3>4. j.phase = "apply" /\ log'[j.at].kind = "edit" => \A r \in j.snap : ~r.dead
      BY <1>2, <3>1, <3>2
    <3>5. j.at # 0 /\ log'[j.at].by = d => \A f \in Device \ {d} : <<f, j.at>> \notin mail' /\ j.at \notin HandledOn(f)'
      BY <1>2, <1>4, <3>2
    <3> QED BY <1>1, <3>2, <3>3, <3>4, <3>5
  <2>6. /\ k.at # 0 => k.at \in HandledOn(d)'
        /\ At(k.snap) \subseteq HandledOn(d)'
        /\ k.phase \in {"bump", "put"} => k.at \notin At(rows'[d]) /\ \A i \in jobs'[d] : k.at \notin At(i.snap)
        /\ k.phase = "apply" /\ log'[k.at].kind = "edit" => \A r \in k.snap : ~r.dead
        /\ k.at # 0 /\ log'[k.at].by = d => \A f \in Device \ {d} : <<f, k.at>> \notin mail' /\ k.at \notin HandledOn(f)'
    <3>1. \A i \in jobs'[d] : t \notin At(i.snap)
      BY <1>2, <1>3, <2>4 DEF OnceAt
    <3>2. log'[t].by = d => \A f \in Device \ {d} : <<f, t>> \notin mail' /\ t \notin HandledOn(f)'
      BY <1>2, <1>4 DEF Copy
    <3> QED BY <1>1, <1>2, <2>4, <3>1, <3>2
  <2> QED BY <1>3, <2>1, <2>3, <2>4, <2>5, <2>6 DEF OnceAt, Own
<1>8. ASSUME NEW e \in Device \ {d} PROVE OnceAt(e)'
  <2>1. rows'[e] = rows[e] /\ jobs'[e] = jobs[e] /\ \A f \in Device \ {d} : handled'[f] = handled[f]
    BY DEF Away
  <2>2. \A j \in jobs[e] : j.at # 0 /\ log[j.at].by = e /\ j.at \in HandledOn(d)' => j.at \in HandledOn(d)
    BY <1>1, <1>2
  <2> QED BY <1>2, <2>1, <2>2, OnceAway
<1> QED BY <1>6, <1>7, <1>8 DEF OnceInv


\* The copies a job places, of its own event, when it ends.
Places(d, j) == Own(d, j) /\ j.at # 0 /\ \E S \in SUBSET (Device \ {d}) : mail' = mail \cup (S \X {j.at})

\* A job goes on as k, or ends and may place copies.
LEMMA OnceGoesOn ==
  ASSUME ChatTypeOK, KnownInv, OnceInv, NEW d \in Device, Away(d), NEW j \in jobs[d], NEW k, UNCHANGED <<log, handled>>,
         k.at = j.at, At(k.snap) \subseteq At(j.snap) \cup At(rows[d]),
         k.phase = "apply" /\ log[j.at].kind = "edit" => \A r \in k.snap : ~r.dead,
         k.phase = "bump" => FALSE, k.phase = "put" => j.phase = "bump" /\ rows'[d] = rows[d] /\ k.snap = j.snap,
         \/ Advance(d, j, k) /\ UNCHANGED mail
         \/ Finish(d, j) /\ (UNCHANGED mail \/ Places(d, j)),
         NEW X \in SUBSET {j.at}, j.at = 0 => X = {}, At(rows'[d]) \subseteq At(rows[d]) \cup At(j.snap) \cup X
  PROVE  OnceInv'
<1>1. OnceAt(d) /\ j \in Job
  BY JobFacts DEF OnceInv
<1>2. \A e \in Device : HandledOn(e)' = HandledOn(e)
  BY DEF HandledOn
<1>3. jobs'[d] \subseteq (jobs[d] \ {j}) \cup {k}
  BY DEF Advance, Finish, ChatTypeOK
<1>4. \A i \in jobs[d] : i \in Job /\ (i.phase \in {"bump", "put", "apply"} => i.at # 0)
  BY JobFacts DEF Fits
<1>5. \A i \in jobs[d] : i # j => i.at # j.at
  BY <1>1 DEF OnceAt
<1>6. \A e \in Device : \A x : <<e, x>> \in mail' => <<e, x>> \in mail \/ (e # d /\ x = j.at /\ j.at # 0 /\ log[j.at].by = d /\ Finish(d, j))
  BY DEF Places, Own
<1>7. j.at # 0 /\ log[j.at].by = d => \A e \in Device \ {d} : <<e, j.at>> \notin mail /\ j.at \notin HandledOn(e)
  BY <1>1 DEF OnceAt, Own
<1>8. ASSUME NEW e \in Device, NEW x \in HandledOn(e) PROVE <<e, x>> \notin mail'
  <2>1. <<e, x>> \notin mail
    BY <1>8 DEF OnceInv, OnceAt
  <2> QED BY <1>6, <1>7, <2>1
<1>9. OnceAt(d)'
  <2>1. \A x \in HandledOn(d)' : <<d, x>> \notin mail'
    BY <1>2, <1>8
  <2>2. \A i, l \in jobs'[d] : i.at = l.at => i = l
    BY <1>1, <1>3, <1>5 DEF OnceAt
  <2>3. At(j.snap) \subseteq HandledOn(d) /\ At(rows[d]) \subseteq HandledOn(d) /\ (j.at # 0 => j.at \in HandledOn(d))
    BY <1>1 DEF OnceAt
  <2>4. At(rows'[d]) \subseteq HandledOn(d)' /\ At(k.snap) \subseteq HandledOn(d)'
    BY <1>2, <2>3
  <2>5. ASSUME NEW i \in jobs[d], i # j, i \in jobs'[d]
        PROVE  /\ i.at # 0 => i.at \in HandledOn(d)'
               /\ At(i.snap) \subseteq HandledOn(d)'
               /\ i.phase \in {"bump", "put"} => i.at \notin At(rows'[d]) /\ \A l \in jobs'[d] : i.at \notin At(l.snap)
               /\ i.phase = "apply" /\ log'[i.at].kind = "edit" => \A r \in i.snap : ~r.dead
               /\ i.at # 0 /\ log'[i.at].by = d => \A f \in Device \ {d} : <<f, i.at>> \notin mail' /\ i.at \notin HandledOn(f)'
    <3>1. /\ i.at # 0 => i.at \in HandledOn(d)
          /\ At(i.snap) \subseteq HandledOn(d)
          /\ i.phase \in {"bump", "put"} => i.at \notin At(rows[d]) /\ \A l \in jobs[d] : i.at \notin At(l.snap)
          /\ i.phase = "apply" /\ log[i.at].kind = "edit" => \A r \in i.snap : ~r.dead
          /\ i.at # 0 /\ log[i.at].by = d => \A f \in Device \ {d} : <<f, i.at>> \notin mail /\ i.at \notin HandledOn(f)
      BY <1>1 DEF OnceAt, Own
    <3>2. i.at # j.at
      BY <1>5, <2>5
    <3>3. i.phase \in {"bump", "put"} => i.at \notin At(rows'[d]) /\ i.at \notin At(k.snap) /\ \A l \in jobs'[d] : i.at \notin At(l.snap)
      BY <1>3, <3>1, <3>2
    <3>4. i.at # 0 /\ log'[i.at].by = d => \A f \in Device \ {d} : <<f, i.at>> \notin mail' /\ i.at \notin HandledOn(f)'
      BY <1>2, <1>6, <3>1, <3>2
    <3> QED BY <1>2, <3>1, <3>3, <3>4
  <2>6. ASSUME k \in jobs'[d], ~(k \in jobs[d] /\ k # j)
        PROVE  /\ k.at # 0 => k.at \in HandledOn(d)'
               /\ At(k.snap) \subseteq HandledOn(d)'
               /\ k.phase \in {"bump", "put"} => k.at \notin At(rows'[d]) /\ \A l \in jobs'[d] : k.at \notin At(l.snap)
               /\ k.phase = "apply" /\ log'[k.at].kind = "edit" => \A r \in k.snap : ~r.dead
               /\ k.at # 0 /\ log'[k.at].by = d => \A f \in Device \ {d} : <<f, k.at>> \notin mail' /\ k.at \notin HandledOn(f)'
    <3>1. ~Finish(d, j)
      BY <2>6 DEF Finish, ChatTypeOK
    <3>2. k.phase \in {"bump", "put"} => k.at \notin At(rows'[d]) /\ \A l \in jobs'[d] : k.at \notin At(l.snap)
      <4>1. SUFFICES ASSUME k.phase = "put" PROVE k.at \notin At(rows'[d]) /\ \A l \in jobs'[d] : k.at \notin At(l.snap)
        OBVIOUS
      <4>2. j.at \notin At(rows[d]) /\ \A l \in jobs[d] : j.at \notin At(l.snap)
        BY <1>1, <4>1 DEF OnceAt
      <4> QED BY <1>3, <4>1, <4>2
    <3>3. k.at # 0 /\ log'[k.at].by = d => \A f \in Device \ {d} : <<f, k.at>> \notin mail' /\ k.at \notin HandledOn(f)'
      BY <1>2, <1>6, <1>7, <3>1
    <3> QED BY <1>2, <2>3, <2>4, <3>2, <3>3
  <2>7. \A i \in jobs'[d] : (i \in jobs[d] /\ i # j) \/ (i = k /\ ~(k \in jobs[d] /\ k # j))
    BY <1>3
  <2> QED BY <2>1, <2>2, <2>4, <2>5, <2>6, <2>7 DEF OnceAt, Own
<1>10. ASSUME NEW e \in Device \ {d} PROVE OnceAt(e)'
  <2>1. rows'[e] = rows[e] /\ jobs'[e] = jobs[e] /\ \A f \in Device : handled'[f] = handled[f]
    BY DEF Away
  <2>2. \A i \in jobs[e] : i.at # 0 => log'[i.at] = log[i.at]
    OBVIOUS
  <2>3. \A t \in HandledOn(e) : <<e, t>> \notin mail'
    BY <1>8
  <2>4. \A i \in jobs[e], f \in Device : i.at # 0 /\ log[i.at].by = e /\ <<f, i.at>> \in mail' => <<f, i.at>> \in mail
    BY <1>6
  <2>5. \A i \in jobs[e] : i.at # 0 /\ log[i.at].by = e /\ i.at \in HandledOn(d)' => i.at \in HandledOn(d)
    BY <1>2
  <2> QED BY <2>1, <2>2, <2>3, <2>4, <2>5, OnceAway
<1>11. \A e \in Device : \A t \in 1..Len(log') : log'[t].by = e => t \in HandledOn(e)'
  BY <1>2 DEF OnceInv
<1> QED BY <1>9, <1>10, <1>11 DEF OnceInv

\* A device deletes for itself: the event is made, handled and sent in one step.
LEMMA OnceMarkSelf ==
  ASSUME ChatTypeOK, KnownInv, OnceInv, Grown, NEW d \in Device, Away(d), NEW j \in jobs[d], MarkSelf(d, j)
  PROVE  OnceInv'
<1>1. Fresh(d, Now) /\ Now \in Stamp /\ Now \in Nat
  <2>1. Create("wipeSelf", d, 0) /\ "wipeSelf" \in Kind /\ 0 \in Nat
    BY DEF MarkSelf, Kind
  <2> QED BY <2>1, Created DEF Fresh, Now
<1>2. PICK t : t = Now
  OBVIOUS
<1>3. HandledOn(d)' = HandledOn(d) \cup {t}
  BY <1>1, <1>2, HandlesOneMore DEF MarkSelf
<1>4. Fresh(d, t)
  BY <1>1, <1>2
<1>5. /\ t # 0 /\ t \notin HandledOn(d)
      /\ \A e \in Device : \A i \in jobs[e] : i.at # 0 => log'[i.at] = log[i.at]
      /\ \A e \in Device : \A i \in jobs[e] : i.at # 0 /\ log[i.at].by = e => i.at # t
      /\ \A e \in Device : <<e, t>> \notin mail /\ t \notin HandledOn(e)
      /\ \A x \in 1..Len(log') : (x \in 1..Len(log) /\ log'[x].by = log[x].by) \/ (x = t /\ log'[x].by = d)
  BY <1>4, OnceFacts
<1>6. rows' = rows /\ jobs'[d] = jobs[d] \ {j} /\ OnceAt(d)
  BY DEF MarkSelf, Finish, ChatTypeOK, OnceInv
<1>7. \A e \in Device \ {d} : HandledOn(e)' = HandledOn(e)
  BY DEF Away, HandledOn
<1>8. \A e \in Device : \A x : <<e, x>> \in mail' => <<e, x>> \in mail \/ (e # d /\ x = t)
  BY <1>2 DEF MarkSelf, Broadcast, Others
<1>9. OnceAt(d)'
  <2>1. \A x \in HandledOn(d)' : <<d, x>> \notin mail'
    BY <1>3, <1>5, <1>6, <1>8 DEF OnceAt
  <2>2. (\A i, l \in jobs'[d] : i.at = l.at => i = l) /\ At(rows'[d]) \subseteq HandledOn(d)'
    BY <1>3, <1>6 DEF OnceAt
  <2>3. ASSUME NEW i \in jobs'[d]
        PROVE  /\ i.at # 0 => i.at \in HandledOn(d)'
               /\ At(i.snap) \subseteq HandledOn(d)'
               /\ i.phase \in {"bump", "put"} => i.at \notin At(rows'[d]) /\ \A l \in jobs'[d] : i.at \notin At(l.snap)
               /\ i.phase = "apply" /\ log'[i.at].kind = "edit" => \A r \in i.snap : ~r.dead
               /\ i.at # 0 /\ log'[i.at].by = d => \A f \in Device \ {d} : <<f, i.at>> \notin mail' /\ i.at \notin HandledOn(f)'
    <3>1. i \in jobs[d]
      BY <1>6
    <3>2. /\ i.at # 0 => i.at \in HandledOn(d)
          /\ At(i.snap) \subseteq HandledOn(d)
          /\ i.phase \in {"bump", "put"} => i.at \notin At(rows[d]) /\ \A l \in jobs[d] : i.at \notin At(l.snap)
          /\ i.phase = "apply" /\ log[i.at].kind = "edit" => \A r \in i.snap : ~r.dead
          /\ i.at # 0 /\ log[i.at].by = d => \A f \in Device \ {d} : <<f, i.at>> \notin mail /\ i.at \notin HandledOn(f)
      BY <1>6, <3>1 DEF OnceAt, Own
    <3>3. i.phase \in {"bump", "put", "apply"} => i.at # 0
      BY <3>1, JobFacts DEF Fits
    <3>4. i.at # 0 /\ log'[i.at].by = d => \A f \in Device \ {d} : <<f, i.at>> \notin mail' /\ i.at \notin HandledOn(f)'
      BY <1>5, <1>7, <1>8, <3>1, <3>2
    <3>5. i.phase = "apply" /\ log'[i.at].kind = "edit" => \A r \in i.snap : ~r.dead
      BY <1>5, <3>1, <3>2, <3>3
    <3>6. i.phase \in {"bump", "put"} => i.at \notin At(rows'[d]) /\ \A l \in jobs'[d] : i.at \notin At(l.snap)
      BY <1>6, <3>2
    <3> QED BY <1>3, <3>2, <3>4, <3>5, <3>6
  <2> QED BY <2>1, <2>2, <2>3 DEF OnceAt, Own
<1>10. ASSUME NEW e \in Device \ {d} PROVE OnceAt(e)'
  <2>1. rows'[e] = rows[e] /\ jobs'[e] = jobs[e] /\ \A f \in Device \ {d} : handled'[f] = handled[f]
    BY DEF Away
  <2>2. \A i \in jobs[e] : i.at # 0 /\ log[i.at].by = e /\ i.at \in HandledOn(d)' => i.at \in HandledOn(d)
    BY <1>3, <1>5
  <2>3. \A i \in jobs[e], f \in Device : i.at # 0 /\ log[i.at].by = e /\ <<f, i.at>> \in mail' => <<f, i.at>> \in mail
    BY <1>5, <1>8
  <2>4. \A x \in HandledOn(e) : <<e, x>> \in mail' => <<e, x>> \in mail
    BY <1>5, <1>8
  <2> QED BY <1>5, <2>1, <2>2, <2>3, <2>4, OnceAway
<1>11. ASSUME NEW e \in Device, NEW x \in 1..Len(log'), log'[x].by = e PROVE x \in HandledOn(e)'
  <2>1. CASE x = t /\ log'[x].by = d
    BY <1>3, <1>11, <2>1
  <2>2. CASE x \in 1..Len(log) /\ log'[x].by = log[x].by
    <3>1. x \in HandledOn(e)
      BY <1>11, <2>2 DEF OnceInv
    <3> QED BY <1>3, <1>7, <3>1
  <2> QED BY <1>5, <2>1, <2>2
<1> QED BY <1>9, <1>10, <1>11 DEF OnceInv


\* Each call, arrival and step of a job keeps it.
LEMMA OnceCall ==
  ASSUME ChatTypeOK, KnownInv, OnceInv, Grown, NEW d \in Device, Away(d), Call(d)
  PROVE  OnceInv'
<1> USE DEF store, chatHistory
<1>1. ASSUME NEW kind \in Kind, NEW of \in Nat, Create(kind, d, of), kind \in {"edit", "delete"} => of <= Len(log)
      PROVE  Fresh(d, Now) /\ Now \in Stamp /\ log'[Now].kind = kind /\ <<d, Now>> \notin mail
  <2>1. Fresh(d, Now) /\ Now \in Stamp /\ log'[Now].kind = kind
    BY <1>1, Created DEF Fresh, Now
  <2> QED BY <2>1, OnceFacts
<1>2. CASE SendText(d)
  <2>1. PICK k : k = NewJob(Now, "bump", watermark[d], {})
    OBVIOUS
  <2>2. Create("text", d, 0) /\ "text" \in Kind /\ 0 \in Nat
    BY <1>2 DEF SendText, Kind
  <2>3. Fresh(d, Now) /\ Now \in Stamp /\ <<d, Now>> \notin mail
    BY <1>1, <2>2
  <2>4. jobs' = [jobs EXCEPT ![d] = @ \cup {k}] /\ Began(d, Now) /\ UNCHANGED <<mail, rows>>
    BY <1>2, <2>1 DEF SendText
  <2>5. k.at = Now /\ k.phase = "bump" /\ At(k.snap) = {}
    BY <2>1, JobIs DEF At
  <2> QED BY <2>3, <2>4, <2>5, OnceBegins
<1>3. ASSUME NEW kind \in {"edit", "delete"}, NEW t \in Stamp, ChangeMessage(d, kind, t) PROVE OnceInv'
  <2>1. PICK k : k = NewJob(Now, "ship", 0, {})
    OBVIOUS
  <2>2. Create(kind, d, t) /\ kind \in Kind /\ t \in At(rows[d])
    BY <1>3 DEF ChangeMessage, Kind
  <2>3. t \in Nat /\ t <= Len(log)
    BY <2>2, Stamps, RowTypes DEF At
  <2>4. Fresh(d, Now) /\ Now \in Stamp /\ <<d, Now>> \notin mail
    BY <1>1, <2>2, <2>3
  <2>5. jobs' = [jobs EXCEPT ![d] = @ \cup {k}] /\ Began(d, Now) /\ UNCHANGED <<mail, rows>>
    BY <1>3, <2>1 DEF ChangeMessage
  <2>6. k.at = Now /\ k.phase = "ship" /\ At(k.snap) = {}
    BY <2>1, JobIs DEF At
  <2> QED BY <2>4, <2>5, <2>6, OnceBegins
<1>4. CASE DeleteForEveryone(d)
  <2>1. PICK k : k = NewJob(Now, "wipe", 0, rows[d])
    OBVIOUS
  <2>2. Create("wipeAll", d, 0) /\ "wipeAll" \in Kind /\ 0 \in Nat
    BY <1>4 DEF DeleteForEveryone, Kind
  <2>3. Fresh(d, Now) /\ Now \in Stamp /\ <<d, Now>> \notin mail
    BY <1>1, <2>2
  <2>4. jobs' = [jobs EXCEPT ![d] = @ \cup {k}] /\ Began(d, Now) /\ UNCHANGED <<mail, rows>>
    BY <1>4, <2>1 DEF DeleteForEveryone
  <2>5. k.at = Now /\ k.phase = "wipe" /\ k.snap = rows[d]
    BY <2>1, JobIs
  <2> QED BY <2>3, <2>4, <2>5, OnceBegins
<1>5. CASE DeleteForMe(d)
  <2>1. PICK k : k = NewJob(0, "wipe", 0, rows[d])
    OBVIOUS
  <2>2. k.at = 0 /\ k.phase = "wipe" /\ k.snap = rows[d]
    BY <2>1, JobIs
  <2>3. jobs' = [jobs EXCEPT ![d] = @ \cup {k}] /\ UNCHANGED <<log, mail, rows, handled>> /\ \A j \in jobs[d] : j.at # 0
    BY <1>5, <2>1 DEF DeleteForMe
  <2>4. jobs'[d] = jobs[d] \cup {k} /\ \A e \in Device \ {d} : jobs'[e] = jobs[e]
    BY <2>3 DEF ChatTypeOK
  <2>5. \A e \in Device : HandledOn(e)' = HandledOn(e)
    BY <2>3 DEF HandledOn
  <2>6. OnceAt(d)'
    <3>1. OnceAt(d)
      BY DEF OnceInv
    <3>2. \A j \in jobs[d] : j.phase \in {"bump", "put"} => j.at \notin At(k.snap)
      BY <2>2, <3>1 DEF OnceAt
    <3>3. \A j, i \in jobs'[d] : j.at = i.at => j = i
      BY <2>2, <2>3, <2>4, <3>1 DEF OnceAt
    <3>4. ASSUME NEW j \in jobs'[d]
          PROVE  /\ j.at # 0 => j.at \in HandledOn(d)'
                 /\ At(j.snap) \subseteq HandledOn(d)'
                 /\ j.phase \in {"bump", "put"} => j.at \notin At(rows[d]) /\ \A i \in jobs'[d] : j.at \notin At(i.snap)
                 /\ j.phase = "apply" /\ log[j.at].kind = "edit" => \A r \in j.snap : ~r.dead
                 /\ j.at # 0 /\ Own(d, j) => \A e \in Device \ {d} : <<e, j.at>> \notin mail /\ j.at \notin HandledOn(e)'
      BY <2>2, <2>4, <2>5, <3>1, <3>2 DEF OnceAt
    <3> QED BY <2>3, <2>5, <3>1, <3>3, <3>4 DEF OnceAt, Own
  <2>7. ASSUME NEW e \in Device \ {d} PROVE OnceAt(e)'
    <3>1. OnceAt(e) /\ jobs'[e] = jobs[e]
      BY <2>4 DEF OnceInv
    <3> QED BY <2>3, <2>5, <3>1 DEF OnceAt, Own
  <2> QED BY <2>3, <2>5, <2>6, <2>7 DEF OnceInv
<1> QED BY <1>2, <1>3, <1>4, <1>5 DEF Call

LEMMA OnceInbound ==
  ASSUME ChatTypeOK, KnownInv, OnceInv, Grown, NEW d \in Device, Away(d), NEW t \in Stamp, Inbound(d, t)
  PROVE  OnceInv'
<1> USE DEF store, chatHistory
<1>1. ASSUME NEW kind, Arrives(d, t, kind)
      PROVE  Copy(d, t) /\ Began(d, t) /\ mail' \subseteq mail /\ <<d, t>> \notin mail' /\ log[t].kind = kind /\ log' = log
  BY <1>1, Arrived DEF Copy, Arrives
<1>2. CASE PeerText(d, t)
  <2>1. PICK k : k = NewJob(t, "bump", watermark[d], {})
    OBVIOUS
  <2>2. Arrives(d, t, "text") /\ jobs' = [jobs EXCEPT ![d] = @ \cup {k}] /\ UNCHANGED rows
    BY <1>2, <2>1 DEF PeerText
  <2>3. k.at = t /\ k.phase = "bump" /\ At(k.snap) = {}
    BY <2>1, JobIs DEF At
  <2> QED BY <1>1, <2>2, <2>3, OnceBegins
<1>3. CASE EchoText(d, t)
  <2>1. PICK k : k = NewJob(t, "index", 0, {})
    OBVIOUS
  <2>2. Arrives(d, t, "text") /\ jobs' = [jobs EXCEPT ![d] = @ \cup {k}] /\ rows'[d] = Store(rows[d], {Text(t)})
    BY <1>3, <2>1 DEF EchoText, ChatTypeOK
  <2>3. k.at = t /\ k.phase = "index" /\ At(k.snap) = {}
    BY <2>1, JobIs DEF At
  <2>4. At(rows'[d]) \subseteq At(rows[d]) \cup {t}
    <3>1. \A r \in Store(rows[d], {Text(t)}) : r \in rows[d] \/ r = Text(t)
      BY StoreAll
    <3>2. Text(t).at = t
      BY RowTypes
    <3>3. \A r \in rows'[d] : r \in rows[d] \/ r.at = t
      BY <2>2, <3>1, <3>2
    <3> QED BY <3>3 DEF At
  <2> QED BY <1>1, <2>2, <2>3, <2>4, OnceBegins
<1>4. ASSUME NEW kind, Changed(d, t, kind) PROVE OnceInv'
  <2>1. PICK k : k = NewJob(t, "apply", 0, Target(d, t))
    OBVIOUS
  <2>2. Arrives(d, t, kind) /\ jobs' = [jobs EXCEPT ![d] = @ \cup {k}] /\ UNCHANGED rows
    BY <1>4, <2>1 DEF Changed
  <2>3. k.at = t /\ k.phase = "apply" /\ k.snap = Target(d, t)
    BY <2>1, JobIs
  <2>4. At(k.snap) \subseteq At(rows[d]) /\ (log[t].kind = "edit" => \A r \in k.snap : ~r.dead)
    BY <2>3 DEF Target, Editable, Deletable, At
  <2> QED BY <1>1, <2>2, <2>3, <2>4, OnceBegins
<1>5. CASE PeerWipe(d, t)
  <2>1. PICK k : k = NewJob(t, "guard", watermark[d], {})
    OBVIOUS
  <2>2. Arrives(d, t, "wipeAll") /\ jobs' = [jobs EXCEPT ![d] = @ \cup {k}] /\ UNCHANGED rows
    BY <1>5, <2>1 DEF PeerWipe
  <2>3. k.at = t /\ k.phase = "guard" /\ At(k.snap) = {}
    BY <2>1, JobIs DEF At
  <2> QED BY <1>1, <2>2, <2>3, OnceBegins
<1>6. CASE EchoWipe(d, t)
  <2>1. PICK k : k = NewJob(t, "wipe", 0, rows[d])
    OBVIOUS
  <2>2. /\ Arrives(d, t, "wipeAll") \/ Arrives(d, t, "wipeSelf")
        /\ jobs' = [jobs EXCEPT ![d] = @ \cup {k}] /\ UNCHANGED rows
    BY <1>6, <2>1 DEF EchoWipe
  <2>3. k.at = t /\ k.phase = "wipe" /\ k.snap = rows[d]
    BY <2>1, JobIs
  <2>4. Copy(d, t) /\ Began(d, t) /\ mail' \subseteq mail /\ <<d, t>> \notin mail'
    BY <1>1, <2>2
  <2> QED BY <2>2, <2>3, <2>4, OnceBegins
<1> QED BY <1>2, <1>3, <1>4, <1>5, <1>6 DEF Inbound

LEMMA OnceJob ==
  ASSUME ChatTypeOK, KnownInv, OnceInv, Grown, NEW d \in Device, Away(d), NEW j \in jobs[d], Step(d, j)
  PROVE  OnceInv'
<1> USE DEF store, chatHistory
<1>1. /\ j \in Job /\ j.at \in Nat /\ Fits(log, j) /\ {} \in SUBSET {j.at}
      /\ At({}) = {} /\ At(j.snap) \subseteq At(j.snap) \cup At(rows[d])
      /\ j.phase = "apply" /\ log[j.at].kind = "edit" => \A r \in j.snap : ~r.dead
  <2>1. j \in Job /\ j.at \in Nat /\ Fits(log, j)
    BY JobFacts
  <2>2. j.phase = "apply" /\ log[j.at].kind = "edit" => \A r \in j.snap : ~r.dead
    BY DEF OnceInv, OnceAt
  <2> QED BY <2>1, <2>2 DEF At
<1>2. ASSUME NEW kind, Broadcast(d, j.at, kind), Own(d, j), j.at # 0 PROVE Places(d, j)
  BY <1>2 DEF Broadcast, Others, Places
<1>3. CASE Bump(d, j)
  <2> DEFINE k == [j EXCEPT !.phase = "put"]
  <2>1. k.at = j.at /\ k.phase = "put" /\ k.snap = j.snap
    BY <1>1 DEF Job
  <2>2. Advance(d, j, k) /\ UNCHANGED <<log, handled, rows, mail>> /\ j.phase = "bump"
    BY <1>3 DEF Bump
  <2> HIDE DEF k
  <2> QED BY <1>1, <2>1, <2>2, OnceGoesOn
<1>4. CASE Put(d, j)
  <2> DEFINE k == [j EXCEPT !.phase = "index"]
             X == {j.at}
  <2>1. k.at = j.at /\ k.phase = "index" /\ k.snap = j.snap
    BY <1>1 DEF Job
  <2>2. Advance(d, j, k) /\ UNCHANGED <<log, handled, mail>> /\ rows'[d] = Store(rows[d], {Text(j.at)}) /\ j.phase \in {"bump", "put"}
    BY <1>4 DEF Put, ChatTypeOK
  <2>3. j.at # 0 /\ j.at \in Stamp
    BY <2>2, JobFacts DEF Fits
  <2>4. At(rows'[d]) \subseteq At(rows[d]) \cup At(j.snap) \cup X
    <3>1. \A r \in Store(rows[d], {Text(j.at)}) : r \in rows[d] \/ r = Text(j.at)
      BY StoreAll
    <3>2. Text(j.at).at = j.at
      BY DEF Text
    <3> QED BY <2>2, <3>1, <3>2 DEF At
  <2>5. X \in SUBSET {j.at}
    OBVIOUS
  <2> HIDE DEF k, X
  <2> QED BY <1>1, <2>1, <2>2, <2>3, <2>4, <2>5, OnceGoesOn
<1>5. CASE Index(d, j)
  <2>1. Finish(d, j) /\ UNCHANGED <<log, handled, rows>> /\ j.phase = "index"
    BY <1>5 DEF Index
  <2>2. UNCHANGED mail \/ Places(d, j)
    BY <1>1, <1>2, <1>5 DEF Index, Fits
  <2> QED BY <1>1, <2>1, <2>2, OnceGoesOn
<1>6. CASE Ship(d, j)
  <2>1. PICK k : k = [j EXCEPT !.phase = "apply", !.snap = Target(d, j.at)]
    OBVIOUS
  <2>2. k.at = j.at /\ k.phase = "apply" /\ k.snap = Target(d, j.at)
    BY <1>1, <2>1 DEF Job
  <2>3. Advance(d, j, k) /\ UNCHANGED <<log, handled, rows, mail>>
    BY <1>6, <2>1 DEF Ship
  <2>4. At(k.snap) \subseteq At(j.snap) \cup At(rows[d]) /\ (log[j.at].kind = "edit" => \A r \in k.snap : ~r.dead)
    BY <2>2 DEF Target, Editable, Deletable, At
  <2> QED BY <1>1, <2>2, <2>3, <2>4, OnceGoesOn
<1>7. CASE Apply(d, j)
  <2>1. Finish(d, j) /\ UNCHANGED <<log, handled>> /\ j.phase = "apply" /\ rows'[d] = Store(rows[d], {Change(r, j.at) : r \in j.snap})
    BY <1>7 DEF Apply, ChatTypeOK
  <2>2. UNCHANGED mail \/ Places(d, j)
    BY <1>1, <1>2, <1>7 DEF Apply, Fits
  <2>3. \A r \in j.snap : Change(r, j.at).at = r.at
    BY JobFacts, RowTypes DEF Change
  <2>4. At(rows'[d]) \subseteq At(rows[d]) \cup At(j.snap)
    <3>1. \A r \in rows'[d] : r \in rows[d] \/ \E s \in j.snap : r = Change(s, j.at)
      BY <2>1, StoreAll
    <3> QED BY <2>3, <3>1 DEF At
  <2> QED BY <1>1, <2>1, <2>2, <2>4, OnceGoesOn
<1>8. CASE GuardDrops(d, j)
  <2>1. Finish(d, j) /\ UNCHANGED <<log, handled, rows, mail>> /\ j.phase = "guard"
    BY <1>8 DEF GuardDrops
  <2> QED BY <1>1, <2>1, OnceGoesOn
<1>9. CASE GuardAccepts(d, j)
  <2>1. PICK k : k = [j EXCEPT !.phase = "wipe", !.snap = rows[d]]
    OBVIOUS
  <2>2. k.at = j.at /\ k.phase = "wipe" /\ k.snap = rows[d]
    BY <1>1, <2>1 DEF Job
  <2>3. Advance(d, j, k) /\ UNCHANGED <<log, handled, rows, mail>>
    BY <1>9, <2>1 DEF GuardAccepts
  <2> QED BY <1>1, <2>2, <2>3, OnceGoesOn
<1>10. CASE Wipe(d, j)
  <2> DEFINE k == [j EXCEPT !.phase = "unindex", !.snap = {}]
  <2>1. k.at = j.at /\ k.phase = "unindex" /\ k.snap = {}
    BY <1>1 DEF Job
  <2>2. Advance(d, j, k) /\ UNCHANGED <<log, handled, mail>> /\ rows'[d] \subseteq rows[d]
    BY <1>10 DEF Wipe, ChatTypeOK
  <2> HIDE DEF k
  <2>3. At(rows'[d]) \subseteq At(rows[d])
    BY <2>2 DEF At
  <2> QED BY <1>1, <2>1, <2>2, <2>3, OnceGoesOn
<1>11. CASE Unindex(d, j)
  <2> DEFINE k == [j EXCEPT !.phase = "mark"]
  <2>1. k.at = j.at /\ k.phase = "mark" /\ k.snap = j.snap
    BY <1>1 DEF Job
  <2>2. Advance(d, j, k) /\ UNCHANGED <<log, handled, rows, mail>>
    BY <1>11 DEF Unindex
  <2> HIDE DEF k
  <2> QED BY <1>1, <2>1, <2>2, OnceGoesOn
<1>12. CASE Mark(d, j)
  <2>1. Finish(d, j) /\ UNCHANGED <<log, handled, rows>> /\ j.phase = "mark"
    BY <1>12 DEF Mark
  <2>2. UNCHANGED mail \/ Places(d, j)
    BY <1>2, <1>12 DEF Mark
  <2> QED BY <1>1, <2>1, <2>2, OnceGoesOn
<1>13. CASE MarkSelf(d, j)
  BY <1>13, OnceMarkSelf
<1> QED BY <1>3, <1>4, <1>5, <1>6, <1>7, <1>8, <1>9, <1>10, <1>11, <1>12, <1>13 DEF Step

LEMMA OnceHolds == ChatSpec => []OnceInv
<1>1. ChatInit => OnceInv
  <2> SUFFICES ASSUME ChatInit PROVE OnceInv
    OBVIOUS
  <2>1. log = <<>> /\ 1..Len(log) = {} /\ mail = {} /\ \A d \in Device : jobs[d] = {} /\ rows[d] = {}
    BY EmptySeq DEF ChatInit
  <2> QED BY <2>1 DEF OnceInv, OnceAt, At
<1>2. ChatInv /\ OnceInv /\ [ChatNext]_chatVars => OnceInv'
  <2> SUFFICES ASSUME ChatInv, OnceInv, [ChatNext]_chatVars PROVE OnceInv'
    OBVIOUS
  <2>1. ChatTypeOK /\ KnownInv
    BY DEF ChatInv
  <2>2. ASSUME NEW d \in Device, Call(d) \/ (\E t \in Stamp : Inbound(d, t)) \/ (\E j \in jobs[d] : Step(d, j)) PROVE OnceInv'
    <3>1. Away(d) /\ Grown
      BY <2>1, <2>2, Elsewhere
    <3> QED BY <2>1, <2>2, <3>1, OnceCall, OnceInbound, OnceJob
  <2>3. CASE UNCHANGED chatVars
    <3>1. UNCHANGED <<log, mail, rows, jobs, handled>>
      BY <2>3 DEF chatVars
    <3>2. \A d \in Device : HandledOn(d)' = HandledOn(d)
      BY <3>1 DEF HandledOn
    <3>3. ASSUME NEW d \in Device PROVE OnceAt(d)'
      <4>1. OnceAt(d)
        BY DEF OnceInv
      <4> QED BY <3>1, <3>2, <4>1 DEF OnceAt, Own
    <3> QED BY <3>1, <3>2, <3>3 DEF OnceInv
  <2> QED BY <2>2, <2>3 DEF ChatNext
<1> QED BY <1>1, <1>2, ChatHolds, PTL DEF ChatSpec

\* A row appears only as a new text, and a tombstone stays as it is until it is
\* removed, whatever overlaps and in whatever order the events come, except by
\* way of a row that was written or removed since applyEdit() or applyDelete()
\* read it (message_store.ts 144-157, 168-177).
THEOREM OnlyStaleRowsReturn == ChatSpec => NothingReturns
<1> DEFINE Kept(d) ==
             ~Stale(d) => \A r \in rows'[d] :
               \/ r = Text(r.at) /\ r.at \notin At(rows[d])
               \/ \E s \in rows[d] : s.at = r.at /\ (s.dead => r = s)
<1>1. ASSUME ChatInv, OnceInv, [ChatNext]_chatVars, NEW e \in Device PROVE Kept(e)
  <2>1. ChatTypeOK /\ KnownInv
    BY <1>1 DEF ChatInv
  <2>2. ASSUME rows'[e] \subseteq rows[e] PROVE Kept(e)
    BY <2>2
  <2>3. ASSUME NEW t \in Stamp, t \notin At(rows[e]), rows'[e] = Store(rows[e], {Text(t)}) PROVE Kept(e)
    <3>1. \A r \in rows'[e] : r \in rows[e] \/ r = Text(t)
      BY <2>3, StoreAll
    <3>2. Text(t).at = t
      BY DEF Text
    <3> QED BY <2>3, <3>1, <3>2
  <2>4. ASSUME NEW j \in jobs[e], Apply(e, j) PROVE Kept(e)
    <3> SUFFICES ASSUME ~Stale(e), NEW r \in rows'[e] PROVE \E s \in rows[e] : s.at = r.at /\ (s.dead => r = s)
      OBVIOUS
    <3>1. j.phase = "apply" /\ rows'[e] = Store(rows[e], {Change(s, j.at) : s \in j.snap})
      BY <2>1, <2>4 DEF Apply, ChatTypeOK
    <3>2. j.snap \subseteq rows[e] /\ j.at \in Nat /\ log[j.at].kind \in {"edit", "delete"}
      BY <2>1, <3>1, JobFacts DEF Stale, Fits
    <3>3. r \in rows[e] \/ \E s \in j.snap : r = Change(s, j.at)
      BY <3>1, StoreAll
    <3>4. ASSUME NEW s \in j.snap, r = Change(s, j.at) PROVE s \in rows[e] /\ s.at = r.at /\ (s.dead => r = s)
      <4>1. s \in Row /\ s \in rows[e]
        BY <2>1, <3>2, RowTypes
      <4>2. CASE log[j.at].kind = "edit"
        <5>1. ~s.dead /\ r = [s EXCEPT !.edit = j.at]
          BY <1>1, <3>1, <3>4, <4>2 DEF OnceInv, OnceAt, Change
        <5> QED BY <2>1, <3>2, <4>1, <5>1, RowTypes
      <4>3. CASE log[j.at].kind = "delete"
        <5>1. r = [s EXCEPT !.dead = TRUE]
          BY <3>4, <4>3 DEF Change
        <5>2. s.dead => r = s
          BY <4>1, <5>1 DEF Row
        <5> QED BY <2>1, <4>1, <5>1, <5>2, RowTypes
      <4> QED BY <3>2, <4>2, <4>3
    <3> QED BY <3>3, <3>4
  <2>5. CASE UNCHANGED chatVars
    BY <2>2, <2>5 DEF chatVars
  <2>6. ASSUME NEW d \in Device, Call(d) \/ (\E t \in Stamp : Inbound(d, t)) \/ (\E j \in jobs[d] : Step(d, j)) PROVE Kept(e)
    <3>1. CASE e # d
      <4>1. rows'[e] = rows[e]
        BY <2>1, <2>6, <3>1, Elsewhere DEF Away
      <4> QED BY <2>2, <4>1
    <3>2. CASE e = d /\ Call(d)
      <4>1. rows' = rows
        BY <3>2 DEF Call, SendText, ChangeMessage, DeleteForEveryone, DeleteForMe, store
      <4> QED BY <2>2, <4>1
    <3>3. ASSUME NEW t \in Stamp, Inbound(d, t), e = d PROVE Kept(e)
      <4>1. CASE EchoText(d, t)
        <5>1. rows'[e] = Store(rows[e], {Text(t)})
          BY <2>1, <3>3, <4>1 DEF EchoText, ChatTypeOK
        <5>2. t \notin At(rows[e])
          BY <1>1, <3>3, <4>1 DEF EchoText, Arrives, OnceInv, OnceAt
        <5> QED BY <2>3, <5>1, <5>2
      <4>2. CASE ~EchoText(d, t)
        <5>1. rows' = rows
          BY <3>3, <4>2 DEF Inbound, PeerText, Changed, PeerWipe, EchoWipe, store
        <5> QED BY <2>2, <5>1
      <4> QED BY <4>1, <4>2
    <3>4. ASSUME NEW j \in jobs[d], Step(d, j), e = d PROVE Kept(e)
      <4>1. CASE Put(d, j)
        <5>1. rows'[e] = Store(rows[e], {Text(j.at)}) /\ j.phase \in {"bump", "put"}
          BY <2>1, <3>4, <4>1 DEF Put, ChatTypeOK
        <5>2. j.at \in Stamp
          BY <2>1, <5>1, JobFacts DEF Fits
        <5>3. j.at \notin At(rows[e])
          BY <1>1, <3>4, <5>1 DEF OnceInv, OnceAt
        <5> QED BY <2>3, <5>1, <5>2, <5>3
      <4>2. CASE Apply(d, j)
        BY <2>4, <3>4, <4>2
      <4>3. CASE Wipe(d, j)
        <5>1. rows'[e] \subseteq rows[e]
          BY <2>1, <3>4, <4>3 DEF Wipe, ChatTypeOK
        <5> QED BY <2>2, <5>1
      <4>4. CASE ~Put(d, j) /\ ~Apply(d, j) /\ ~Wipe(d, j)
        <5>1. rows' = rows
          BY <3>4, <4>4 DEF Step, Bump, Index, Ship, GuardDrops, GuardAccepts, Unindex, Mark, MarkSelf, store
        <5> QED BY <2>2, <5>1
      <4> QED BY <4>1, <4>2, <4>3, <4>4
    <3> QED BY <2>6, <3>1, <3>2, <3>3, <3>4
  <2> QED BY <1>1, <2>5, <2>6 DEF ChatNext
<1> DEFINE AllKept == \A d \in Device : Kept(d)
<1>2. ASSUME ChatInv, OnceInv, [ChatNext]_chatVars PROVE AllKept
  BY <1>1, <1>2
<1>3. ChatInv /\ OnceInv /\ [ChatNext]_chatVars => [AllKept]_chatVars
  BY <1>2
<1>4. ChatSpec => [][AllKept]_chatVars
  BY <1>3, ChatHolds, OnceHolds, PTL DEF ChatSpec
<1> QED BY <1>4 DEF NothingReturns

-----------------------------------------------------------------------------
\* Where the copies of an event are, and what is left when all have arrived

\* What is deleted "for me" is between the devices of one user.
Meant(d, t) == log[t].kind = "wipeSelf" => Siblings(log[t].by, d)

\* A device has handled an event, has a copy on its way to it, or the job of
\* the author that sends the copies is not done.
Reaches(d, t) == t \in HandledOn(d) \/ <<d, t>> \in mail \/ \E j \in jobs[log[t].by] : j.at = t

SpreadInv ==
  /\ \A d \in Device, t \in 1..Len(log) :
       /\ Meant(d, t) => Reaches(d, t)
       /\ t \in HandledOn(d) \/ <<d, t>> \in mail => Meant(d, t)
  /\ \A d \in Device : \A j \in jobs[d] : j.at # 0 /\ Own(d, j) => j.phase # "guard" /\ log[j.at].kind # "wipeSelf"

\* Nothing is on its way and nobody is at work.
Settled == mail = {} /\ \A d \in Device : jobs[d] = {}

\* No event is missing anywhere in the end, in whatever order they came and
\* whatever overlapped: every device has handled those meant for it and no other
\* (index.ts sendContent, the self-echoes).
EveryoneHeard ==
  Settled => \A d \in Device : HandledOn(d) = {t \in 1..Len(log) : Meant(d, t)}

\* In the end two devices of one user show the same conversation, and the peer's
\* as well if nobody deleted it "for me" - if they handled the events one at a
\* time in the order they were sent, which they need not have done side by side
\* (index.ts dispatchInboundEvent, message_store.ts).
Alike(d, e) == Siblings(d, e) \/ \A t \in 1..Len(log) : log[t].kind # "wipeSelf"
DevicesAgree ==
  Settled => \A d, e \in Device \ disturbed : InOrder(d) /\ InOrder(e) /\ Alike(d, e) => rows[d] = rows[e]

\* An event is created or arrives, and the job k about it begins; or, for the
\* events "for me", all the copies are sent at once.
LEMMA SpreadBegins ==
  ASSUME ChatTypeOK, KnownInv, OnceInv, SpreadInv, Grown, NEW d \in Device, Away(d), NEW t \in Stamp,
         Fresh(d, t) \/ Copy(d, t), handled' = [handled EXCEPT ![d] = Append(@, t)],
         \A e \in Device : \A x : <<e, x>> \in mail /\ <<e, x>> # <<d, t>> => <<e, x>> \in mail',
         \A e \in Device : \A x : <<e, x>> \in mail' => <<e, x>> \in mail \/ (x = t /\ Fresh(d, t) /\ Meant(e, t)'),
         \A e \in Device \ {d} : Fresh(d, t) /\ Meant(e, t)' => <<e, t>> \in mail' \/ \E j \in jobs'[d] : j.at = t,
         \A j \in jobs[d] : j \in jobs'[d] \/ j.at = 0,
         \A j \in jobs'[d] : j \in jobs[d] \/ (j.at = t /\ (Fresh(d, t) => j.phase # "guard" /\ log'[t].kind # "wipeSelf"))
  PROVE  SpreadInv'
<1>1. HandledOn(d)' = HandledOn(d) \cup {t} /\ \A e \in Device \ {d} : HandledOn(e)' = HandledOn(e)
  BY HandlesOneMore
<1>2. /\ log' = log => log[t].by # d
      /\ \A e \in Device : \A j \in jobs[e] : j.at # 0 => log'[j.at] = log[j.at]
      /\ \A x \in 1..Len(log') : (x \in 1..Len(log) /\ log'[x].by = log[x].by) \/ (x = t /\ log'[x].by = d)
  BY OnceFacts
<1>3. \A x \in 1..Len(log) : log'[x] = log[x] /\ x # 0
  BY LogGrows, Stamps
<1>4. \A e \in Device \ {d} : jobs'[e] = jobs[e]
  BY DEF Away
<1>5. ASSUME NEW e \in Device, NEW x \in 1..Len(log), x # t \/ Copy(d, t)
      PROVE  /\ Meant(e, x)' => Reaches(e, x)'
             /\ (x \in HandledOn(e) \/ <<e, x>> \in mail => Meant(e, x))'
  <2>1. log'[x] = log[x] /\ (Meant(e, x)' <=> Meant(e, x)) /\ x # 0 /\ log[x].by \in Device
    BY <1>3, Stamps DEF Meant, Event
  <2>2. (Meant(e, x) => Reaches(e, x)) /\ (x \in HandledOn(e) \/ <<e, x>> \in mail => Meant(e, x))
    BY DEF SpreadInv
  <2>3. x \in HandledOn(e) => x \in HandledOn(e)'
    BY <1>1
  <2>4. <<e, x>> \in mail => <<e, x>> \in mail' \/ x \in HandledOn(e)'
    BY <1>1
  <2>5. ASSUME NEW j \in jobs[log[x].by], j.at = x PROVE \E i \in jobs'[log'[x].by] : i.at = x
    BY <1>4, <2>1, <2>5
  <2>6. Meant(e, x)' => Reaches(e, x)'
    BY <2>1, <2>2, <2>3, <2>4, <2>5 DEF Reaches
  <2>7. x \in HandledOn(e)' => x \in HandledOn(e) \/ (x = t /\ e = d)
    BY <1>1
  <2>8. x = t /\ e = d => Meant(e, x)
    BY <1>5, <2>2 DEF Copy
  <2>9. Fresh(d, t) => x # t
    BY <1>5, Stamps DEF Fresh, Copy
  <2>10. <<e, x>> \in mail' => <<e, x>> \in mail
    BY <2>9
  <2> QED BY <2>1, <2>2, <2>6, <2>7, <2>8, <2>10
<1>6. ASSUME NEW e \in Device, NEW x \in 1..Len(log'), x = t, log'[x].by = d, Fresh(d, t)
      PROVE  /\ Meant(e, x)' => Reaches(e, x)'
             /\ (x \in HandledOn(e) \/ <<e, x>> \in mail => Meant(e, x))'
  <2>1. Meant(d, x)'
    BY <1>6 DEF Meant, Siblings
  <2>2. t \notin HandledOn(e) /\ <<e, t>> \notin mail
    BY <1>6, OnceFacts
  <2>3. Meant(e, x)' => Reaches(e, x)'
    BY <1>1, <1>6 DEF Reaches
  <2>4. x \in HandledOn(e)' \/ <<e, x>> \in mail' => Meant(e, x)'
    BY <1>1, <1>6, <2>1, <2>2
  <2> QED BY <2>3, <2>4
<1>7. ASSUME NEW e \in Device, NEW x \in 1..Len(log')
      PROVE  /\ Meant(e, x)' => Reaches(e, x)'
             /\ (x \in HandledOn(e) \/ <<e, x>> \in mail => Meant(e, x))'
  <2>1. CASE Copy(d, t)
    <3>1. x \in 1..Len(log)
      BY <1>7, <2>1 DEF Copy
    <3> QED BY <1>5, <2>1, <3>1
  <2>2. CASE Fresh(d, t)
    <3>1. x \in 1..Len(log) => x # t
      BY <2>2, Stamps DEF Fresh
    <3> QED BY <1>2, <1>5, <1>6, <1>7, <2>2, <3>1
  <2> QED BY <2>1, <2>2
<1>8. ASSUME NEW e \in Device, NEW j \in jobs'[e], j.at # 0, log'[j.at].by = e
      PROVE  j.phase # "guard" /\ log'[j.at].kind # "wipeSelf"
  <2>1. CASE j \in jobs[e]
    BY <1>2, <1>8, <2>1 DEF SpreadInv, Own
  <2>2. CASE j \notin jobs[e]
    BY <1>2, <1>4, <1>8, <2>2 DEF Copy
  <2> QED BY <2>1, <2>2
<1> QED BY <1>7, <1>8 DEF SpreadInv, Own

\* A job goes on, or ends: with the copies of its own event.
LEMMA SpreadGoesOn ==
  ASSUME ChatTypeOK, KnownInv, OnceInv, SpreadInv, NEW d \in Device, Away(d), NEW j \in jobs[d], NEW k, UNCHANGED <<log, handled>>,
         k.at = j.at, k.phase = "guard" => j.phase = "guard",
         \/ Advance(d, j, k) /\ UNCHANGED mail
         \/ Finish(d, j) /\ mail' = IF Own(d, j) /\ j.at # 0 THEN mail \cup ((Device \ {d}) \X {j.at}) ELSE mail
  PROVE  SpreadInv'
<1>1. \A e \in Device : HandledOn(e)' = HandledOn(e)
  BY DEF HandledOn
<1>2. \A e \in Device \ {d} : jobs'[e] = jobs[e]
  BY DEF Away
<1>3. jobs'[d] = (jobs[d] \ {j}) \cup {k} \/ jobs'[d] = jobs[d] \ {j}
  BY DEF Advance, Finish, ChatTypeOK
<1>4. ASSUME NEW e \in Device, NEW x \in 1..Len(log), Meant(e, x) PROVE Reaches(e, x)'
  <2>1. Reaches(e, x) /\ mail \subseteq mail' /\ x # 0
    <3>1. mail \subseteq mail'
      OBVIOUS
    <3>2. x # 0
      BY Stamps
    <3>3. Reaches(e, x)
      BY <1>4 DEF SpreadInv
    <3> QED BY <3>1, <3>2, <3>3
  <2>2. ASSUME NEW i \in jobs[log[x].by], i.at = x, i # j \/ log[x].by # d PROVE Reaches(e, x)'
    <3>1. i \in jobs'[log[x].by]
      BY <1>2, <1>3, <2>2, Stamps DEF Event
    <3> QED BY <2>2, <3>1 DEF Reaches
  <2>3. CASE log[x].by = d /\ j.at = x
    <3>1. CASE Advance(d, j, k)
      <4>1. k \in jobs'[d]
        BY <3>1 DEF Advance, ChatTypeOK
      <4> QED BY <2>3, <4>1 DEF Reaches
    <3>2. CASE mail' = mail \cup ((Device \ {d}) \X {x})
      <4>1. CASE e = d
        BY <1>1, <2>3, <4>1 DEF Reaches, OnceInv
      <4> QED BY <3>2, <4>1 DEF Reaches
    <3> QED BY <2>1, <2>3, <3>1, <3>2 DEF Own
  <2> QED BY <1>1, <2>1, <2>2, <2>3 DEF Reaches
<1>5. ASSUME NEW e \in Device, NEW x \in 1..Len(log), x \in HandledOn(e)' \/ <<e, x>> \in mail' PROVE Meant(e, x)
  <2>1. CASE x \in HandledOn(e) \/ <<e, x>> \in mail
    BY <2>1 DEF SpreadInv
  <2>2. CASE x = j.at /\ Own(d, j) /\ j.at # 0
    BY <2>2 DEF SpreadInv, Meant
  <2> QED BY <1>1, <1>5, <2>1, <2>2
<1>6. ASSUME NEW e \in Device, NEW i \in jobs'[e], i.at # 0, Own(e, i) PROVE i.phase # "guard" /\ log[i.at].kind # "wipeSelf"
  <2>1. CASE i \in jobs[e]
    BY <1>6, <2>1 DEF SpreadInv
  <2>2. CASE e = d /\ i = k
    BY <1>6, <2>2 DEF SpreadInv, Own
  <2> QED BY <1>2, <1>3, <1>6, <2>1, <2>2
<1> QED BY <1>4, <1>5, <1>6 DEF SpreadInv, Own, Meant, Reaches

LEMMA SpreadCall ==
  ASSUME ChatTypeOK, KnownInv, OnceInv, SpreadInv, Grown, NEW d \in Device, Away(d), Call(d)
  PROVE  SpreadInv'
<1> USE DEF store, chatHistory
<1>1. ASSUME NEW kind \in Kind \ {"wipeSelf"}, NEW of \in Nat, Create(kind, d, of), kind \in {"edit", "delete"} => of <= Len(log),
             NEW k, k.at = Now, k.phase # "guard", jobs' = [jobs EXCEPT ![d] = @ \cup {k}], Began(d, Now), UNCHANGED mail
      PROVE  SpreadInv'
  <2>1. PICK t : t = Now
    OBVIOUS
  <2>2. Fresh(d, t) /\ t \in Stamp /\ log'[t].kind = kind
    BY <1>1, <2>1, Created DEF Fresh, Now
  <2>3. jobs'[d] = jobs[d] \cup {k} /\ k \in jobs'[d] /\ handled' = [handled EXCEPT ![d] = Append(@, t)]
    BY <1>1, <2>1 DEF ChatTypeOK, Began
  <2> QED BY <1>1, <2>1, <2>2, <2>3, SpreadBegins
<1>2. CASE SendText(d)
  <2>1. PICK k : k = NewJob(Now, "bump", watermark[d], {})
    OBVIOUS
  <2>2. k.at = Now /\ k.phase # "guard" /\ "text" \in Kind \ {"wipeSelf"} /\ 0 \in Nat
    BY <2>1, JobIs DEF Kind
  <2>3. Create("text", d, 0) /\ jobs' = [jobs EXCEPT ![d] = @ \cup {k}] /\ Began(d, Now) /\ UNCHANGED mail
    BY <1>2, <2>1 DEF SendText
  <2> QED BY <1>1, <2>2, <2>3
<1>3. ASSUME NEW kind \in {"edit", "delete"}, NEW t \in Stamp, ChangeMessage(d, kind, t) PROVE SpreadInv'
  <2>1. PICK k : k = NewJob(Now, "ship", 0, {})
    OBVIOUS
  <2>2. k.at = Now /\ k.phase # "guard" /\ kind \in Kind \ {"wipeSelf"}
    BY <2>1, JobIs DEF Kind
  <2>3. Create(kind, d, t) /\ t \in At(rows[d]) /\ jobs' = [jobs EXCEPT ![d] = @ \cup {k}] /\ Began(d, Now) /\ UNCHANGED mail
    BY <1>3, <2>1 DEF ChangeMessage
  <2>4. t \in Nat /\ t <= Len(log)
    BY <2>3, Stamps, RowTypes DEF At
  <2> QED BY <1>1, <2>2, <2>3, <2>4
<1>4. CASE DeleteForEveryone(d)
  <2>1. PICK k : k = NewJob(Now, "wipe", 0, rows[d])
    OBVIOUS
  <2>2. k.at = Now /\ k.phase # "guard" /\ "wipeAll" \in Kind \ {"wipeSelf"} /\ 0 \in Nat
    BY <2>1, JobIs DEF Kind
  <2>3. Create("wipeAll", d, 0) /\ jobs' = [jobs EXCEPT ![d] = @ \cup {k}] /\ Began(d, Now) /\ UNCHANGED mail
    BY <1>4, <2>1 DEF DeleteForEveryone
  <2> QED BY <1>1, <2>2, <2>3
<1>5. CASE DeleteForMe(d)
  <2>1. PICK k : k = NewJob(0, "wipe", 0, rows[d])
    OBVIOUS
  <2>2. k.at = 0 /\ jobs' = [jobs EXCEPT ![d] = @ \cup {k}] /\ UNCHANGED <<log, mail, handled>>
    BY <1>5, <2>1, JobIs DEF DeleteForMe
  <2>3. jobs'[d] = jobs[d] \cup {k} /\ \A e \in Device \ {d} : jobs'[e] = jobs[e]
    BY <2>2 DEF ChatTypeOK
  <2>4. \A e \in Device : HandledOn(e)' = HandledOn(e) /\ jobs[e] \subseteq jobs'[e]
    BY <2>2, <2>3 DEF HandledOn
  <2>5. \A x \in 1..Len(log) : log[x].by \in Device
    BY Stamps DEF Event
  <2>6. \A e \in Device, x \in 1..Len(log) : Reaches(e, x) => Reaches(e, x)'
    BY <2>2, <2>4, <2>5 DEF Reaches
  <2>7. \A e \in Device : \A j \in jobs'[e] : j \in jobs[e] \/ j.at = 0
    BY <2>2, <2>3
  <2> QED BY <2>2, <2>4, <2>6, <2>7 DEF SpreadInv, Meant, Own
<1> QED BY <1>2, <1>3, <1>4, <1>5 DEF Call

LEMMA SpreadInbound ==
  ASSUME ChatTypeOK, KnownInv, OnceInv, SpreadInv, Grown, NEW d \in Device, Away(d), NEW t \in Stamp, Inbound(d, t)
  PROVE  SpreadInv'
<1>1. ASSUME NEW kind, Arrives(d, t, kind), NEW p, NEW s, NEW S, jobs' = [jobs EXCEPT ![d] = @ \cup {NewJob(t, p, s, S)}]
      PROVE  SpreadInv'
  <2>1. PICK k : k = NewJob(t, p, s, S)
    OBVIOUS
  <2>2. Copy(d, t) /\ mail' = mail \ {<<d, t>>} /\ handled' = [handled EXCEPT ![d] = Append(@, t)]
    <3>1. t \in 1..Len(log) /\ log' = log /\ Began(d, t)
      BY <1>1, Arrived
    <3>2. <<d, t>> \in mail /\ mail' = mail \ {<<d, t>>}
      BY <1>1 DEF Arrives
    <3> QED BY <3>1, <3>2 DEF Copy, Began
  <2>3. jobs'[d] = jobs[d] \cup {k} /\ k.at = t
    BY <1>1, <2>1, JobIs DEF ChatTypeOK
  <2>4. ~Fresh(d, t)
    BY <2>2, Stamps DEF Copy, Fresh
  <2> QED BY <2>2, <2>3, <2>4, SpreadBegins
<1>2. CASE PeerText(d, t)
  BY <1>1, <1>2 DEF PeerText
<1>3. CASE EchoText(d, t)
  BY <1>1, <1>3 DEF EchoText
<1>4. ASSUME NEW kind, Changed(d, t, kind) PROVE SpreadInv'
  BY <1>1, <1>4 DEF Changed
<1>5. CASE PeerWipe(d, t)
  BY <1>1, <1>5 DEF PeerWipe
<1>6. CASE EchoWipe(d, t)
  BY <1>1, <1>6 DEF EchoWipe
<1> QED BY <1>2, <1>3, <1>4, <1>5, <1>6 DEF Inbound

LEMMA SpreadJob ==
  ASSUME ChatTypeOK, KnownInv, OnceInv, SpreadInv, Grown, NEW d \in Device, Away(d), NEW j \in jobs[d], Step(d, j)
  PROVE  SpreadInv'
<1> USE DEF store, chatHistory
<1>1. j \in Job /\ Fits(log, j) /\ (j.at # 0 /\ Own(d, j) => j.phase # "guard" /\ log[j.at].kind # "wipeSelf")
  BY JobFacts DEF SpreadInv
<1>2. ASSUME NEW p \in {"put", "index", "apply", "wipe", "unindex", "mark"}, NEW k, k = [j EXCEPT !.phase = p] \/ \E S : k = [j EXCEPT !.phase = p, !.snap = S],
             Advance(d, j, k), UNCHANGED <<log, mail, handled>>
      PROVE  SpreadInv'
  <2>1. k.at = j.at /\ k.phase = p
    BY <1>1, <1>2 DEF Job
  <2> QED BY <1>2, <2>1, SpreadGoesOn
<1>3. ASSUME Finish(d, j), UNCHANGED <<log, handled>>, j.at # 0,
             NEW kind, kind # "wipeSelf", mail' = IF Own(d, j) THEN mail \cup (Others(d, kind) \X {j.at}) ELSE mail
      PROVE  SpreadInv'
  <2>1. Others(d, kind) = Device \ {d}
    BY <1>3 DEF Others
  <2>2. PICK k : k = j
    OBVIOUS
  <2> QED BY <1>3, <2>1, <2>2, SpreadGoesOn
<1>4. CASE Bump(d, j)
  BY <1>2, <1>4 DEF Bump
<1>5. CASE Put(d, j)
  BY <1>2, <1>5 DEF Put
<1>6. CASE Index(d, j)
  <2>1. j.at # 0
    BY <1>1, <1>6 DEF Index, Fits
  <2> QED BY <1>3, <1>6, <2>1 DEF Index, Broadcast
<1>7. CASE Ship(d, j)
  BY <1>2, <1>7 DEF Ship
<1>8. CASE Apply(d, j)
  <2>1. j.at # 0 /\ log[j.at].kind # "wipeSelf"
    BY <1>1, <1>8 DEF Apply, Fits
  <2> QED BY <1>3, <1>8, <2>1 DEF Apply, Broadcast
<1>9. CASE GuardDrops(d, j)
  <2>1. PICK k : k = j
    OBVIOUS
  <2>2. Finish(d, j) /\ UNCHANGED <<log, mail, handled>> /\ ~(Own(d, j) /\ j.at # 0)
    BY <1>1, <1>9 DEF GuardDrops
  <2> QED BY <2>1, <2>2, SpreadGoesOn
<1>10. CASE GuardAccepts(d, j)
  BY <1>2, <1>10 DEF GuardAccepts
<1>11. CASE Wipe(d, j)
  BY <1>2, <1>11 DEF Wipe
<1>12. CASE Unindex(d, j)
  BY <1>2, <1>12 DEF Unindex
<1>13. CASE Mark(d, j)
  BY <1>3, <1>13 DEF Mark, Broadcast
<1>14. CASE MarkSelf(d, j)
  <2>1. PICK t : t = Now
    OBVIOUS
  <2>2. Create("wipeSelf", d, 0) /\ "wipeSelf" \in Kind /\ 0 \in Nat
    BY <1>14 DEF MarkSelf, Kind
  <2>3. Fresh(d, t) /\ t \in Stamp /\ log'[t].kind = "wipeSelf" /\ log'[t].by = d
    BY <2>1, <2>2, Created DEF Fresh, Now
  <2>4. handled' = [handled EXCEPT ![d] = Append(@, t)] /\ mail' = mail \cup (Others(d, "wipeSelf") \X {t})
    BY <1>14, <2>1 DEF MarkSelf, Broadcast
  <2>5. jobs'[d] = jobs[d] \ {j} /\ j.at = 0
    BY <1>14 DEF MarkSelf, Finish, ChatTypeOK
  <2>6. \A e \in Device : Meant(e, t)' <=> Siblings(d, e)
    BY <2>3 DEF Meant
  <2>7. \A e \in Device : e \in Others(d, "wipeSelf") <=> e # d /\ Siblings(d, e)
    BY DEF Others
  <2>8. \A e \in Device : \A x : <<e, x>> \in mail' <=> <<e, x>> \in mail \/ (x = t /\ e # d /\ Siblings(d, e))
    BY <2>4, <2>7
  <2> QED BY <2>3, <2>4, <2>5, <2>6, <2>8, SpreadBegins
<1> QED BY <1>4, <1>5, <1>6, <1>7, <1>8, <1>9, <1>10, <1>11, <1>12, <1>13, <1>14 DEF Step

LEMMA SpreadHolds == ChatSpec => []SpreadInv
<1>1. ChatInit => SpreadInv
  <2> SUFFICES ASSUME ChatInit PROVE SpreadInv
    OBVIOUS
  <2>1. 1..Len(log) = {} /\ \A d \in Device : jobs[d] = {}
    BY EmptySeq DEF ChatInit
  <2> QED BY <2>1 DEF SpreadInv
<1>2. ChatInv /\ OnceInv /\ SpreadInv /\ [ChatNext]_chatVars => SpreadInv'
  <2> SUFFICES ASSUME ChatInv, OnceInv, SpreadInv, [ChatNext]_chatVars PROVE SpreadInv'
    OBVIOUS
  <2>1. ChatTypeOK /\ KnownInv
    BY DEF ChatInv
  <2>2. ASSUME NEW d \in Device, Call(d) \/ (\E t \in Stamp : Inbound(d, t)) \/ (\E j \in jobs[d] : Step(d, j)) PROVE SpreadInv'
    <3>1. Away(d) /\ Grown
      BY <2>1, <2>2, Elsewhere
    <3> QED BY <2>1, <2>2, <3>1, SpreadCall, SpreadInbound, SpreadJob
  <2>3. CASE UNCHANGED chatVars
    <3>1. UNCHANGED <<log, mail, jobs, handled>>
      BY <2>3 DEF chatVars
    <3> QED BY <3>1 DEF SpreadInv, Meant, Reaches, Own, HandledOn
  <2> QED BY <2>2, <2>3 DEF ChatNext
<1> QED BY <1>1, <1>2, ChatHolds, OnceHolds, PTL DEF ChatSpec

\* No event is missing anywhere once nothing is on its way (EveryoneHeard), for
\* any devices and any number of events, whatever overlaps.
THEOREM EveryoneHears == ChatSpec => []EveryoneHeard
<1>1. ChatInv /\ SpreadInv => EveryoneHeard
  <2> SUFFICES ASSUME ChatInv, SpreadInv, Settled, NEW d \in Device PROVE HandledOn(d) = {t \in 1..Len(log) : Meant(d, t)}
    BY DEF EveryoneHeard
  <2>1. HandledOn(d) \subseteq 1..Len(log)
    BY DEF ChatInv, KnownInv
  <2>2. ASSUME NEW t \in 1..Len(log) PROVE t \in HandledOn(d) <=> Meant(d, t)
    <3>1. log[t].by \in Device
      BY Stamps DEF ChatInv, Event
    <3>2. mail = {} /\ jobs[log[t].by] = {}
      BY <3>1 DEF Settled
    <3> QED BY <3>2 DEF SpreadInv, Reaches
  <2> QED BY <2>1, <2>2
<1> QED BY <1>1, ChatHolds, SpreadHolds, PTL

\* The devices of a user show the same conversation once nothing is on its way,
\* and the peer's show it too if nobody deleted it "for me" (DevicesAgree), on
\* the conditions of RowsAreTheEvents.
THEOREM DevicesConverge == ChatSpec => []DevicesAgree
<1>1. ChatInv /\ OrderedView /\ EveryoneHeard => DevicesAgree
  <2> SUFFICES ASSUME ChatInv, OrderedView, EveryoneHeard, Settled, NEW d \in Device \ disturbed, NEW e \in Device \ disturbed,
                      InOrder(d), InOrder(e), Alike(d, e)
               PROVE  rows[d] = rows[e]
    BY DEF DevicesAgree
  <2>1. \A t \in 1..Len(log) : Meant(d, t) <=> Meant(e, t)
    BY DEF Alike, Meant, Siblings
  <2>2. HandledOn(d) = HandledOn(e)
    BY <2>1 DEF EveryoneHeard
  <2>3. AtRest(d) /\ AtRest(e)
    BY DEF AtRest, Settled
  <2> QED BY <2>2, <2>3 DEF OrderedView
<1> QED BY <1>1, ChatHolds, RowsAreTheEvents, EveryoneHears, PTL
==============================================================================
