--------------------------- MODULE InboundDelivery ---------------------------
(***************************************************************************)
(* The receiving half of the client: an envelope reaches a device as live  *)
(* WebSocket frames (the node publishes it several times) and, once the    *)
(* node gave up waiting for an ack, through the tenant backend's pending   *)
(* queue, which the device drains over HTTP on every transition to "open". *)
(* Both paths run handleInboundCiphertext (src/index.ts), which reserves   *)
(* the envelope in a persisted dedup set (src/envelope_dedup.ts), decrypts *)
(* it, stores it and acknowledges it.                                      *)
(*                                                                         *)
(* A handler is asynchronous: frames, HTTP responses and a reload of the   *)
(* page may come between any two of its steps.  Looking an envelope up in  *)
(* the dedup set and reserving it happen in one task, as no frame or       *)
(* response is handled between the two.  Writes to the store are served in *)
(* the order they were issued.                                             *)
(*                                                                         *)
(* The 1000 entries the dedup set is capped at are not counted: other      *)
(* traffic may push an entry out at any time once its handler is done.     *)
(*                                                                         *)
(* The node and the backend are external.  One peer sends all envelopes.   *)
(***************************************************************************)
EXTENDS Naturals

CONSTANTS
  Env,         \* envelopes, by envelopeUuid
  Unknown,     \* those whose plaintext decodes to no event this version knows
  MaxPublish,  \* how often the node publishes an envelope, the post-webhook one included
  MaxCrashes   \* bound: reloads of the receiving page

ASSUME UnknownAssumption == Unknown \subseteq Env
ASSUME MaxPublishAssumption == MaxPublish \in [Env -> Nat]
ASSUME MaxCrashesAssumption == MaxCrashes \in Nat

VARIABLES
  node,      \* the sender's view of an envelope: unsent, publishing, live, stored
  published, \* how often the node has published it
  frames,    \* copies in flight on the device's socket
  pending,   \* envelopes in the backend's pending queue
  ws,        \* the device's socket: open or closed
  cache,     \* EnvelopeDedup.cache
  saved,     \* the persisted dedup entries
  task,      \* the handler of an envelope: where it is, and for which path
  undoing,   \* failed handlers awaiting the rollback of their reservation
  drain,     \* drainPending(): its phase, what it still has to handle, what to ack
  spent,     \* envelopes whose message key the persisted Olm session has used up
  stored,    \* how often an envelope reached messages.put
  crashes,   \* reloads so far
  \* history
  replayed,    \* ciphertexts given to the ratchet after their key was used up
  forgotten,   \* envelopes evicted or rolled back after their key was used up
  raced,       \* duplicates answered while the first copy was being handled
  interrupted, \* envelopes being handled when the page was reloaded
  refused      \* envelopes acked as permanently undecryptable

external == <<node, published, frames, pending>>
dedup == <<cache, saved>>
handler == <<task, undoing>>
history == <<replayed, forgotten, raced, interrupted, refused>>
vars == <<node, published, frames, pending, ws, cache, saved, task, undoing, drain,
          spent, stored, crashes, replayed, forgotten, raced, interrupted, refused>>

NodeState == {"unsent", "publishing", "live", "stored"}
Source == {"live", "drain"}
Task == [at : {"idle", "reserve", "decrypt", "dispatch"}, source : Source]
Idle == [at |-> "idle", source |-> "live"]
Undo == [env : Env, source : Source, terminal : BOOLEAN]
Drain == [phase : {"idle", "fetch", "work", "ack"}, todo : SUBSET Env, acks : SUBSET Env]
DrainIdle == [phase |-> "idle", todo |-> {}, acks |-> {}]

TypeOK ==
  /\ node \in [Env -> NodeState]
  /\ published \in [Env -> Nat]
  /\ frames \in [Env -> Nat]
  /\ pending \subseteq Env
  /\ ws \in {"open", "closed"}
  /\ cache \subseteq Env /\ saved \subseteq Env
  /\ task \in [Env -> Task]
  /\ undoing \subseteq Undo
  /\ drain \in Drain
  /\ spent \subseteq Env
  /\ stored \in [Env -> Nat]
  /\ crashes \in 0..MaxCrashes
  /\ replayed \subseteq Env /\ forgotten \subseteq Env
  /\ raced \subseteq Env /\ interrupted \subseteq Env /\ refused \subseteq Env

Init ==
  /\ node = [e \in Env |-> "unsent"]
  /\ published = [e \in Env |-> 0]
  /\ frames = [e \in Env |-> 0]
  /\ pending = {}
  /\ ws = "closed"
  /\ cache = {} /\ saved = {}
  /\ task = [e \in Env |-> Idle]
  /\ undoing = {}
  /\ drain = DrainIdle
  /\ spent = {}
  /\ stored = [e \in Env |-> 0]
  /\ crashes = 0
  /\ replayed = {} /\ forgotten = {} /\ raced = {} /\ interrupted = {} /\ refused = {}

-----------------------------------------------------------------------------
\* The node and the backend.

\* The node publishes the envelope, again and again until it is acked or the
\* fallback timeout passes, and once more after the webhook.
Publish(e) ==
  /\ published[e] < MaxPublish[e]
  /\ node[e] \in {"unsent", "publishing", "stored"}
  /\ node' = [node EXCEPT ![e] = IF @ = "unsent" THEN "publishing" ELSE @]
  /\ published' = [published EXCEPT ![e] = @ + 1]
  /\ frames' = [frames EXCEPT ![e] = IF ws = "open" THEN @ + 1 ELSE @]
  /\ UNCHANGED <<pending, ws, dedup, handler, drain, spent, stored, crashes, history>>

\* No ack within fallback_timeout: the webhook puts it into the pending queue.
FallBack(e) ==
  /\ node[e] = "publishing"
  /\ node' = [node EXCEPT ![e] = "stored"]
  /\ pending' = pending \cup {e}
  /\ UNCHANGED <<published, frames, ws, dedup, handler, drain, spent, stored, crashes, history>>

\* A chatEnvelopeAck counts while the node waits for it, and may be lost.
WsAck(e) ==
  \/ node' = node
  \/ /\ ws = "open"
     /\ node[e] = "publishing"
     /\ node' = [node EXCEPT ![e] = "live"]

-----------------------------------------------------------------------------
\* The socket and the page.

\* Mutant: the transition to "open" does not drain.
WsOpenNoDrain ==
  /\ ws = "closed"
  /\ ws' = "open"
  /\ UNCHANGED <<external, dedup, handler, drain, spent, stored, crashes, history>>

\* onWsState("open") drains; a drain in progress makes it a no-op.
WsOpen ==
  /\ ws = "closed"
  /\ ws' = "open"
  /\ drain' = IF drain.phase = "idle" THEN [DrainIdle EXCEPT !.phase = "fetch"] ELSE drain
  /\ UNCHANGED <<external, dedup, handler, spent, stored, crashes, history>>

WsClose ==
  /\ ws = "open"
  /\ ws' = "closed"
  /\ frames' = [e \in Env |-> 0]
  /\ UNCHANGED <<node, published, pending, dedup, handler, drain, spent, stored, crashes, history>>

\* The page is reloaded: what is in memory is gone, init() reads the dedup set back.
Crash ==
  /\ crashes < MaxCrashes
  /\ crashes' = crashes + 1
  /\ ws' = "closed"
  /\ frames' = [e \in Env |-> 0]
  /\ cache' = saved
  /\ task' = [e \in Env |-> Idle]
  /\ undoing' = {}
  /\ drain' = DrainIdle
  /\ interrupted' = interrupted \cup {e \in Env : task[e].at # "idle"}
                                \cup {u.env : u \in undoing}
  /\ UNCHANGED <<node, published, pending, saved, spent, stored,
                 replayed, forgotten, raced, refused>>

-----------------------------------------------------------------------------
\* handleInboundCiphertext().

Seen(e) == e \in cache

\* Not seen before: reserved in memory, the write to the store is awaited.
Reserve(e, src) ==
  /\ ~Seen(e)
  /\ cache' = cache \cup {e}
  /\ task' = [task EXCEPT ![e] = [at |-> "reserve", source |-> src]]
  /\ UNCHANGED undoing

\* A frame arrives with an envelope not seen before.
LiveFirst(e) ==
  /\ ws = "open"
  /\ frames[e] > 0
  /\ Reserve(e, "live")
  /\ frames' = [frames EXCEPT ![e] = @ - 1]
  /\ UNCHANGED <<node, published, pending, ws, saved, drain, spent, stored, crashes, history>>

\* The set of envelopes with a duplicate answered during the first's handling.
RacedWith(e) == IF task[e].at # "idle" THEN raced \cup {e} ELSE raced

\* A duplicate is acked again, whatever became of the first.
LiveDuplicate(e) ==
  /\ ws = "open"
  /\ frames[e] > 0
  /\ Seen(e)
  /\ frames' = [frames EXCEPT ![e] = @ - 1]
  /\ WsAck(e)
  /\ raced' = RacedWith(e)
  /\ UNCHANGED <<published, pending, ws, dedup, handler, drain, spent, stored, crashes,
                 replayed, forgotten, interrupted, refused>>

\* Mutant: the reservation is kept in memory only.
ReservedUnsaved(e) ==
  /\ task[e].at = "reserve"
  /\ \A u \in undoing : u.env # e
  /\ task' = [task EXCEPT ![e].at = "decrypt"]
  /\ UNCHANGED <<external, ws, cache, saved, undoing, drain, spent, stored, crashes, history>>

\* The reservation is persisted, after any rollback still on its way.
Reserved(e) ==
  /\ task[e].at = "reserve"
  /\ \A u \in undoing : u.env # e
  /\ saved' = saved \cup {e}
  /\ task' = [task EXCEPT ![e].at = "decrypt"]
  /\ UNCHANGED <<external, ws, cache, undoing, drain, spent, stored, crashes, history>>

\* trim(): the oldest entry goes when there are more than CAP.
Evict(e) ==
  /\ e \in cache
  /\ task[e].at = "idle"
  /\ cache' = cache \ {e}
  /\ saved' = saved \ {e}
  /\ forgotten' = forgotten \cup {e}
  /\ UNCHANGED <<external, ws, handler, drain, spent, stored, crashes,
                 replayed, raced, interrupted, refused>>

\* The ratchet advances and the session is persisted.
DecryptOk(e) ==
  /\ task[e].at = "decrypt"
  /\ e \notin spent
  /\ spent' = spent \cup {e}
  /\ task' = [task EXCEPT ![e].at = "dispatch"]
  /\ UNCHANGED <<external, ws, dedup, undoing, drain, stored, crashes, history>>

\* The handler fails: its reservation is taken back in memory, and the delete
\* in the store is awaited.
Fail(e, terminal) ==
  /\ cache' = cache \ {e}
  /\ task' = [task EXCEPT ![e] = Idle]
  /\ undoing' = undoing \cup {[env |-> e, source |-> task[e].source, terminal |-> terminal]}

\* Both attempts to decrypt throw, for a used-up key or for a reason of the
\* session's own, which may be one that no retry can cure.
DecryptFails(e) ==
  /\ task[e].at = "decrypt"
  /\ \E terminal \in BOOLEAN : Fail(e, terminal)
  /\ replayed' = IF e \in spent THEN replayed \cup {e} ELSE replayed
  /\ UNCHANGED <<external, ws, saved, drain, spent, stored, crashes,
                 forgotten, raced, interrupted, refused>>

\* What a drain does with the outcome of its handler: ack it or leave it.
DrainOutcome(e, src, ack) ==
  drain' = IF src = "drain" /\ ack THEN [drain EXCEPT !.acks = @ \cup {e}] ELSE drain

\* A plaintext that decodes to nothing is dropped: no ack on the socket, and
\* the reservation stays.
Malformed(e) ==
  /\ task[e].at = "dispatch"
  /\ e \in Unknown
  /\ task' = [task EXCEPT ![e] = Idle]
  /\ DrainOutcome(e, task[e].source, TRUE)
  /\ UNCHANGED <<external, ws, dedup, undoing, spent, stored, crashes, history>>

\* dispatchInboundEvent() stores the message, and a live envelope is acked.
Dispatch(e) ==
  /\ task[e].at = "dispatch"
  /\ e \notin Unknown
  /\ stored' = [stored EXCEPT ![e] = @ + 1]
  /\ task' = [task EXCEPT ![e] = Idle]
  /\ node' = node \/ (task[e].source = "live" /\ WsAck(e))
  /\ DrainOutcome(e, task[e].source, TRUE)
  /\ UNCHANGED <<published, frames, pending, ws, dedup, undoing, spent, crashes, history>>

\* Mutant: a dispatch that throws is tried again instead of rolled back.
DispatchFailsRetried(e) ==
  /\ task[e].at = "dispatch"
  /\ e \notin Unknown
  /\ stored[e] < 2
  /\ \E n \in {0, 1} : stored' = [stored EXCEPT ![e] = @ + n]
  /\ UNCHANGED <<external, ws, dedup, task, undoing, drain, spent, crashes, history>>

\* dispatchInboundEvent() throws, before or after messages.put.
DispatchFails(e) ==
  /\ task[e].at = "dispatch"
  /\ e \notin Unknown
  /\ \E n \in {0, 1} : stored' = [stored EXCEPT ![e] = @ + n]
  /\ Fail(e, FALSE)
  /\ forgotten' = forgotten \cup {e}
  /\ UNCHANGED <<external, ws, saved, drain, spent, crashes,
                 replayed, raced, interrupted, refused>>

\* Mutant: the drain acks every failure, passing ones too.
UndoneAcked(u) ==
  /\ u \in undoing
  /\ undoing' = undoing \ {u}
  /\ saved' = saved \ {u.env}
  /\ DrainOutcome(u.env, u.source, TRUE)
  /\ refused' = IF u.source = "drain" /\ u.terminal THEN refused \cup {u.env} ELSE refused
  /\ UNCHANGED <<external, ws, cache, task, spent, stored, crashes,
                 replayed, forgotten, raced, interrupted>>

\* The rollback reaches the store and the error the caller.  A drain acks the
\* envelope only when it can never be decrypted.
Undone(u) ==
  /\ u \in undoing
  /\ undoing' = undoing \ {u}
  /\ saved' = saved \ {u.env}
  /\ DrainOutcome(u.env, u.source, u.terminal)
  /\ refused' = IF u.source = "drain" /\ u.terminal THEN refused \cup {u.env} ELSE refused
  /\ UNCHANGED <<external, ws, cache, task, spent, stored, crashes,
                 replayed, forgotten, raced, interrupted>>

-----------------------------------------------------------------------------
\* drainPending().

\* GET /envelopes/pending answers; an empty answer ends the drain.
DrainFetch ==
  /\ drain.phase = "fetch"
  /\ drain' = IF pending = {} THEN DrainIdle
              ELSE [phase |-> "work", todo |-> pending, acks |-> {}]
  /\ UNCHANGED <<external, ws, dedup, handler, spent, stored, crashes, history>>

\* A request throws: the drain ends, `finally` clears the flag.
DrainFails ==
  /\ drain.phase \in {"fetch", "ack"}
  /\ drain' = DrainIdle
  /\ UNCHANGED <<external, ws, dedup, handler, spent, stored, crashes, history>>

DrainBusy ==
  \/ \E e \in Env : task[e].at # "idle" /\ task[e].source = "drain"
  \/ \E u \in undoing : u.source = "drain"

\* One envelope after the other.
DrainFirst(e) ==
  /\ drain.phase = "work"
  /\ ~DrainBusy
  /\ e \in drain.todo
  /\ Reserve(e, "drain")
  /\ drain' = [drain EXCEPT !.todo = @ \ {e}]
  /\ UNCHANGED <<external, ws, saved, spent, stored, crashes, history>>

\* A duplicate counts as handled.
DrainDuplicate(e) ==
  /\ drain.phase = "work"
  /\ ~DrainBusy
  /\ e \in drain.todo
  /\ Seen(e)
  /\ drain' = [drain EXCEPT !.todo = @ \ {e}, !.acks = @ \cup {e}]
  /\ raced' = RacedWith(e)
  /\ UNCHANGED <<external, ws, dedup, handler, spent, stored, crashes,
                 replayed, forgotten, interrupted, refused>>

\* The batch is through: nothing to ack ends the drain.
DrainBatchDone ==
  /\ drain.phase = "work"
  /\ ~DrainBusy
  /\ drain.todo = {}
  /\ drain' = IF drain.acks = {} THEN DrainIdle ELSE [drain EXCEPT !.phase = "ack"]
  /\ UNCHANGED <<external, ws, dedup, handler, spent, stored, crashes, history>>

\* POST /envelopes/ack reaches the backend; its answer may still be lost.
DrainAck ==
  /\ drain.phase = "ack"
  /\ pending' = pending \ drain.acks
  /\ drain' \in {DrainIdle, [DrainIdle EXCEPT !.phase = "fetch"]}
  /\ UNCHANGED <<node, published, frames, ws, dedup, handler, spent, stored, crashes, history>>
HandlerStep(e) ==
  \/ Reserved(e)
  \/ DecryptOk(e)
  \/ DecryptFails(e)
  \/ Malformed(e)
  \/ Dispatch(e)
  \/ DispatchFails(e)

DrainStep ==
  \/ DrainFetch
  \/ DrainFails
  \/ \E e \in Env : DrainFirst(e) \/ DrainDuplicate(e)
  \/ DrainBatchDone
  \/ DrainAck

Next ==
  \/ \E e \in Env : Publish(e) \/ FallBack(e)
  \/ \E e \in Env : LiveFirst(e) \/ LiveDuplicate(e) \/ HandlerStep(e) \/ Evict(e)
  \/ \E u \in undoing : Undone(u)
  \/ WsOpen
  \/ WsClose
  \/ Crash
  \/ DrainStep

Spec == Init /\ [][Next]_vars

\* Handlers and drains go on as long as the page lives, and what fails for a
\* passing reason succeeds when it is tried again and again.
FairSpec ==
  /\ Spec
  /\ \A e \in Env :
       /\ WF_vars(Reserved(e))
       /\ SF_vars(DecryptOk(e))
       /\ WF_vars(DecryptFails(e))
       /\ WF_vars(Malformed(e))
       /\ SF_vars(Dispatch(e))
       /\ WF_vars(DrainFirst(e) \/ DrainDuplicate(e))
  /\ WF_vars(\E u \in undoing : Undone(u))
  /\ SF_vars(DrainFetch)
  /\ WF_vars(DrainBatchDone)
  /\ SF_vars(DrainAck)

-----------------------------------------------------------------------------
\* An envelope nobody will ask for again and the application never got.
Lost(e) ==
  /\ node[e] \in {"live", "stored"}
  /\ e \notin pending
  /\ task[e].at = "idle"
  /\ stored[e] = 0
  /\ e \notin Unknown

\* What the abstract specification sees of this one.
Sent == {e \in Env : node[e] # "unsent"}
Promise == INSTANCE Delivery WITH sent <- Sent, delivered <- stored

\* Live copies, drained copies, retries, rollbacks and reloads never bring an
\* envelope to messages.put twice: the abstract specification is implemented
\* (index.ts handleInboundCiphertext, delivery-semantics.md "fire EXACTLY ONCE").
AtMostOnce == Promise!Spec

\* The invariant behind it: an envelope is stored at most once.
StoredOnce == \A e \in Env : stored[e] <= 1

\* No ciphertext is given to the ratchet a second time, across reloads too,
\* except one the dedup set had to forget: a replay makes the client drop the
\* session (envelope_dedup.ts 1-11).
NoReplay == replayed \subseteq forgotten

\* The ways to lose an envelope are known: a duplicate was acked while the
\* first copy was being handled, the page was reloaded during that, or a drain
\* found the ciphertext permanently undecryptable.  Nothing else that fails
\* makes the sender or the backend stop offering an envelope that was not stored.
OnlyKnownLosses ==
  \A e \in Env : Lost(e) => e \in raced \cup interrupted \cup refused

\* When connections keep coming and going, the pending queue is worked off:
\* every envelope in it is acked in the end, unless its key was used up by a
\* handler that then failed (index.ts drainPending, onWsState).
Drained ==
  []<>(ws = "open") /\ []<>(ws = "closed") =>
    \A e \in Env : e \in pending ~> (e \notin pending \/ e \in forgotten)

=============================================================================
