---------------------------- MODULE StatusTracker ----------------------------
(***************************************************************************)
(* The status of the messages one device shows as its own (src/status.ts), *)
(* and its mirror in the message store (src/index.ts): pending, sent,      *)
(* delivered, deliveredAll, read, and failed beside the ladder.            *)
(*                                                                         *)
(* Own messages are tracked when they are sent, and again when the user    *)
(* retries a failed one; messages a sibling device sent are tracked when   *)
(* its self-echo arrives, which the peer's `received` and `read` events    *)
(* may overtake.  Those are buffered.  All messages go to one peer: every  *)
(* part of the tracker is keyed by peer.                                   *)
(*                                                                         *)
(* The listener that mirrors a transition reads and writes a cached row in *)
(* consecutive microtasks, so the mirror is part of the transition.  A     *)
(* buffer drops its oldest event when it overflows; which one that is is   *)
(* left open.                                                              *)
(***************************************************************************)
EXTENDS Naturals, Sequences, FiniteSets

CONSTANTS
  Own,       \* messages sent from this device
  Sibling,   \* messages sent from another device of the user
  Foreign,   \* ids a `read` may name that are never tracked: the peer's own messages
  Dev,       \* devices of the peer
  Cap,       \* PENDING_BUFFER_CAP
  MaxTracks  \* bound: how often messages are tracked, all in all

Msg == Own \cup Sibling

ASSUME IdsAssumption == Own \cap Sibling = {} /\ Foreign \cap Msg = {}
ASSUME DevAssumption == IsFiniteSet(Dev)
ASSUME CapAssumption == Cap \in Nat
ASSUME MaxTracksAssumption == MaxTracks \in Nat

VARIABLES
  entry,     \* StatusTracker.outbound
  byPeer,    \* StatusTracker.byPeer of the peer
  receivedBuffer, \* pendingReceivedsForUnknown of the peer
  readBuffer,     \* pendingReadsForUnknown of the peer
  row,       \* the status in the message store
  outbox,    \* what became of a message's entry in the outbox
  tracks,    \* how often a message was tracked: its envelopes' generation
  \* history
  shipped,   \* envelopes that went to the node: message, generation, device
  acked,     \* `received` events that arrived, by device and message
  readUpTo,  \* `read` events that arrived
  dropped,   \* buffered events that fell to the cap
  gaveUp     \* messages the outbox gave up on, or retried ones, at least once

tracker == <<entry, byPeer, receivedBuffer, readBuffer>>
vars == <<entry, byPeer, receivedBuffer, readBuffer, row, outbox, tracks,
          shipped, acked, readUpTo, dropped, gaveUp>>

Status == {"pending", "sent", "delivered", "deliveredAll", "read", "failed"}

\* An entry: targets are the devices its envelopes went to, devices those the
\* tracker knows by now; an envelope is named by its generation and device.
Entry == [targets : SUBSET Dev, devices : SUBSET Dev, received : SUBSET Dev,
          errored : SUBSET (Nat \X Dev), status : Status \cup {"none"}]

NoEntry == [targets |-> {}, devices |-> {}, received |-> {}, errored |-> {}, status |-> "none"]

rank == [none |-> 0, pending |-> 0, sent |-> 1, delivered |-> 2, deliveredAll |-> 3,
         read |-> 4, failed |-> 99]

TypeOK ==
  /\ entry \in [Msg -> Entry]
  /\ byPeer \in Seq(Msg)
  /\ receivedBuffer \subseteq Dev \X Msg
  /\ readBuffer \subseteq Msg \cup Foreign
  /\ row \in [Msg -> Status \cup {"none"}]
  /\ outbox \in [Own -> {"none", "queued", "sent", "gone"}]
  /\ tracks \in [Msg -> Nat]
  /\ shipped \subseteq Own \X Nat \X Dev
  /\ acked \subseteq Dev \X Msg
  /\ readUpTo \subseteq Msg \cup Foreign
  /\ dropped \subseteq (Dev \X Msg) \cup (Msg \cup Foreign)
  /\ gaveUp \subseteq Own

Init ==
  /\ entry = [m \in Msg |-> NoEntry]
  /\ byPeer = <<>>
  /\ receivedBuffer = {} /\ readBuffer = {}
  /\ row = [m \in Msg |-> "none"]
  /\ outbox = [m \in Own |-> "none"]
  /\ tracks = [m \in Msg |-> 0]
  /\ shipped = {} /\ acked = {} /\ readUpTo = {} /\ dropped = {} /\ gaveUp = {}

Tracked(m) == entry[m].status # "none"

-----------------------------------------------------------------------------
\* Mutant: the ranks are not compared.
BumpAnyway(r, s) == IF r.status = "none" THEN r ELSE [r EXCEPT !.status = s]

\* bump(): up the ladder or not at all.
Bump(r, s) ==
  IF r.status # "none" /\ rank[s] > rank[r.status] THEN [r EXCEPT !.status = s] ELSE r

\* Mutant: the first device to answer stands for all of them.
ReceiveByOne(r, D) ==
  LET got == [r EXCEPT !.devices = @ \cup D, !.received = @ \cup D]
  IN  IF D = {} THEN r ELSE Bump(got, "deliveredAll")

\* onReceived() of one message, by some devices one after the other.
ReceiveBy(r, D) ==
  LET got == [r EXCEPT !.devices = @ \cup D, !.received = @ \cup D]
  IN  IF D = {} THEN r
      ELSE Bump(got, IF got.received = got.devices THEN "deliveredAll" ELSE "delivered")

\* The messages up to the first occurrence of m in a list.
UpTo(list, m) ==
  {list[i] : i \in {j \in 1..Len(list) : \A k \in 1..(j - 1) : list[k] # m}}

\* onRead() of a message in the list.
ReadAll(ent, list, m) ==
  [n \in Msg |-> IF n \in UpTo(list, m) THEN Bump(ent[n], "read") ELSE ent[n]]

\* Mutant: the listener writes only what follows `sent`.
MirrorLate(rows, before, after) ==
  [m \in Msg |-> IF after[m].status # before[m].status /\ after[m].status # "sent"
                 THEN after[m].status ELSE rows[m]]

\* The listener of SecureChat: every transition is written to the row.
Mirror(rows, before, after) ==
  [m \in Msg |-> IF after[m].status # before[m].status THEN after[m].status ELSE rows[m]]

\* Adding an event to a buffer, which drops one when it holds more than Cap.
Buffer(buf, x) ==
  IF Cardinality(buf \cup {x}) <= Cap THEN {buf \cup {x}}
  ELSE {(buf \cup {x}) \ {y} : y \in buf \cup {x}}

-----------------------------------------------------------------------------
\* The entry of a message tracked for some devices.
Fresh(D) ==
  [targets |-> D, devices |-> D, received |-> {}, errored |-> {}, status |-> "pending"]

\* Mutant: buffered events are forgotten when the message turns up.
ReplayNothing(ent, list, m) == ent

\* What trackOutbound() replays from the buffers: only events that name m can
\* be resolved now, `received` before `read`.
Replay(ent, list, m) ==
  LET acks == {d \in Dev : <<d, m>> \in receivedBuffer}
      got  == [ent EXCEPT ![m] = ReceiveBy(@, acks)]
  IN  IF m \in readBuffer THEN ReadAll(got, list, m) ELSE got

\* trackOutbound(), on rows the caller has just written.
Track(m, D, rows) ==
  LET ent  == [entry EXCEPT ![m] = Fresh(D)]
      list == Append(byPeer, m)
  IN  /\ Len(byPeer) < MaxTracks
      /\ tracks' = [tracks EXCEPT ![m] = @ + 1]
      /\ entry' = Replay(ent, list, m)
      /\ byPeer' = list
      /\ receivedBuffer' = {x \in receivedBuffer : x[2] # m}
      /\ readBuffer' = readBuffer \ {m}
      /\ row' = Mirror(rows, ent, entry')
      /\ UNCHANGED <<shipped, acked, readUpTo, dropped>>

\* sendText(): the row is written, then encryption finds the devices, then the
\* message is tracked and queued.
Send(m, D) ==
  /\ row[m] = "none"
  /\ D # {}
  /\ Track(m, D, [row EXCEPT ![m] = "pending"])
  /\ outbox' = [outbox EXCEPT ![m] = "queued"]
  /\ UNCHANGED gaveUp

\* sendText() of a message for which no device could be found or encrypted to.
SendFails(m) ==
  /\ row[m] = "none"
  /\ row' = [row EXCEPT ![m] = "failed"]
  /\ outbox' = [outbox EXCEPT ![m] = "gone"]
  /\ gaveUp' = gaveUp \cup {m}
  /\ UNCHANGED <<tracker, tracks, shipped, acked, readUpTo, dropped>>

\* retrySend(), up to the row.
RetryBegin(m) ==
  /\ row[m] = "failed"
  /\ row' = [row EXCEPT ![m] = "pending"]
  /\ outbox' = [outbox EXCEPT ![m] = "none"]
  /\ gaveUp' = gaveUp \cup {m}
  /\ UNCHANGED <<tracker, tracks, shipped, acked, readUpTo, dropped>>

\* retrySend(), the rest: the row is not written again.
Retry(m, D) ==
  /\ outbox[m] = "none"
  /\ row[m] # "none"
  /\ D # {}
  /\ Track(m, D, row)
  /\ outbox' = [outbox EXCEPT ![m] = "queued"]
  /\ UNCHANGED gaveUp

\* A self-echo of a sibling's message, or of its retry: the row is written and
\* the message tracked for the devices the cache knows.
Echo(m, D) ==
  /\ Track(m, D, [row EXCEPT ![m] = "pending"])
  /\ UNCHANGED <<outbox, gaveUp>>

\* A step of the tracker on what is tracked already.
Update(ent) ==
  /\ entry' = ent
  /\ row' = Mirror(row, entry, ent)
  /\ UNCHANGED <<byPeer, tracks>>

\* attempt() hands the frames to the socket and promotes every target.
Ship(m) ==
  /\ outbox[m] = "queued"
  /\ outbox' = [outbox EXCEPT ![m] = "sent"]
  /\ shipped' = shipped \cup ({m} \X {tracks[m]} \X entry[m].targets)
  /\ Update([entry EXCEPT ![m] = Bump(@, "sent")])
  /\ UNCHANGED <<receivedBuffer, readBuffer, acked, readUpTo, dropped, gaveUp>>

\* The outbox gives up: the row is written behind the tracker's back.
GiveUp(m) ==
  /\ outbox[m] = "queued"
  /\ outbox' = [outbox EXCEPT ![m] = "gone"]
  /\ row' = [row EXCEPT ![m] = "failed"]
  /\ gaveUp' = gaveUp \cup {m}
  /\ UNCHANGED <<tracker, tracks, shipped, acked, readUpTo, dropped>>

\* The error of an envelope, which fails the message when it is the last one
\* missing, unless a peer device has answered by then.
Rejected(r, u) ==
  LET e == [r EXCEPT !.errored = @ \cup {u}]
  IN  IF /\ Cardinality(e.errored) >= Cardinality(e.targets)
         /\ e.targets # {}
         /\ e.status \in {"pending", "sent"}
      THEN [e EXCEPT !.status = "failed"] ELSE e

\* onSendResult() of the node, for an envelope of any generation: `live` and
\* `stored` promote, `error` counts, `dropped` is ignored.
SendResult(m, g, d, outcome) ==
  /\ <<m, g, d>> \in shipped
  /\ Update([entry EXCEPT ![m] = IF outcome = "ok" THEN Bump(@, "sent") ELSE Rejected(@, <<g, d>>)])
  /\ UNCHANGED <<receivedBuffer, readBuffer, outbox, shipped, acked, readUpTo, dropped, gaveUp>>

\* The peer has seen a message that was shipped here or on the sibling.
OnItsWay(m) == m \in Sibling \/ \E e \in shipped : e[1] = m

\* onReceived() from a device of the peer, also one unknown at send time.
Received(d, m) ==
  /\ OnItsWay(m)
  /\ <<d, m>> \notin acked
  /\ acked' = acked \cup {<<d, m>>}
  /\ IF Tracked(m)
     THEN /\ Update([entry EXCEPT ![m] = ReceiveBy(@, {d})])
          /\ UNCHANGED <<receivedBuffer, dropped>>
     ELSE /\ receivedBuffer' \in Buffer(receivedBuffer, <<d, m>>)
          /\ dropped' = dropped \cup ((receivedBuffer \cup {<<d, m>>}) \ receivedBuffer')
          /\ UNCHANGED <<entry, byPeer, row, tracks>>
  /\ UNCHANGED <<readBuffer, outbox, shipped, readUpTo, gaveUp>>

\* onRead(): the peer's watermark, or a sibling's own one, which names a
\* message of the peer.
Read(x) ==
  /\ x \in Foreign \/ OnItsWay(x)
  /\ x \notin readUpTo
  /\ readUpTo' = readUpTo \cup {x}
  /\ IF x \in {byPeer[i] : i \in 1..Len(byPeer)}
     THEN /\ Update(ReadAll(entry, byPeer, x))
          /\ UNCHANGED <<readBuffer, dropped>>
     ELSE /\ readBuffer' \in Buffer(readBuffer, x)
          /\ dropped' = dropped \cup ((readBuffer \cup {x}) \ readBuffer')
          /\ UNCHANGED <<entry, byPeer, row, tracks>>
  /\ UNCHANGED <<receivedBuffer, outbox, shipped, acked, gaveUp>>

Next ==
  \/ \E m \in Own, D \in SUBSET Dev : Send(m, D) \/ Retry(m, D)
  \/ \E m \in Own : SendFails(m) \/ RetryBegin(m) \/ Ship(m) \/ GiveUp(m)
  \/ \E m \in Sibling, D \in SUBSET Dev : Echo(m, D)
  \/ \E m \in Own, g \in 1..MaxTracks, d \in Dev, outcome \in {"ok", "error"} :
       SendResult(m, g, d, outcome)
  \/ \E d \in Dev, m \in Msg : Received(d, m)
  \/ \E x \in Msg \cup Foreign : Read(x)

Spec == Init /\ [][Next]_vars

-----------------------------------------------------------------------------
\* A status is only as good as what arrived: deliveredAll needs a `received`
\* from every device the message went to, read a `read` of this message or a
\* later one, failed a rejection of every envelope while none was answered,
\* unless envelopes of an earlier attempt were counted in (status.ts bump,
\* forceSet and everything that calls them).
StatusHasEvidence ==
  \A m \in Msg :
    /\ entry[m].status = "delivered" => \E d \in Dev : <<d, m>> \in acked
    /\ entry[m].status = "deliveredAll" => \A d \in entry[m].targets : <<d, m>> \in acked
    /\ entry[m].status = "read" => \E x \in readUpTo : m \in UpTo(byPeer, x)
    /\ entry[m].status = "failed" /\ tracks[m] = 1 =>
         \A d \in entry[m].targets : <<1, d>> \in entry[m].errored

\* No event of the peer is forgotten, whether it came before or after the
\* message was tracked, as long as the buffers did not overflow and the message
\* was not tracked again (status.ts trackOutbound, the replay).
NothingForgotten ==
  \A m \in Msg :
    tracks[m] = 1 =>
      /\ \A d \in Dev : <<d, m>> \in acked \ dropped => d \in entry[m].received
      /\ \A x \in readUpTo \ dropped :
           x \in Msg /\ Tracked(x) /\ m \in UpTo(byPeer, x) => entry[m].status \in {"read", "failed"}

\* The buffers hold only what is still unresolved, and stay within their cap: a
\* replay neither loses an event that it cannot resolve nor keeps one that it
\* resolved.
BuffersUnresolved ==
  /\ \A x \in receivedBuffer : ~Tracked(x[2])
  /\ \A m \in Msg : m \in readBuffer => ~Tracked(m)
  /\ Cardinality(receivedBuffer) <= Cap /\ Cardinality(readBuffer) <= Cap

\* What is stored is what the tracker says, so that a reload shows the same
\* ticks, except after the outbox gave up or the user retried, which write the
\* row behind the tracker's back (index.ts, the status listener).
RowMirrorsTracker ==
  \A m \in Msg : m \notin gaveUp => row[m] = entry[m].status

\* A message that was not tracked again never goes down the ladder, and leaves
\* it for failed only from below delivered; failed is final.
LadderOnlyUp ==
  [][\A m \in Msg :
       tracks'[m] = tracks[m] =>
         \/ entry'[m].status = entry[m].status
         \/ rank[entry'[m].status] > rank[entry[m].status] /\ entry'[m].status # "failed"
         \/ entry[m].status \in {"pending", "sent"} /\ entry'[m].status = "failed"]_vars
=============================================================================
