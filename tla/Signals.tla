-------------------------------- MODULE Signals --------------------------------
(***************************************************************************)
(* One conversation of one device as the content events drive it           *)
(* (dispatchInboundEvent() and its callers in src/index.ts): the decoder   *)
(* (Codec) and the receipts (Receipts) together, with the local block      *)
(* list, disconnect() and reloads.                                         *)
(*                                                                         *)
(* What arrives is a raw JSON value, decrypted in a session with the peer  *)
(* or with a sibling of this device.  Events other modules treat in full   *)
(* (edits and tombstones, wipes and their watermarks, statuses) do here    *)
(* what they do to the state of this one.                                  *)
(***************************************************************************)
EXTENDS Codec, Receipts

CONSTANTS
  Wire, \* what arrives: [from : {"peer", "sibling"}, raw : a JSON value]
  Name  \* the ids of the texts, in the order of Text

ASSUME WireAssumption ==
  /\ \A w \in Wire : DOMAIN w = {"from", "raw"} /\ w.from \in {"peer", "sibling"} /\ Json(w.raw)
  /\ DOMAIN Name = Text

VARIABLES
  blocked, \* the peer is in blockedUserIds
  \* history
  owed,    \* ids of the events that must be acknowledged with `received'
  garbled  \* what arrived and was not taken as it was meant

marks == <<owed, garbled>>
vars == <<receiptVars, blocked, marks>>

Init == ReceiptsInit /\ blocked = FALSE /\ owed = {} /\ garbled = {}

Content == {"text", "edit", "delete"}
Id(e) == e["id"][2]
Kind(e) == e["type"][2]
Names(id) == {t \in Text : Name[t] = id}

-----------------------------------------------------------------------------
\* dispatchInboundEvent()

\* What no handler touches here.
Rest == <<lastReadSent, readReceipts, call, crashes, told>>

\* Mutant: of a blocked peer everything is dropped.
BlockedSilently(e) == UNCHANGED receiptVars

\* A blocked peer's events go nowhere; those with content are acknowledged.
Blocked(e) ==
  /\ UNCHANGED <<store, list, Rest>>
  /\ IF Kind(e) \in Content THEN QueueReceivedAck(Id(e)) ELSE UNCHANGED batch

\* The peer's; a wipe is followed unless it is older than the watermark.
FromPeer(e) ==
  /\ CASE Kind(e) = "text" -> \E t \in Names(Id(e)) : Store(t)
       [] Kind(e) = "delete" -> \E t \in Names(e["targetId"][2]) : Bury(t)
       [] Kind(e) = "chatDeleteAll" -> Wipe \/ UNCHANGED <<store, list>>
       [] OTHER -> UNCHANGED <<store, list>>
  /\ IF Kind(e) \in Content \cup {"chatDeleteAll"} THEN QueueReceivedAck(Id(e)) ELSE UNCHANGED batch
  /\ UNCHANGED Rest

\* A sibling's, of which only echoes count: what it sent to the peer.
FromSibling(e) ==
  IF Kind(e) # "selfEcho" THEN UNCHANGED receiptVars
  ELSE LET inner == e["original"][2]
       IN CASE Kind(inner) = "text" ->
                 (\E t \in Names(Id(inner)) : Store(t)) /\ UNCHANGED <<batch, Rest>>
            [] Kind(inner) = "read" ->
                 \E c \in Call, t \in Names(inner["upToId"][2]) : HearEcho(c, t)
            [] Kind(inner) \in {"chatDeleteSelf", "chatDeleteAll"} -> DeleteConversation
            [] OTHER -> UNCHANGED receiptVars

\* The watermark a sibling says it told, and the event that is to be
\* acknowledged.
Adopts(w, e) == IF w.from = "sibling" /\ Kind(e) = "selfEcho" /\ Kind(e["original"][2]) = "read"
                THEN Names(e["original"][2]["upToId"][2]) ELSE {}
Owes(w, e) == IF w.from = "peer" /\ (Kind(e) \in Content \/ (Kind(e) = "chatDeleteAll" /\ ~blocked))
              THEN {Id(e)} ELSE {}

\* The block list is asked first, and an echo must come from the user's own
\* session.
Route(w, e) ==
  IF w.from = "sibling" THEN FromSibling(e)
  ELSE IF blocked THEN Blocked(e) ELSE FromPeer(e)

Decoded == [w \in Wire |-> Decode(w.raw)]

\* What is let through is a well-formed event, which can be encoded again and
\* means the same then; what a factory made is let through as it was made.
Meant(x) ==
  /\ Decode(x) # Nothing =>
       LET e == Decode(x)[2]
       IN ContentEvent(e) /\ Encodable(e) /\ Decode(Encode(e)) = Decode(x)
  /\ x[1] = "object" /\ ContentEvent(x[2]) => Decode(Encode(x[2])) = x

Garbled == {w \in Wire : ~Meant(w.raw)}

\* What the decoder does not understand is dropped.
Receive(w) ==
  LET e == Decoded[w][2]
  IN /\ garbled' = garbled \cup ({w} \cap Garbled)
     /\ IF Decoded[w] = Nothing THEN UNCHANGED <<receiptVars, owed>>
        ELSE /\ Route(w, e)
             /\ tellings' = tellings \cup Adopts(w, e)
             /\ owed' = owed \cup Owes(w, e)
     /\ UNCHANGED blocked

-----------------------------------------------------------------------------
\* What the application calls

\* sendText() of a text that is new: it is stored before it is sent.
SendText(t) ==
  /\ t \in Own \ stored
  /\ Store(t)
  /\ UNCHANGED <<batch, Rest, blocked, marks>>

SetBlockedUserIds == blocked' = ~blocked /\ UNCHANGED <<receiptVars, marks>>

\* disconnect() sends the receipts that wait.
Disconnect ==
  /\ IF pendingReceived = <<>>
     THEN receivedFlushTimer' = FALSE /\ UNCHANGED <<pendingReceived, settled>>
     ELSE Flush(pendingReceived)
  /\ UNCHANGED <<store, list, Rest, blocked, marks>>

Next ==
  \/ \E w \in Wire : Receive(w)
  \/ \E t \in Text : SendText(t)
  \/ \E c \in Call :
       (Run(c) \/ \E t \in stored : MarkRead(c, t)) /\ UNCHANGED <<blocked, marks>>
  \/ (SetReadReceiptsEnabled \/ DeleteConversation \/ FlushTimer \/ Crash)
       /\ UNCHANGED <<blocked, marks>>
  \/ SetBlockedUserIds
  \/ Disconnect

Spec == Init /\ [][Next]_vars

-----------------------------------------------------------------------------
\* Every event with content that the decoder understood, a blocked peer's too,
\* is waiting in the batch with the timer armed and room for one more, or its
\* `received' was given to sendContent(), whose failure nobody looks at;
\* otherwise the page went.
AcksAccounted ==
  /\ owed \subseteq ToSet(pendingReceived) \cup settled
  /\ pendingReceived # <<>> => receivedFlushTimer /\ Len(pendingReceived) < FlushSize

\* Whatever arrives, over one hop or, echoed by a sibling, over two, is either
\* dropped or dispatched as the well-formed event it was made as.
CodecFaithful == garbled = {}
================================================================================
