---------------------------- MODULE SignalProofs ----------------------------
(***************************************************************************)
(* Proofs about Signals, Receipts and Codec: for any events on the wire,   *)
(* any number of texts and of overlapping calls, and batches of any size,  *)
(* what an event is taken for, what was told to the peer, and what the     *)
(* badge shows.                                                            *)
(***************************************************************************)
EXTENDS Signals, SequenceTheorems, FiniteSetTheorems, TLAPS

-----------------------------------------------------------------------------
\* The codec: what decodeEvent() lets through is a well-formed event, and
\* encoding and decoding it again gives the same event, for any JSON value.

\* An object is told from null, and holds what it was made of.
LEMMA ObjNotNothing == \A o : Obj(o) # Nothing /\ Obj(o)[1] = "object" /\ Obj(o)[2] = o
  BY DEF Obj, Nothing

\* An event that holds no other is let through as it is.
LEMMA FlatKept ==
  ASSUME NEW e, FlatEvent(e) PROVE DecodeFlat(e) = Obj(e)
<1> DEFINE d == [f \in Kept(e) |-> IF f = "v" THEN Num(1) ELSE e[f]]
<1>1. DecodeFlat(e) = Obj(d)
  BY DEF FlatEvent, DecodeFlat
<1>2. Kept(e) = DOMAIN e
  BY DEF FlatEvent, Kept, Has
<1>3. \A f \in DOMAIN e : (IF f = "v" THEN Num(1) ELSE e[f]) = e[f]
  BY DEF FlatEvent
<1>4. d = [f \in DOMAIN e |-> e[f]]
  BY <1>2, <1>3
<1>5. e = [f \in DOMAIN e |-> e[f]]
  BY DEF FlatEvent
<1>6. QED
  BY <1>1, <1>4, <1>5

\* An event with nothing undefined in it is encoded as it is.
LEMMA AllEncoded ==
  ASSUME NEW e, Defined(e), e = [f \in DOMAIN e |-> e[f]] PROVE Encode(e) = Obj(e)
<1>1. {g \in DOMAIN e : e[g][1] # "undefined"} = DOMAIN e
  BY DEF Defined
<1>2. QED
  BY <1>1 DEF Encode

\* What is let through is such an event.
LEMMA FlatDecoded ==
  ASSUME NEW o, DecodeFlat(o) # Nothing, Defined(o)
  PROVE \E e : DecodeFlat(o) = Obj(e) /\ FlatEvent(e) /\ Defined(e)
<1> DEFINE e == [f \in Kept(o) |-> IF f = "v" THEN Num(1) ELSE o[f]]
<1>1. /\ HeaderOk(o) /\ o["type"][2] # "selfEcho"
      /\ \A f \in Fields[o["type"][2]] : Has(o, f)
      /\ DecodeFlat(o) = Obj(e)
  BY DEF DecodeFlat
<1>2. DOMAIN e = Kept(o) /\ e = [f \in DOMAIN e |-> e[f]]
  OBVIOUS
<1>3. Header \subseteq Kept(o) /\ Fields[o["type"][2]] \subseteq Kept(o)
  BY DEF Kept
<1>4. \A f \in Kept(o) : Has(o, f)
  BY <1>1 DEF Kept, HeaderOk
<1>5. Valid("v", Num(1)) /\ Num(1)[1] = "number"
  BY DEF Valid, Num
<1>6. \A f \in DOMAIN e : Valid(f, e[f]) /\ e[f][1] # "undefined"
  BY <1>4, <1>5 DEF Has, Defined
<1>7. e["v"] = Num(1) /\ e["type"] = o["type"]
  BY <1>3 DEF Header
<1> HIDE DEF e
<1>8. HeaderOk(e) /\ \A f \in Fields[e["type"][2]] : Has(e, f)
  BY <1>1, <1>2, <1>3, <1>6, <1>7 DEF HeaderOk, Has
<1>9. DOMAIN e \subseteq Header \cup Fields[e["type"][2]] \cup Optional(e["type"][2])
  BY <1>2, <1>7 DEF Kept
<1>10. FlatEvent(e)
  BY <1>1, <1>2, <1>3, <1>6, <1>7, <1>8, <1>9 DEF FlatEvent
<1>11. QED
  BY <1>1, <1>6, <1>10 DEF Defined

\* Decoding a well-formed event of either sort gives the event.
LEMMA EventKept ==
  ASSUME NEW e, ContentEvent(e) PROVE Decode(Obj(e)) = Obj(e)
<1>0. Obj(e)[1] = "object" /\ Obj(e)[2] = e
  BY ObjNotNothing
<1>1. CASE FlatEvent(e)
  <2>1. Decode(Obj(e)) = DecodeFlat(e)
    BY <1>0, <1>1 DEF Decode, FlatEvent
  <2>2. QED
    BY <1>1, <2>1, FlatKept
<1>2. CASE ~FlatEvent(e)
  <2> DEFINE i == e["original"][2]
             d == [f \in Kept(e) |-> IF f = "v" THEN Num(1) ELSE IF f = "original" THEN Obj(i) ELSE e[f]]
  <2>1. /\ HeaderOk(e) /\ e["v"] = Num(1) /\ e["type"][2] = "selfEcho"
        /\ DOMAIN e = Header \cup Fields["selfEcho"] /\ e = [f \in DOMAIN e |-> e[f]]
        /\ Has(e, "originalPeer") /\ e["original"] = Obj(i)
        /\ FlatEvent(i) /\ i["type"][2] \in Echoable
    BY <1>2 DEF ContentEvent
  <2>2. DecodeFlat(i) = Obj(i) /\ Obj(i) # Nothing /\ Obj(i)[2] = i /\ Obj(i)[1] = "object"
    BY <2>1, FlatKept, ObjNotNothing
  <2>3. "original" \in DOMAIN e /\ e["original"][1] = "object"
    BY <2>1, <2>2 DEF Fields
  <2> HIDE DEF i
  <2>4. e["original"][2] = i
    BY DEF i
  <2>5. Decode(Obj(e)) = Obj(d)
    BY <1>0, <2>1, <2>2, <2>3, <2>4 DEF Decode
  <2>6. Kept(e) = DOMAIN e
    BY <2>1 DEF Kept, Optional
  <2>7. \A f \in DOMAIN e :
          (IF f = "v" THEN Num(1) ELSE IF f = "original" THEN Obj(i) ELSE e[f]) = e[f]
    BY <2>1
  <2>8. d = [f \in DOMAIN e |-> e[f]]
    BY <2>6, <2>7
  <2>9. QED
    BY <2>1, <2>5, <2>8
<1>3. QED
  BY <1>1, <1>2

\* What is let through is a well-formed event, all of it defined.
LEMMA EventDecoded ==
  ASSUME NEW x, Json(x), Decode(x) # Nothing
  PROVE \E e : Decode(x) = Obj(e) /\ ContentEvent(e) /\ Defined(e)
<1> DEFINE o == x[2]
<1>1. x[1] = "object" /\ HeaderOk(o) /\ Defined(o)
  BY DEF Decode, Json, DecodeFlat
<1>2. CASE o["type"][2] # "selfEcho"
  <2>1. Decode(x) = DecodeFlat(o)
    BY <1>1, <1>2 DEF Decode
  <2>2. QED
    BY <1>1, <2>1, FlatDecoded DEF ContentEvent
<1>3. CASE o["type"][2] = "selfEcho"
  <2> DEFINE inner == DecodeFlat(o["original"][2])
             e == [f \in Kept(o) |-> IF f = "v" THEN Num(1) ELSE IF f = "original" THEN inner ELSE o[f]]
  <2>1. /\ Has(o, "originalPeer") /\ "original" \in DOMAIN o /\ o["original"][1] = "object"
        /\ inner # Nothing /\ inner[2]["type"][2] \in Echoable /\ Decode(x) = Obj(e)
    BY <1>1, <1>3 DEF Decode
  <2>2. Defined(o["original"][2])
    BY <1>1, <2>1 DEF Json
  <2>3. PICK i : inner = Obj(i) /\ FlatEvent(i) /\ Defined(i)
    BY <2>1, <2>2, FlatDecoded
  <2>4. inner[2] = i /\ inner[1] = "object"
    BY <2>3, ObjNotNothing
  <2>5. Kept(o) = Header \cup Fields["selfEcho"] /\ Fields["selfEcho"] = {"originalPeer", "original"}
    BY <1>3 DEF Kept, Optional, Fields
  <2> HIDE DEF inner
  <2>6. DOMAIN e = Header \cup Fields["selfEcho"] /\ e = [f \in DOMAIN e |-> e[f]]
    BY <2>5
  <2>7. /\ e["v"] = Num(1) /\ e["type"] = o["type"] /\ e["id"] = o["id"]
        /\ e["clientSentAt"] = o["clientSentAt"]
        /\ e["original"] = inner /\ e["originalPeer"] = o["originalPeer"]
    BY <2>5 DEF Header
  <2> HIDE DEF e
  <2>8. Valid("v", Num(1)) /\ Num(1)[1] = "number"
    BY DEF Valid, Num
  <2>9. HeaderOk(e) /\ Has(e, "originalPeer")
    BY <1>1, <2>1, <2>5, <2>6, <2>7, <2>8 DEF HeaderOk, Has, Header
  <2>10. ContentEvent(e)
    BY <1>3, <2>1, <2>3, <2>4, <2>6, <2>7, <2>9 DEF ContentEvent
  <2>11. \A f \in DOMAIN o : o[f][1] # "undefined"
    BY <1>1 DEF Defined
  <2>12. {"type", "id", "clientSentAt", "originalPeer"} \subseteq DOMAIN o
    BY <1>1, <2>1 DEF HeaderOk, Has, Header
  <2>13. Defined(e)
    BY <2>4, <2>5, <2>6, <2>7, <2>8, <2>11, <2>12 DEF Defined, Header
  <2>14. QED
    BY <2>1, <2>10, <2>13
<1>4. QED
  BY <1>2, <1>3

\* Any JSON value is dropped, or taken as the event it was made as, here and
\* wherever it is echoed to (decodeEvent, encodeEvent, the self-echo).
THEOREM DecodingIsFaithful == ASSUME NEW x, Json(x) PROVE Meant(x)
<1>1. ASSUME Decode(x) # Nothing
      PROVE ContentEvent(Decode(x)[2]) /\ Encodable(Decode(x)[2])
            /\ Decode(Encode(Decode(x)[2])) = Decode(x)
  <2>1. PICK e : Decode(x) = Obj(e) /\ ContentEvent(e) /\ Defined(e)
    BY <1>1, EventDecoded
  <2>2. Decode(x)[2] = e
    BY <2>1, ObjNotNothing
  <2>3. HeaderOk(e) /\ e["v"] = Num(1) /\ e = [f \in DOMAIN e |-> e[f]]
    BY <2>1 DEF ContentEvent, FlatEvent
  <2>4. Encodable(e)
    <3>1. Header \subseteq DOMAIN e /\ Valid("id", e["id"]) /\ e["type"][2] \in Type
      BY <2>3 DEF HeaderOk, Has, Header
    <3>2. "" \notin Type
      BY DEF Type, Fields
    <3>3. e["id"][2] # ""
      BY <3>1 DEF Valid
    <3>4. QED
      BY <2>3, <3>1, <3>2, <3>3 DEF Encodable, Header
  <2>5. QED
    BY <2>1, <2>2, <2>3, <2>4, AllEncoded, EventKept
<1>2. ASSUME x[1] = "object", ContentEvent(x[2]) PROVE Decode(Encode(x[2])) = x
  <2>1. x = Obj(x[2]) /\ Defined(x[2])
    BY <1>2 DEF Json
  <2>2. x[2] = [f \in DOMAIN x[2] |-> x[2][f]]
    BY <1>2 DEF ContentEvent, FlatEvent
  <2>3. QED
    BY <1>2, <2>1, <2>2, AllEncoded, EventKept
<1>3. QED
  BY <1>1, <1>2 DEF Meant

\* So nothing that arrives is garbled.
THEOREM NothingGarbled == Spec => []CodecFaithful
<1>1. Garbled = {}
  BY WireAssumption, DecodingIsFaithful DEF Garbled
<1>2. Init => CodecFaithful
  BY DEF Init, CodecFaithful
<1>3. CodecFaithful /\ [Next]_vars => CodecFaithful'
  BY <1>1 DEF CodecFaithful, Next, vars, Receive, SendText, SetBlockedUserIds, Disconnect, marks
<1>4. QED
  BY <1>2, <1>3, PTL DEF Spec

-----------------------------------------------------------------------------
\* What is recorded as told was told

\* A run that is past the telling has told, or heard that a sibling has.
Told ==
  /\ lastReadSent \in tellings \cup {0}
  /\ call \in [Call -> [at : At, upTo : 0..LastSentAt]]
  /\ \A c \in Call : call[c].at \in {"adopting", "recalling", "storing"} => call[c].upTo \in tellings

\* Steps that touch neither the record nor the runs, nor take anything back.
LEMMA ToldStays ==
  ASSUME Told, tellings \subseteq tellings', UNCHANGED <<lastReadSent, call>>
  PROVE Told'
  BY DEF Told

\* What an event does to them: only an echoed `read' starts a run.
LEMMA RouteStep ==
  ASSUME NEW w \in Wire, NEW e, Route(w, e)
  PROVE \/ UNCHANGED <<lastReadSent, call>>
        \/ /\ w.from = "sibling" /\ Kind(e) = "selfEcho" /\ Kind(e["original"][2]) = "read"
           /\ \E c \in Call, t \in Names(e["original"][2]["upToId"][2]) : HearEcho(c, t)
<1>1. Blocked(e) => UNCHANGED <<lastReadSent, call>>
  BY DEF Blocked, Rest
<1>2. FromPeer(e) => UNCHANGED <<lastReadSent, call>>
  BY DEF FromPeer, Rest
<1>3. CASE w.from = "sibling" /\ FromSibling(e)
  <2> DEFINE inner == e["original"][2]
  <2>1. CASE Kind(e) # "selfEcho" \/ Kind(inner) \notin {"text", "read", "chatDeleteSelf", "chatDeleteAll"}
    BY <1>3, <2>1 DEF FromSibling, receiptVars
  <2>2. CASE Kind(e) = "selfEcho" /\ Kind(inner) = "text"
    BY <1>3, <2>2 DEF FromSibling, Rest
  <2>3. CASE Kind(e) = "selfEcho" /\ Kind(inner) = "read"
    BY <1>3, <2>3 DEF FromSibling
  <2>4. CASE Kind(e) = "selfEcho" /\ Kind(inner) \in {"chatDeleteSelf", "chatDeleteAll"}
    BY <1>3, <2>4 DEF FromSibling, DeleteConversation
  <2>5. QED
    BY <2>1, <2>2, <2>3, <2>4
<1>4. CASE w.from # "sibling"
  BY <1>1, <1>2, <1>4 DEF Route
<1>5. QED
  BY <1>3, <1>4 DEF Route

\* An event keeps it: the run an echo starts carries what the sibling told.
LEMMA ReceiveTold == ASSUME Told, NEW w \in Wire, Receive(w) PROVE Told'
<1> DEFINE e == Decoded[w][2]
           inner == e["original"][2]
<1>1. CASE Decoded[w] = Nothing
  BY <1>1, ToldStays DEF Receive, receiptVars, told
<1>2. CASE Decoded[w] # Nothing
  <2>1. Route(w, e) /\ tellings' = tellings \cup Adopts(w, e)
    BY <1>2 DEF Receive
  <2>2. CASE UNCHANGED <<lastReadSent, call>>
    BY <2>1, <2>2, ToldStays
  <2>3. ASSUME w.from = "sibling", Kind(e) = "selfEcho", Kind(inner) = "read",
               NEW c \in Call, NEW t \in Names(inner["upToId"][2]), HearEcho(c, t)
        PROVE Told'
    <3>1. t \in tellings' /\ tellings \subseteq tellings'
      BY <2>1, <2>3 DEF Adopts
    <3>2. t \in 0..LastSentAt
      BY ReceiptsAssumption DEF Names, Text
    <3>3. call' = [call EXCEPT ![c] = [at |-> "adopting", upTo |-> t]] /\ lastReadSent' = lastReadSent
      BY <2>3 DEF HearEcho
    <3>4. QED
      BY <3>1, <3>2, <3>3 DEF Told, At
  <2>4. QED
    BY <2>1, <2>2, <2>3, RouteStep
<1>3. QED
  BY <1>1, <1>2

\* So does every step of a call: what is recorded was sent just before.
LEMMA RunTold == ASSUME Told, NEW c \in Call, Run(c) PROVE Told'
<1> USE DEF Told, At, Move, Done, Idle, told
<1>0. 0 \in 0..LastSentAt
  BY ReceiptsAssumption
<1>1. CASE Bump(c)
  BY <1>0, <1>1 DEF Bump
<1>2. CASE Gate(c)
  BY <1>0, <1>2 DEF Gate
<1>3. CASE SendRead(c)
  BY <1>0, <1>3 DEF SendRead
<1>4. CASE Recall(c)
  BY <1>0, <1>4 DEF Recall
<1>5. CASE Record(c)
  BY <1>0, <1>5 DEF Record
<1>6. QED
  BY <1>1, <1>2, <1>3, <1>4, <1>5 DEF Run

\* Only texts are stored, whatever an event names.
LEMMA StoreStep == ASSUME stored \subseteq Text, [Next]_vars PROVE stored' \subseteq Text
<1>1. ASSUME NEW t \in Text, Store(t) PROVE stored' \subseteq Text
  BY <1>1 DEF Store
<1>2. ASSUME NEW w \in Wire, Receive(w) PROVE stored' \subseteq Text
  <2> DEFINE e == Decoded[w][2]
             inner == e["original"][2]
  <2>1. \A id : Names(id) \subseteq Text
    BY DEF Names
  <2>2. CASE Decoded[w] = Nothing
    BY <1>2, <2>2 DEF Receive, receiptVars, store
  <2>3. CASE Decoded[w] # Nothing /\ w.from # "sibling" /\ Blocked(e)
    BY <2>3 DEF Blocked, store
  <2>4. CASE Decoded[w] # Nothing /\ w.from # "sibling" /\ FromPeer(e)
    <3>1. CASE Kind(e) = "text"
      BY <1>1, <2>1, <2>4, <3>1 DEF FromPeer
    <3>2. CASE Kind(e) = "delete"
      BY <2>4, <3>2 DEF FromPeer, Bury
    <3>3. CASE Kind(e) = "chatDeleteAll"
      BY <2>4, <3>3 DEF FromPeer, Wipe, store
    <3>4. CASE Kind(e) \notin {"text", "delete", "chatDeleteAll"}
      BY <2>4, <3>4 DEF FromPeer, store
    <3>5. QED
      BY <3>1, <3>2, <3>3, <3>4
  <2>5. CASE Decoded[w] # Nothing /\ w.from = "sibling" /\ FromSibling(e)
    <3>1. CASE Kind(e) # "selfEcho" \/ Kind(inner) \notin {"text", "read", "chatDeleteSelf", "chatDeleteAll"}
      BY <2>5, <3>1 DEF FromSibling, receiptVars, store
    <3>2. CASE Kind(e) = "selfEcho" /\ Kind(inner) = "text"
      BY <1>1, <2>1, <2>5, <3>2 DEF FromSibling
    <3>3. CASE Kind(e) = "selfEcho" /\ Kind(inner) = "read"
      BY <2>5, <3>3 DEF FromSibling, HearEcho, store
    <3>4. CASE Kind(e) = "selfEcho" /\ Kind(inner) \in {"chatDeleteSelf", "chatDeleteAll"}
      BY <2>5, <3>4 DEF FromSibling, DeleteConversation, Wipe
    <3>5. QED
      BY <3>1, <3>2, <3>3, <3>4
  <2>6. QED
    BY <1>2, <2>2, <2>3, <2>4, <2>5 DEF Receive, Route
<1>3. ASSUME NEW t \in Text, SendText(t) PROVE stored' \subseteq Text
  BY <1>1, <1>3 DEF SendText
<1>4. ASSUME NEW c \in Call, Run(c) PROVE stored' \subseteq Text
  BY <1>4 DEF Run, Bump, Gate, SendRead, Recall, Record, store
<1>5. ASSUME NEW c \in Call, NEW t \in stored, MarkRead(c, t) PROVE stored' \subseteq Text
  BY <1>5 DEF MarkRead, store
<1>6. CASE SetReadReceiptsEnabled \/ DeleteConversation \/ FlushTimer \/ Crash
  BY <1>6 DEF SetReadReceiptsEnabled, DeleteConversation, Wipe, FlushTimer, Crash, store
<1>7. CASE SetBlockedUserIds \/ Disconnect \/ UNCHANGED vars
  BY <1>7 DEF SetBlockedUserIds, Disconnect, vars, receiptVars, store
<1>8. QED
  BY <1>2, <1>3, <1>4, <1>5, <1>6, <1>7 DEF Next

\* Hence what markRead() is called for is a text.
LEMMA OnlyTextsStored == Spec => [](stored \subseteq Text)
<1>1. Init => stored \subseteq Text
  BY DEF Init, ReceiptsInit
<1>2. stored \subseteq Text /\ [Next]_vars => (stored \subseteq Text)'
  BY StoreStep
<1>3. QED
  BY <1>1, <1>2, PTL DEF Spec

\* What this device has recorded as told to the peer, the peer was told by this
\* device or by a sibling, whatever calls overlap, fail or are cut off
\* (markRead, setLastReadSent, the self-echoed `read').
THEOREM RecordedWasTold == Spec => []RecordedIsTold
<1>1. Init => Told
  BY ReceiptsAssumption DEF Init, ReceiptsInit, Told, At, Idle
<1>2. Told /\ stored \subseteq Text /\ [Next]_vars => Told'
  <2> SUFFICES ASSUME Told, stored \subseteq Text, [Next]_vars PROVE Told'
    OBVIOUS
  <2>1. ASSUME NEW w \in Wire, Receive(w) PROVE Told'
    BY <2>1, ReceiveTold
  <2>2. ASSUME NEW t \in Text, SendText(t) PROVE Told'
    BY <2>2, ToldStays DEF SendText, Rest, told
  <2>3. ASSUME NEW c \in Call, Run(c) PROVE Told'
    BY <2>3, RunTold
  <2>4. ASSUME NEW c \in Call, NEW t \in stored, MarkRead(c, t) PROVE Told'
    <3>1. t \in 0..LastSentAt
      BY <2>4, ReceiptsAssumption DEF Text
    <3>2. QED
      BY <2>4, <3>1 DEF MarkRead, Told, At, told
  <2>5. CASE SetReadReceiptsEnabled \/ DeleteConversation \/ FlushTimer
    BY <2>5, ToldStays DEF SetReadReceiptsEnabled, DeleteConversation, FlushTimer, told
  <2>6. CASE Crash
    BY <2>6, ReceiptsAssumption DEF Crash, Told, At, Idle
  <2>7. CASE SetBlockedUserIds
    BY <2>7, ToldStays DEF SetBlockedUserIds, receiptVars, told
  <2>8. CASE Disconnect
    BY <2>8, ToldStays DEF Disconnect, Rest, told
  <2>9. CASE UNCHANGED vars
    BY <2>9, ToldStays DEF vars, receiptVars, told
  <2>10. QED
    BY <2>1, <2>2, <2>3, <2>4, <2>5, <2>6, <2>7, <2>8, <2>9 DEF Next
<1>3. Told => RecordedIsTold
  BY DEF Told, RecordedIsTold
<1>4. Spec => [](stored \subseteq Text)
  BY OnlyTextsStored
<1>5. QED
  BY <1>1, <1>2, <1>3, <1>4, PTL DEF Spec

-----------------------------------------------------------------------------
\* Acknowledgements

Ids == {Id(Decoded[w][2]) : w \in Wire}

\* A batch that waits has a timer and room for one more.
BatchOk ==
  /\ pendingReceived \in Seq(Ids) /\ receivedFlushTimer \in BOOLEAN
  /\ pendingReceived # <<>> => receivedFlushTimer = TRUE /\ Len(pendingReceived) < FlushSize

Held == ToSet(pendingReceived) \cup settled

\* What appending to a sequence does to its length and its set.
LEMMA AppendHolds ==
  ASSUME NEW S, NEW s \in Seq(S), NEW e \in S
  PROVE /\ Append(s, e) \in Seq(S) /\ Append(s, e) # <<>> /\ Len(Append(s, e)) = Len(s) + 1
        /\ ToSet(Append(s, e)) = ToSet(s) \cup {e}
<1>1. /\ Append(s, e) \in Seq(S) /\ Append(s, e) # <<>> /\ Len(Append(s, e)) = Len(s) + 1
      /\ DOMAIN s = 1..Len(s) /\ DOMAIN Append(s, e) = 1..(Len(s) + 1) /\ Len(s) \in Nat
      /\ \A i \in 1..Len(s) : Append(s, e)[i] = s[i]
      /\ Append(s, e)[Len(s) + 1] = e
  OBVIOUS
<1>2. 1..(Len(s) + 1) = 1..Len(s) \cup {Len(s) + 1}
  BY <1>1
<1>3. QED
  BY <1>1, <1>2 DEF ToSet

\* An empty batch is a batch.
LEMMA EmptyBatch == ToSet(<<>>) = {} /\ <<>> \in Seq(Ids)
  BY DEF ToSet

\* A queued receipt is held, and nothing that was held gets lost.
LEMMA QueueHolds ==
  ASSUME BatchOk, NEW e \in Ids, QueueReceivedAck(e)
  PROVE BatchOk' /\ Held \cup {e} \subseteq Held'
<1> DEFINE s == Append(pendingReceived, e)
<1>0. /\ s \in Seq(Ids) /\ s # <<>> /\ Len(s) = Len(pendingReceived) + 1
      /\ ToSet(s) = ToSet(pendingReceived) \cup {e}
  BY AppendHolds DEF BatchOk
<1>1. CASE Len(pendingReceived) + 1 >= FlushSize
  <2>1. /\ receivedFlushTimer' = FALSE /\ pendingReceived' = <<>>
        /\ settled' = settled \cup ToSet(s)
    BY <1>1 DEF QueueReceivedAck, Flush
  <2> HIDE DEF s
  <2>2. BatchOk'
    BY <2>1, EmptyBatch DEF BatchOk
  <2>3. QED
    BY <1>0, <2>1, <2>2 DEF Held
<1>2. CASE ~(Len(pendingReceived) + 1 >= FlushSize)
  <2>1. pendingReceived' = s /\ receivedFlushTimer' = TRUE /\ settled' = settled
    BY <1>2 DEF QueueReceivedAck
  <2>2. Len(s) < FlushSize
    BY <1>0, <1>2, ReceiptsAssumption DEF BatchOk
  <2> HIDE DEF s
  <2>3. BatchOk'
    BY <1>0, <2>1, <2>2 DEF BatchOk
  <2>4. QED
    BY <1>0, <2>1, <2>3 DEF Held
<1>3. QED
  BY <1>1, <1>2

\* A flush gives all that waits to sendContent().
LEMMA FlushHolds ==
  ASSUME BatchOk, Flush(pendingReceived) PROVE BatchOk' /\ Held \subseteq Held'
<1>1. /\ receivedFlushTimer' = FALSE /\ pendingReceived' = <<>>
      /\ settled' = settled \cup ToSet(pendingReceived)
  BY DEF Flush
<1>2. BatchOk'
  BY <1>1, EmptyBatch DEF BatchOk
<1>3. QED
  BY <1>1, <1>2 DEF Held

\* Steps that leave the batch alone.
LEMMA BatchStays ==
  ASSUME BatchOk, UNCHANGED batch PROVE BatchOk' /\ Held' = Held
  BY DEF BatchOk, batch, Held

\* What must be acknowledged is queued by the handler, a blocked peer's too.
LEMMA ReceiveHolds ==
  ASSUME BatchOk, NEW w \in Wire, Receive(w), Decoded[w] # Nothing
  PROVE BatchOk' /\ Held \cup Owes(w, Decoded[w][2]) \subseteq Held'
<1> DEFINE e == Decoded[w][2]
<1>1. Id(e) \in Ids
  BY DEF Ids
<1>2. Route(w, e)
  BY DEF Receive
<1>3. CASE w.from = "sibling"
  <2>1. UNCHANGED batch
    BY <1>2, <1>3 DEF Route, FromSibling, HearEcho, DeleteConversation, receiptVars
  <2>2. QED
    BY <1>3, <2>1, BatchStays DEF Owes
<1>4. CASE w.from # "sibling" /\ blocked
  <2>1. Blocked(e) /\ Owes(w, e) \subseteq (IF Kind(e) \in Content THEN {Id(e)} ELSE {})
    BY <1>2, <1>4 DEF Route, Owes
  <2>2. CASE Kind(e) \in Content
    BY <1>1, <2>1, <2>2, QueueHolds DEF Blocked
  <2>3. CASE Kind(e) \notin Content
    BY <2>1, <2>3, BatchStays DEF Blocked
  <2>4. QED
    BY <2>2, <2>3
<1>5. CASE w.from # "sibling" /\ ~blocked
  <2>1. FromPeer(e) /\ Owes(w, e) \subseteq (IF Kind(e) \in Content \cup {"chatDeleteAll"} THEN {Id(e)} ELSE {})
    BY <1>2, <1>5 DEF Route, Owes
  <2>2. CASE Kind(e) \in Content \cup {"chatDeleteAll"}
    BY <1>1, <2>1, <2>2, QueueHolds DEF FromPeer
  <2>3. CASE Kind(e) \notin Content \cup {"chatDeleteAll"}
    BY <2>1, <2>3, BatchStays DEF FromPeer
  <2>4. QED
    BY <2>2, <2>3
<1>6. QED
  BY <1>3, <1>4, <1>5

AcksInv == BatchOk /\ owed \subseteq Held

\* Every step leaves an event that must be acknowledged waiting or settled.
LEMMA AcksStep == ASSUME AcksInv, [Next]_vars PROVE AcksInv'
<1>1. BatchOk /\ owed \subseteq Held
  BY DEF AcksInv
<1>2. ASSUME UNCHANGED batch, owed' = owed PROVE AcksInv'
  BY <1>1, <1>2, BatchStays DEF AcksInv
<1>3. ASSUME NEW w \in Wire, Receive(w) PROVE AcksInv'
  <2>1. CASE Decoded[w] = Nothing
    BY <1>2, <1>3, <2>1 DEF Receive, receiptVars
  <2>2. CASE Decoded[w] # Nothing
    <3>1. owed' = owed \cup Owes(w, Decoded[w][2])
      BY <1>3, <2>2 DEF Receive
    <3>2. QED
      BY <1>1, <1>3, <2>2, <3>1, ReceiveHolds DEF AcksInv
  <2>3. QED
    BY <2>1, <2>2
<1>4. ASSUME NEW t \in Text, SendText(t) PROVE AcksInv'
  BY <1>2, <1>4 DEF SendText, marks
<1>5. ASSUME NEW c \in Call, Run(c), UNCHANGED marks PROVE AcksInv'
  BY <1>2, <1>5 DEF Run, Bump, Gate, SendRead, Recall, Record, marks
<1>6. ASSUME NEW c \in Call, NEW t \in stored, MarkRead(c, t), UNCHANGED marks PROVE AcksInv'
  BY <1>2, <1>6 DEF MarkRead, marks
<1>7. CASE (SetReadReceiptsEnabled \/ DeleteConversation) /\ UNCHANGED marks
  BY <1>2, <1>7 DEF SetReadReceiptsEnabled, DeleteConversation, marks
<1>8. CASE FlushTimer /\ UNCHANGED marks
  BY <1>1, <1>8, FlushHolds DEF AcksInv, FlushTimer, marks
<1>9. CASE Crash /\ UNCHANGED marks
  <2>1. /\ receivedFlushTimer' = FALSE /\ pendingReceived' = <<>>
        /\ settled' = settled \cup ToSet(pendingReceived) /\ owed' = owed
    BY <1>9 DEF Crash, marks
  <2>2. BatchOk'
    BY <2>1, EmptyBatch DEF BatchOk
  <2>3. QED
    BY <1>1, <2>1, <2>2 DEF AcksInv, Held
<1>10. CASE SetBlockedUserIds
  BY <1>2, <1>10 DEF SetBlockedUserIds, receiptVars, marks
<1>11. CASE Disconnect
  <2>1. CASE pendingReceived = <<>>
    BY <1>1, <1>11, <2>1 DEF AcksInv, BatchOk, Held, Disconnect, marks
  <2>2. CASE pendingReceived # <<>>
    BY <1>1, <1>11, <2>2, FlushHolds DEF AcksInv, Disconnect, marks
  <2>3. QED
    BY <2>1, <2>2
<1>12. CASE UNCHANGED vars
  BY <1>2, <1>12 DEF vars, receiptVars, marks
<1>13. QED
  BY <1>3, <1>4, <1>5, <1>6, <1>7, <1>8, <1>9, <1>10, <1>11, <1>12 DEF Next

\* Every event with content that the decoder understood is in the batch, which
\* has a timer, or was given to sendContent(), or went with the page: no order
\* of arrivals, full batches, timers, disconnects, reloads and changes of the
\* block list leaves one behind (queueReceivedAck, flushReceivedBatch).
THEOREM AcksAreAccounted == Spec => []AcksAccounted
<1>1. Init => AcksInv
  BY EmptyBatch DEF Init, ReceiptsInit, AcksInv, BatchOk, Held
<1>2. AcksInv /\ [Next]_vars => AcksInv'
  BY AcksStep
<1>3. AcksInv => AcksAccounted
  BY DEF AcksInv, BatchOk, Held, AcksAccounted
<1>4. QED
  BY <1>1, <1>2, <1>3, PTL DEF Spec

-----------------------------------------------------------------------------
\* The badge

\* The newest message of the list is in the store.
ListedIsStored == lastMessageAt \in Nat /\ (lastMessageAt = 0 \/ lastMessageAt \in stored)

BadgeInv == ListedIsStored /\ BadgeCurrent

\* A text that is stored raises the row, or is an own one, or is late.
LEMMA StoreBadge ==
  ASSUME BadgeInv, NEW t \in Text, Store(t) PROVE BadgeInv'
<1> DEFINE changed == lastMessageAt' # lastMessageAt \/ lastReadFromPeerAt' # lastReadFromPeerAt
           silent == t \in dead \/ (t \notin Own /\ t < lastMessageAt)
<1>0. t \in Nat /\ t > 0 /\ lastMessageAt \in Nat
  BY ReceiptsAssumption DEF Text, BadgeInv, ListedIsStored
<1>1. ListedIsStored'
  BY <1>0 DEF Store, Larger, BadgeInv, ListedIsStored
<1>2. CASE changed
  <2>1. badge' = Unread(stored', dead', lastReadFromPeerAt')
    BY <1>2 DEF Store, Emit
  <2>2. BadgeCurrent'
    BY <2>1 DEF BadgeCurrent, Unread
  <2>3. QED
    BY <1>1, <2>2 DEF BadgeInv
<1>3. CASE ~changed /\ silent
  BY <1>1, <1>3 DEF Store, Emit, BadgeCurrent, BadgeInv
<1>4. CASE ~changed /\ ~silent
  <2>1. (unlisted => unlisted') /\ badge' = badge
    BY <1>4 DEF Store, Emit
  <2>2. stored' = stored \cup {t} /\ dead' = dead /\ lastReadFromPeerAt' = lastReadFromPeerAt
    BY <1>4 DEF Store
  <2>3. t \in Own \/ t \in stored
    BY <1>0, <1>4 DEF Store, Larger, BadgeInv, ListedIsStored
  <2>4. {x \in stored' : x \notin Own \cup dead' /\ x > lastReadFromPeerAt'}
        = {x \in stored : x \notin Own \cup dead /\ x > lastReadFromPeerAt}
    BY <2>2, <2>3
  <2>5. Unread(stored, dead, lastReadFromPeerAt)' = Unread(stored, dead, lastReadFromPeerAt)
    BY <2>4 DEF Unread
  <2>6. QED
    BY <1>1, <2>1, <2>5 DEF BadgeInv, BadgeCurrent
<1>5. QED
  BY <1>1, <1>2, <1>3, <1>4 DEF BadgeInv

\* A tombstone of a stored text changes the count in silence; any other, nothing.
LEMMA BuryBadge == ASSUME BadgeInv, NEW t, Bury(t) PROVE BadgeInv'
  BY DEF BadgeInv, ListedIsStored, BadgeCurrent, Bury

\* A wipe says what is left.
LEMMA WipeBadge == ASSUME Wipe PROVE BadgeInv'
  BY DEF BadgeInv, ListedIsStored, BadgeCurrent, Wipe, Emit

\* Steps that leave the list and the store alone.
LEMMA BadgeStays == ASSUME BadgeInv, UNCHANGED <<store, list>> PROVE BadgeInv'
  BY DEF BadgeInv, ListedIsStored, BadgeCurrent, store, list

\* An event changes the list by way of a text, a tombstone or a wipe.
LEMMA ReceiveBadge == ASSUME BadgeInv, NEW w \in Wire, Receive(w) PROVE BadgeInv'
<1> DEFINE e == Decoded[w][2]
           inner == e["original"][2]
<1>0. \A id : Names(id) \subseteq Text
  BY DEF Names
<1>1. CASE Decoded[w] = Nothing
  BY <1>1, BadgeStays DEF Receive, receiptVars
<1>2. CASE Decoded[w] # Nothing /\ w.from # "sibling" /\ Blocked(e)
  BY <1>2, BadgeStays DEF Blocked
<1>3. CASE Decoded[w] # Nothing /\ w.from # "sibling" /\ FromPeer(e)
  <2>1. CASE Kind(e) = "text"
    BY <1>0, <1>3, <2>1, StoreBadge DEF FromPeer
  <2>2. CASE Kind(e) = "delete"
    BY <1>3, <2>2, BuryBadge DEF FromPeer
  <2>3. CASE Kind(e) = "chatDeleteAll"
    BY <1>3, <2>3, WipeBadge, BadgeStays DEF FromPeer
  <2>4. CASE Kind(e) \notin {"text", "delete", "chatDeleteAll"}
    BY <1>3, <2>4, BadgeStays DEF FromPeer
  <2>5. QED
    BY <2>1, <2>2, <2>3, <2>4
<1>4. CASE Decoded[w] # Nothing /\ w.from = "sibling" /\ FromSibling(e)
  <2>1. CASE Kind(e) # "selfEcho" \/ Kind(inner) \notin {"text", "read", "chatDeleteSelf", "chatDeleteAll"}
    BY <1>4, <2>1, BadgeStays DEF FromSibling, receiptVars
  <2>2. CASE Kind(e) = "selfEcho" /\ Kind(inner) = "text"
    BY <1>0, <1>4, <2>2, StoreBadge DEF FromSibling
  <2>3. CASE Kind(e) = "selfEcho" /\ Kind(inner) = "read"
    BY <1>4, <2>3, BadgeStays DEF FromSibling, HearEcho
  <2>4. CASE Kind(e) = "selfEcho" /\ Kind(inner) \in {"chatDeleteSelf", "chatDeleteAll"}
    BY <1>4, <2>4, WipeBadge DEF FromSibling, DeleteConversation
  <2>5. QED
    BY <2>1, <2>2, <2>3, <2>4
<1>5. QED
  BY <1>1, <1>2, <1>3, <1>4 DEF Receive, Route

\* The badge told last is the unread count, whatever texts, tombstones, wipes,
\* echoes and calls come in which order, unless one of the silent changes came
\* after it (onMessageStored, bumpReadWatermark, emitConversationsChanged).
THEOREM BadgeIsTheCount == Spec => []BadgeCurrent
<1>1. Init => BadgeInv
  <2>1. \A S : {x \in {} : x \notin Own \cup S /\ x > 0} = {}
    OBVIOUS
  <2>2. QED
    BY <2>1, FS_EmptySet DEF Init, ReceiptsInit, BadgeInv, ListedIsStored, BadgeCurrent, Unread
<1>2. BadgeInv /\ [Next]_vars => BadgeInv'
  <2> SUFFICES ASSUME BadgeInv, [Next]_vars PROVE BadgeInv'
    OBVIOUS
  <2>1. ASSUME NEW w \in Wire, Receive(w) PROVE BadgeInv'
    BY <2>1, ReceiveBadge
  <2>2. ASSUME NEW t \in Text, SendText(t) PROVE BadgeInv'
    BY <2>2, StoreBadge DEF SendText
  <2>3. ASSUME NEW c \in Call, Bump(c) PROVE BadgeInv'
    <3>1. CASE lastReadFromPeerAt' # lastReadFromPeerAt
      BY <2>3, <3>1 DEF Bump, Emit, BadgeInv, ListedIsStored, BadgeCurrent
    <3>2. CASE lastReadFromPeerAt' = lastReadFromPeerAt
      BY <2>3, <3>2 DEF Bump, Emit, BadgeInv, ListedIsStored, BadgeCurrent
    <3>3. QED
      BY <3>1, <3>2
  <2>4. ASSUME NEW c \in Call, Gate(c) \/ SendRead(c) \/ Recall(c) \/ Record(c) PROVE BadgeInv'
    BY <2>4, BadgeStays DEF Gate, SendRead, Recall, Record
  <2>5. ASSUME NEW c \in Call, NEW t \in stored, MarkRead(c, t) PROVE BadgeInv'
    BY <2>5, BadgeStays DEF MarkRead
  <2>6. CASE DeleteConversation
    BY <2>6, WipeBadge DEF DeleteConversation
  <2>7. CASE SetReadReceiptsEnabled \/ FlushTimer \/ Crash
    BY <2>7, BadgeStays DEF SetReadReceiptsEnabled, FlushTimer, Crash
  <2>8. CASE SetBlockedUserIds \/ Disconnect \/ UNCHANGED vars
    BY <2>8, BadgeStays DEF SetBlockedUserIds, Disconnect, vars, receiptVars
  <2>9. QED
    BY <2>1, <2>2, <2>3, <2>4, <2>5, <2>6, <2>7, <2>8 DEF Next, Run
<1>3. BadgeInv => BadgeCurrent
  BY DEF BadgeInv
<1>4. QED
  BY <1>1, <1>2, <1>3, PTL DEF Spec

-----------------------------------------------------------------------------
\* Receipts advance

CallsTyped ==
  /\ lastReadSent \in Nat /\ highest \in Nat
  /\ call \in [Call -> [at : At, upTo : Nat]]

\* What is known while at most one run records at a time and no crash cut one
\* off: what was told or recorded is recorded, apart from what that run tells.
OneRecords ==
  /\ \A c, d \in Recording : c = d
  /\ Recording = {} => highest <= lastReadSent
  /\ \A c \in Recording :
       /\ call[c].at = "sending" => highest <= lastReadSent /\ lastReadSent < call[c].upTo
       /\ call[c].at = "recalling" => highest <= Larger(lastReadSent, call[c].upTo)
       /\ call[c].at = "storing" => highest <= call[c].upTo /\ lastReadSent < call[c].upTo

AdvanceInv == CallsTyped /\ IsFiniteSet(Recording) /\ (~raced /\ ~cut => OneRecords)

\* A set that does not have more than one element.
LEMMA AtMostOne ==
  ASSUME NEW S, IsFiniteSet(S), ~(Cardinality(S) > 1) PROVE \A x, y \in S : x = y
<1> SUFFICES ASSUME NEW x \in S, NEW y \in S, x # y PROVE FALSE
  OBVIOUS
<1>1. IsFiniteSet({x, y}) /\ Cardinality({x, y}) = 2
  <2>1. IsFiniteSet({x}) /\ Cardinality({x}) = 1
    BY FS_Singleton
  <2>2. IsFiniteSet({x} \cup {y}) /\ Cardinality({x} \cup {y}) = Cardinality({x}) + 1
    BY <2>1, FS_AddElement
  <2>3. {x} \cup {y} = {x, y}
    OBVIOUS
  <2>4. QED
    BY <2>1, <2>2, <2>3
<1>2. Cardinality({x, y}) <= Cardinality(S) /\ Cardinality(S) \in Nat
  <2>1. {x, y} \subseteq S
    OBVIOUS
  <2>2. QED
    BY <2>1, FS_Subset, FS_CardinalityType
<1>3. QED
  BY <1>1, <1>2

\* A step of one run puts at most that run among those that record.
LEMMA RecordingGrows ==
  ASSUME AdvanceInv, NEW c \in Call, \A d \in Call \ {c} : call'[d] = call[d]
  PROVE IsFiniteSet(Recording') /\ Recording' \subseteq Recording \cup {c} /\ Recording \subseteq Recording' \cup {c}
<1>1. Recording' \subseteq Recording \cup {c} /\ Recording \subseteq Recording' \cup {c}
  BY DEF Recording
<1>2. IsFiniteSet(Recording \cup {c})
  BY FS_AddElement DEF AdvanceInv
<1>3. QED
  BY <1>1, <1>2, FS_Subset

\* Steps that touch neither runs nor marks.
LEMMA AdvanceStays ==
  ASSUME AdvanceInv, UNCHANGED <<lastReadSent, call, highest, raced, cut>> PROVE AdvanceInv'
  BY DEF AdvanceInv, CallsTyped, OneRecords, Recording

\* A call that begins records nothing yet.
LEMMA BeginAdvance ==
  ASSUME AdvanceInv, NEW c \in Call, NEW t \in Text, MarkRead(c, t) \/ HearEcho(c, t) PROVE AdvanceInv'
<1>1. /\ call[c].at = "idle" /\ UNCHANGED <<lastReadSent, highest, raced, cut>>
      /\ \E a \in {"bumping", "adopting"} : call' = [call EXCEPT ![c] = [at |-> a, upTo |-> t]]
  BY DEF MarkRead, HearEcho, told
<1>2. CallsTyped'
  BY <1>1, ReceiptsAssumption DEF AdvanceInv, CallsTyped, At, Text
<1>3. Recording' = Recording
  BY <1>1 DEF AdvanceInv, CallsTyped, Recording
<1>4. \A d \in Recording : call'[d] = call[d]
  BY <1>1 DEF AdvanceInv, CallsTyped, Recording
<1>5. OneRecords => OneRecords'
  BY <1>1, <1>3, <1>4 DEF OneRecords
<1>6. QED
  BY <1>1, <1>2, <1>3, <1>5 DEF AdvanceInv

\* One that goes on keeps it, unless it finds another at it.
LEMMA RunAdvance == ASSUME AdvanceInv, NEW c \in Call, Run(c) PROVE AdvanceInv'
<1> USE DEF Move, Done, Idle, told
<1>0. CallsTyped /\ (\A d \in Call \ {c} : call'[d] = call[d]) /\ cut' = cut
  BY DEF AdvanceInv, CallsTyped, Run, Bump, Gate, SendRead, Recall, Record
<1>1. CallsTyped'
  <2>1. CASE Bump(c)
    BY <1>0, <2>1 DEF CallsTyped, At, Bump
  <2>2. CASE Gate(c)
    BY <1>0, <2>2 DEF CallsTyped, At, Gate
  <2>3. CASE SendRead(c)
    BY <1>0, <2>3 DEF CallsTyped, At, SendRead, Larger
  <2>4. CASE Recall(c)
    BY <1>0, <2>4 DEF CallsTyped, At, Recall
  <2>5. CASE Record(c)
    BY <1>0, <2>5 DEF CallsTyped, At, Record, Larger
  <2>6. QED
    BY <2>1, <2>2, <2>3, <2>4, <2>5 DEF Run
<1>2. /\ IsFiniteSet(Recording') /\ Recording' \subseteq Recording \cup {c}
      /\ Recording \subseteq Recording' \cup {c}
  BY <1>0, RecordingGrows
<1>3. SUFFICES ASSUME ~raced', ~cut', OneRecords PROVE OneRecords'
  <2>1. ~raced' => ~raced
    BY DEF Run, Bump, Gate, SendRead, Recall, Record, Race
  <2>2. QED
    BY <1>0, <1>1, <1>2, <2>1 DEF AdvanceInv
<1>4. CASE Bump(c)
  <2>1. \A x, y \in Recording' : x = y
    BY <1>2, <1>3, <1>4, AtMostOne DEF Bump, Race
  <2>2. c \notin Recording /\ UNCHANGED <<lastReadSent, highest>>
    BY <1>4 DEF Bump, Recording
  <2>3. CASE c \in Recording'
    <3>1. Recording = {}
      BY <1>2, <2>1, <2>2, <2>3
    <3>2. call'[c].at = "recalling" /\ Recording' = {c}
      BY <1>0, <1>2, <1>4, <2>3, <3>1 DEF Bump, Recording, CallsTyped
    <3>3. QED
      BY <1>0, <1>1, <1>3, <2>2, <3>1, <3>2 DEF OneRecords, Larger, CallsTyped
  <2>4. CASE c \notin Recording'
    <3>1. Recording' = Recording /\ \A d \in Recording : call'[d] = call[d]
      BY <1>0, <1>2, <2>2, <2>4 DEF Recording
    <3>2. QED
      BY <1>3, <2>2, <3>1 DEF OneRecords
  <2>5. QED
    BY <2>3, <2>4
<1>5. CASE Gate(c)
  <2>1. \A x, y \in Recording' : x = y
    BY <1>2, <1>3, <1>5, AtMostOne DEF Gate, Race
  <2>2. c \notin Recording /\ UNCHANGED <<lastReadSent, highest>>
    BY <1>5 DEF Gate, Recording
  <2>3. CASE c \in Recording'
    <3>1. Recording = {}
      BY <1>2, <2>1, <2>2, <2>3
    <3>2. call'[c].at = "sending" /\ call'[c].upTo > lastReadSent /\ Recording' = {c}
      BY <1>0, <1>2, <1>5, <2>3, <3>1 DEF Gate, Recording, CallsTyped
    <3>3. QED
      BY <1>0, <1>1, <1>3, <2>2, <3>1, <3>2 DEF OneRecords, CallsTyped
  <2>4. CASE c \notin Recording'
    <3>1. Recording' = Recording /\ \A d \in Recording : call'[d] = call[d]
      BY <1>0, <1>2, <2>2, <2>4 DEF Recording
    <3>2. QED
      BY <1>3, <2>2, <3>1 DEF OneRecords
  <2>5. QED
    BY <2>3, <2>4
<1>6. CASE SendRead(c) \/ Recall(c) \/ Record(c)
  <2>1. c \in Recording
    BY <1>6 DEF SendRead, Recall, Record, Recording
  <2>2. Recording = {c}
    BY <1>3, <2>1 DEF OneRecords
  <2>3. Recording' \subseteq {c}
    BY <1>2, <2>2
  <2>4. (c \in Recording') <=> call'[c].at \in {"sending", "recalling", "storing"}
    BY DEF Recording
  <2>5. CASE SendRead(c)
    BY <1>0, <1>3, <2>1, <2>3, <2>4, <2>5 DEF SendRead, OneRecords, CallsTyped, Larger
  <2>6. CASE Recall(c)
    BY <1>0, <1>3, <2>1, <2>3, <2>4, <2>6 DEF Recall, OneRecords, CallsTyped, Larger
  <2>7. CASE Record(c)
    BY <1>0, <1>3, <2>1, <2>3, <2>4, <2>7 DEF Record, OneRecords, CallsTyped, Larger
  <2>8. QED
    BY <1>6, <2>5, <2>6, <2>7
<1>7. QED
  BY <1>4, <1>5, <1>6 DEF Run

\* A crash between telling and recording is marked; elsewhere it takes nothing
\* back that is recorded.
LEMMA CrashAdvance == ASSUME AdvanceInv, Crash PROVE AdvanceInv'
<1>1. /\ call' = [c \in Call |-> Idle] /\ UNCHANGED <<lastReadSent, highest, raced>>
      /\ cut' = (cut \/ Recording # {})
  BY DEF Crash
<1>2. Recording' = {}
  BY <1>1 DEF Recording, Idle
<1>3. CallsTyped'
  BY <1>1 DEF AdvanceInv, CallsTyped, At, Idle
<1>4. ~raced' /\ ~cut' => OneRecords'
  BY <1>1, <1>2 DEF AdvanceInv, OneRecords
<1>5. QED
  BY <1>2, <1>3, <1>4, FS_EmptySet DEF AdvanceInv

\* What an event leaves alone, unless it starts a run.
LEMMA RouteMarks ==
  ASSUME NEW w \in Wire, NEW e, Route(w, e) PROVE UNCHANGED <<highest, raced, cut>>
<1> DEFINE inner == e["original"][2]
<1>1. CASE w.from = "sibling"
  BY <1>1 DEF Route, FromSibling, HearEcho, DeleteConversation, receiptVars, Rest, told
<1>2. CASE w.from # "sibling"
  BY <1>2 DEF Route, FromPeer, Blocked, Rest, told
<1>3. QED
  BY <1>1, <1>2

\* So does everything else: an event starts a run at most.
LEMMA AdvanceStep == ASSUME AdvanceInv, stored \subseteq Text, [Next]_vars PROVE AdvanceInv'
<1>1. ASSUME NEW w \in Wire, Receive(w) PROVE AdvanceInv'
  <2> DEFINE e == Decoded[w][2]
  <2>1. CASE Decoded[w] = Nothing
    BY <1>1, <2>1, AdvanceStays DEF Receive, receiptVars, told
  <2>2. CASE Decoded[w] # Nothing
    BY <1>1, <2>2, RouteMarks, RouteStep, AdvanceStays, BeginAdvance DEF Receive, Names
  <2>3. QED
    BY <2>1, <2>2
<1>2. ASSUME NEW t \in Text, SendText(t) PROVE AdvanceInv'
  BY <1>2, AdvanceStays DEF SendText, Rest, told
<1>3. ASSUME NEW c \in Call, Run(c) PROVE AdvanceInv'
  BY <1>3, RunAdvance
<1>4. ASSUME NEW c \in Call, NEW t \in stored, MarkRead(c, t) PROVE AdvanceInv'
  BY <1>4, BeginAdvance
<1>5. CASE SetReadReceiptsEnabled \/ DeleteConversation \/ FlushTimer
  BY <1>5, AdvanceStays DEF SetReadReceiptsEnabled, DeleteConversation, FlushTimer, told
<1>6. CASE Crash
  BY <1>6, CrashAdvance
<1>7. CASE SetBlockedUserIds \/ Disconnect \/ UNCHANGED vars
  BY <1>7, AdvanceStays DEF SetBlockedUserIds, Disconnect, Rest, vars, receiptVars, told
<1>8. QED
  BY <1>1, <1>2, <1>3, <1>4, <1>5, <1>6, <1>7 DEF Next

\* Every read receipt says more than all before it and than what siblings were
\* heard to have said, through failed sends, repeated calls and reloads, unless
\* two runs recorded at once or a reload cut one off (markRead,
\* setLastReadSent).
THEOREM ReceiptsOnlyAdvance == Spec => ReceiptsAdvance
<1>1. Init => AdvanceInv
  <2>1. Init => Recording = {}
    BY DEF Init, ReceiptsInit, Recording, Idle
  <2>2. Init => CallsTyped /\ highest <= lastReadSent
    BY DEF Init, ReceiptsInit, CallsTyped, At, Idle
  <2>3. QED
    BY <2>1, <2>2, FS_EmptySet DEF AdvanceInv, OneRecords
<1>2. AdvanceInv /\ stored \subseteq Text /\ [Next]_vars => AdvanceInv'
  BY AdvanceStep
<1>3. ASSUME AdvanceInv, [Next]_vars, NEW c \in Call, call[c].at = "sending", call'[c].at = "recalling"
      PROVE raced \/ cut \/ call[c].upTo > highest
  <2>1. c \in Recording
    BY <1>3 DEF Recording
  <2>2. QED
    BY <1>3, <2>1 DEF AdvanceInv, OneRecords, CallsTyped
<1>4. AdvanceInv /\ [Next]_vars =>
        [\A c \in Call : call[c].at = "sending" /\ call'[c].at = "recalling"
                         => raced \/ cut \/ call[c].upTo > highest]_receiptVars
  BY <1>3
<1>5. Spec => [](stored \subseteq Text)
  BY OnlyTextsStored
<1>6. QED
  BY <1>1, <1>2, <1>4, <1>5, PTL DEF Spec, ReceiptsAdvance
=============================================================================
