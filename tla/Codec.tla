-------------------------------- MODULE Codec --------------------------------
(***************************************************************************)
(* The content events that travel inside the ciphertext                    *)
(* (src/content/protocol.ts): what the factories make, what encodeEvent()  *)
(* puts on the wire and what decodeEvent() takes off it.                   *)
(*                                                                         *)
(* A JSON value is the pair of its kind and its content.  An object is a   *)
(* function from the names of its fields to values; a field that is not in *)
(* its domain is absent.  `undefined' is a value an event may hold and     *)
(* JSON cannot.  decodeEvent() calls itself for the event in a self-echo;  *)
(* as that one must be of an echoable kind, which holds no further event,  *)
(* one level is all there is.                                              *)
(***************************************************************************)
EXTENDS Integers

Nothing == <<"null", "null">>
Num(n) == <<"number", n>>
Str(s) == <<"string", s>>
Strs(q) == <<"strings", q>>
Obj(o) == <<"object", o>>
Undefined == <<"undefined", "undefined">>

\* The fields each kind of event must have besides the header, and may have.
Fields ==
  [text |-> {"text"}, edit |-> {"targetId", "text"}, delete |-> {"targetId"},
   read |-> {"upToId"}, received |-> {"ids"}, typing |-> {"state"},
   selfEcho |-> {"originalPeer", "original"}, chatDeleteSelf |-> {"peerUserId"},
   chatDeleteAll |-> {}, app |-> {"ns", "payload"}]

Header == {"v", "id", "type", "clientSentAt"}
Type == DOMAIN Fields
Optional(type) == IF type = "text" THEN {"replyTo"} ELSE {}
Echoable == {"text", "edit", "delete", "read", "chatDeleteSelf", "chatDeleteAll"}

\* What JSON.parse() may yield: no field is undefined, two levels down.
Defined(o) == \A f \in DOMAIN o : o[f][1] # "undefined"
Json(x) ==
  x[1] = "object" =>
    /\ x = Obj(x[2]) /\ Defined(x[2])
    /\ \A f \in DOMAIN x[2] : x[2][f][1] = "object" => Defined(x[2][f][2])

-----------------------------------------------------------------------------
\* decodeEvent()

\* What the decoder asks of a field, whatever the kind of event; of `original'
\* see Decode.
Valid(f, x) ==
  CASE f = "v" -> x[1] = "number" /\ x[2] =< 1
    [] f = "clientSentAt" -> x[1] = "number"
    [] f = "ids" -> x[1] = "strings"
    [] f = "payload" -> TRUE
    [] f = "state" -> x[1] = "string" /\ x[2] \in {"started", "stopped"}
    [] f \in {"id", "originalPeer", "peerUserId", "ns"} -> x[1] = "string" /\ x[2] # ""
    [] OTHER -> x[1] = "string"

Has(o, f) == f \in DOMAIN o /\ Valid(f, o[f])

HeaderOk(o) == (\A f \in Header : Has(o, f)) /\ o["type"][2] \in Type

\* Mutant: what came is kept, whatever it is.
KeptWhatever(o) == DOMAIN o

\* The fields of the decoded event: those of its kind, and the optional ones
\* that have the right type.
Kept(o) ==
  Header \cup Fields[o["type"][2]] \cup {f \in Optional(o["type"][2]) : Has(o, f)}

\* An event that holds no other.
DecodeFlat(o) ==
  IF HeaderOk(o) /\ o["type"][2] # "selfEcho" /\ (\A f \in Fields[o["type"][2]] : Has(o, f))
  THEN Obj([f \in Kept(o) |-> IF f = "v" THEN Num(1) ELSE o[f]])
  ELSE Nothing

\* decodeEvent(), of a value or of what is no JSON (Nothing).
Decode(x) ==
  IF x[1] # "object" THEN Nothing
  ELSE LET o == x[2]
       IN IF ~HeaderOk(o) \/ o["type"][2] # "selfEcho" THEN DecodeFlat(o)
          ELSE IF Has(o, "originalPeer") /\ "original" \in DOMAIN o /\ o["original"][1] = "object"
               THEN LET inner == DecodeFlat(o["original"][2])
                    IN IF inner # Nothing /\ inner[2]["type"][2] \in Echoable
                       THEN Obj([f \in Kept(o) |-> IF f = "v" THEN Num(1)
                                                   ELSE IF f = "original" THEN inner ELSE o[f]])
                       ELSE Nothing
               ELSE Nothing

-----------------------------------------------------------------------------
\* encodeEvent()

\* The SDK builds events itself: a wrong version, an empty id or kind throws.
Encodable(e) ==
  /\ {"v", "id", "type"} \subseteq DOMAIN e
  /\ e["v"] = Num(1) /\ e["id"][2] # "" /\ e["type"][2] # ""

\* JSON.stringify() leaves out what is undefined.
Encode(e) == Obj([f \in {g \in DOMAIN e : e[g][1] # "undefined"} |-> e[f]])

-----------------------------------------------------------------------------
\* The factories.  The id and the time are arguments here.

Event(type, id, at, body) ==
  [f \in Header \cup DOMAIN body |->
     CASE f = "v" -> Num(1)
       [] f = "id" -> Str(id)
       [] f = "type" -> Str(type)
       [] f = "clientSentAt" -> Num(at)
       [] OTHER -> body[f]]

newText(id, at, text) == Event("text", id, at, [text |-> Str(text)])
newReply(id, at, text, replyTo) ==
  Event("text", id, at, [text |-> Str(text), replyTo |-> Str(replyTo)])
newEdit(id, at, targetId, text) ==
  Event("edit", id, at, [targetId |-> Str(targetId), text |-> Str(text)])
newDelete(id, at, targetId) == Event("delete", id, at, [targetId |-> Str(targetId)])
newRead(id, at, upToId) == Event("read", id, at, [upToId |-> Str(upToId)])
newReceived(id, at, ids) == Event("received", id, at, [ids |-> Strs(ids)])
newTyping(id, at, state) == Event("typing", id, at, [state |-> Str(state)])
newChatDeleteSelf(id, at, peer) == Event("chatDeleteSelf", id, at, [peerUserId |-> Str(peer)])
newChatDeleteAll(id, at) == Event("chatDeleteAll", id, at, [f \in {} |-> Nothing])
newApp(id, at, ns, payload) == Event("app", id, at, [ns |-> Str(ns), payload |-> payload])
newSelfEcho(id, at, peer, original) ==
  Event("selfEcho", id, at, [originalPeer |-> Str(peer), original |-> Obj(original)])

-----------------------------------------------------------------------------
\* A well-formed event: the header of version 1, the fields of its kind and at
\* most the optional ones, each of its type, and a well-formed echoable event
\* inside a self-echo.
FlatEvent(e) ==
  /\ HeaderOk(e) /\ e["v"] = Num(1) /\ e["type"][2] # "selfEcho"
  /\ \A f \in Fields[e["type"][2]] : Has(e, f)
  /\ Header \cup Fields[e["type"][2]] \subseteq DOMAIN e
  /\ DOMAIN e \subseteq Header \cup Fields[e["type"][2]] \cup Optional(e["type"][2])
  /\ \A f \in DOMAIN e : Valid(f, e[f])
  /\ e = [f \in DOMAIN e |-> e[f]]

ContentEvent(e) ==
  \/ FlatEvent(e)
  \/ /\ HeaderOk(e) /\ e["v"] = Num(1) /\ e["type"][2] = "selfEcho"
     /\ DOMAIN e = Header \cup Fields["selfEcho"]
     /\ e = [f \in DOMAIN e |-> e[f]]
     /\ Has(e, "originalPeer")
     /\ e["original"] = Obj(e["original"][2])
     /\ FlatEvent(e["original"][2]) /\ e["original"][2]["type"][2] \in Echoable
=============================================================================
