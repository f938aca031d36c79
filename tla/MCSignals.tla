------------------------------ MODULE MCSignals ------------------------------
(***************************************************************************)
(* What is on the wire: an event of every kind from the peer, a tombstone  *)
(* with a field nobody knows, an application's event whose payload got     *)
(* lost in JSON, an echo the peer forged, an event of a later version, the *)
(* echoes of a sibling, one with junk inside, and what is no JSON.         *)
(***************************************************************************)
EXTENDS Signals, TLC

Sent == <<"m1", "m2">>
OwnTexts == {2}
Symmetry == Permutations(Call)

From(who, e) == [from |-> who, raw |-> Obj(e)]
Later2 == [newText("m1", 1, "hi") EXCEPT !["v"] = Num(2)]
Tomb == newDelete("d1", 4, "m1")
Extended == [f \in DOMAIN Tomb \cup {"mood"} |-> IF f = "mood" THEN Str("fine") ELSE Tomb[f]]
Inner == [f \in DOMAIN newRead("r9", 4, "m2") \ {"upToId"} |-> newRead("r9", 4, "m2")[f]]

Arrivals ==
  {From("peer", newText("m1", 1, "hi")),
   From("peer", Extended),
   From("peer", newReply("m1", 1, "hi", "m0")),
   From("peer", newEdit("d1", 4, "m1", "ho")),
   From("peer", newRead("r2", 4, "m2")),
   From("peer", newReceived("r3", 4, <<"m2">>)),
   From("peer", newTyping("t1", 4, "started")),
   From("peer", newApp("a1", 4, "game", Num(7))),
   From("peer", Encode(newApp("a2", 4, "game", Undefined))[2]),
   From("peer", newChatDeleteAll("w1", 4)),
   From("peer", newSelfEcho("s1", 4, "peer", newRead("r1", 4, "m1"))),
   From("peer", Later2),
   From("sibling", newSelfEcho("s2", 4, "peer", newText("m2", 2, "yo"))),
   From("sibling", newSelfEcho("s3", 4, "peer", newRead("r1", 4, "m1"))),
   From("sibling", newSelfEcho("s4", 4, "peer", newDelete("d2", 4, "m2"))),
   From("sibling", newSelfEcho("s5", 4, "peer", newChatDeleteAll("w2", 4))),
   From("sibling", newSelfEcho("s7", 4, "peer", newChatDeleteSelf("w3", 4, "peer"))),
   From("sibling", newSelfEcho("s6", 4, "peer", Inner)),
   [from |-> "peer", raw |-> Nothing]}
=============================================================================
