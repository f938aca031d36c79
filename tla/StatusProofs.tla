---------------------------- MODULE StatusProofs ----------------------------
(***************************************************************************)
(* Proofs about StatusTracker, for any sets of messages and devices, any   *)
(* cap of the buffers and any number of retries.                           *)
(***************************************************************************)
EXTENDS StatusTracker, FiniteSetTheorems, TLAPS

Rung == Status \cup {"none"}

-----------------------------------------------------------------------------
\* What becomes of an entry that is not tracked anew: it keeps its targets, its
\* sets only grow, and its status moves along the ladder.
Climbs(s, t) ==
  \/ t = s
  \/ s # "none" /\ rank[t] > rank[s] /\ t \notin {"none", "failed"}
  \/ s \in {"pending", "sent"} /\ t = "failed"

Evolves(r, s) ==
  /\ s.targets = r.targets
  /\ r.devices \subseteq s.devices
  /\ r.received \subseteq s.received
  /\ Climbs(r.status, s.status)

LEMMA Ranks ==
  /\ rank["none"] = 0 /\ rank["pending"] = 0 /\ rank["sent"] = 1 /\ rank["delivered"] = 2
  /\ rank["deliveredAll"] = 3 /\ rank["read"] = 4 /\ rank["failed"] = 99
BY DEF rank

\* Only a step to a rung above, and never off the empty entry.
LEMMA BumpFacts ==
  ASSUME NEW r \in Entry, NEW s \in Status \ {"failed"}
  PROVE  /\ Bump(r, s) \in Entry
         /\ Evolves(r, Bump(r, s))
         /\ Bump(r, s).devices = r.devices
         /\ Bump(r, s).received = r.received
         /\ Bump(r, s).errored = r.errored
         /\ Bump(r, s).status \in {r.status, s}
BY DEF Bump, Entry, Status, Evolves, Climbs

\* A `read` leaves a tracked entry read, unless it has failed.
LEMMA BumpRead ==
  ASSUME NEW r \in Entry, r.status # "none"
  PROVE  Bump(r, "read").status \in {"read", "failed"}
BY Ranks DEF Bump, Entry, Status

\* `received` of some devices: they are added, and deliveredAll is claimed only
\* when every device the tracker knows has answered.
LEMMA ReceiveByFacts ==
  ASSUME NEW r \in Entry, NEW D \in SUBSET Dev
  PROVE  LET s == ReceiveBy(r, D)
         IN  /\ s \in Entry
             /\ Evolves(r, s)
             /\ s.devices = r.devices \cup D
             /\ s.received = r.received \cup D
             /\ s.errored = r.errored
             /\ \/ s.status = r.status
                \/ s.status = "delivered" /\ D # {}
                \/ s.status = "deliveredAll" /\ s.received = s.devices
<1> DEFINE got == [r EXCEPT !.devices = @ \cup D, !.received = @ \cup D]
<1>1. got \in Entry
  BY DEF Entry
<1>2. CASE D = {}
  BY <1>2 DEF ReceiveBy, Evolves, Climbs, Entry
<1>3. CASE D # {}
  <2>1. PICK s \in {"delivered", "deliveredAll"} :
          /\ ReceiveBy(r, D) = Bump(got, s)
          /\ s = "deliveredAll" => got.received = got.devices
    BY <1>3 DEF ReceiveBy
  <2>2. s \in Status \ {"failed"}
    BY DEF Status
  <2>3. /\ Bump(got, s) \in Entry
        /\ Evolves(got, Bump(got, s))
        /\ Bump(got, s).devices = got.devices
        /\ Bump(got, s).received = got.received
        /\ Bump(got, s).errored = got.errored
        /\ Bump(got, s).status \in {got.status, s}
    BY <1>1, <2>2, BumpFacts
  <2>4. /\ got.devices = r.devices \cup D /\ got.received = r.received \cup D
        /\ got.targets = r.targets /\ got.errored = r.errored /\ got.status = r.status
    BY DEF Entry
  <2>5. QED
    BY <1>3, <2>1, <2>3, <2>4 DEF Evolves
<1>4. QED
  BY <1>2, <1>3

\* An error: the entry fails only from below delivered, when as many envelopes
\* were rejected as were sent.
LEMMA RejectedFacts ==
  ASSUME NEW r \in Entry, NEW u \in Nat \X Dev
  PROVE  LET s == Rejected(r, u)
         IN  /\ s \in Entry
             /\ Evolves(r, s)
             /\ s.devices = r.devices
             /\ s.received = r.received
             /\ s.errored = r.errored \cup {u}
             /\ \/ s.status = r.status
                \/ s.status = "failed" /\ Cardinality(s.errored) >= Cardinality(s.targets)
<1> DEFINE e == [r EXCEPT !.errored = @ \cup {u}]
<1>1. /\ e \in Entry /\ e.targets = r.targets /\ e.devices = r.devices /\ e.received = r.received
      /\ e.errored = r.errored \cup {u} /\ e.status = r.status
  BY DEF Entry
<1>2. CASE Rejected(r, u) = e
  BY <1>1, <1>2 DEF Evolves, Climbs
<1>3. CASE /\ Rejected(r, u) = [e EXCEPT !.status = "failed"]
           /\ e.status \in {"pending", "sent"}
           /\ Cardinality(e.errored) >= Cardinality(e.targets)
  <2> DEFINE s == [e EXCEPT !.status = "failed"]
  <2>1. /\ s \in Entry /\ s.targets = e.targets /\ s.devices = e.devices
        /\ s.received = e.received /\ s.errored = e.errored /\ s.status = "failed"
    BY <1>1 DEF Entry, Status
  <2>2. QED
    BY <1>1, <1>3, <2>1 DEF Evolves, Climbs
<1>4. QED
  BY <1>2, <1>3 DEF Rejected

\* A `read` of a message reaches the messages up to it, and only those.
LEMMA ReadAllFacts ==
  ASSUME NEW ent \in [Msg -> Entry], NEW list, NEW m
  PROVE  /\ ReadAll(ent, list, m) \in [Msg -> Entry]
         /\ \A n \in Msg :
              LET s == ReadAll(ent, list, m)[n]
              IN  /\ Evolves(ent[n], s)
                  /\ s.devices = ent[n].devices
                  /\ s.received = ent[n].received
                  /\ s.errored = ent[n].errored
                  /\ s.status = ent[n].status \/ (s.status = "read" /\ n \in UpTo(list, m))
                  /\ n \in UpTo(list, m) /\ ent[n].status # "none" => s.status \in {"read", "failed"}
<1>1. "read" \in Status \ {"failed"}
  BY DEF Status
<1>2. ASSUME NEW n \in Msg
      PROVE  LET s == IF n \in UpTo(list, m) THEN Bump(ent[n], "read") ELSE ent[n]
             IN  /\ s \in Entry
                 /\ Evolves(ent[n], s)
                 /\ s.devices = ent[n].devices
                 /\ s.received = ent[n].received
                 /\ s.errored = ent[n].errored
                 /\ s.status = ent[n].status \/ (s.status = "read" /\ n \in UpTo(list, m))
                 /\ n \in UpTo(list, m) /\ ent[n].status # "none" => s.status \in {"read", "failed"}
  <2>1. ent[n] \in Entry
    OBVIOUS
  <2>2. CASE n \in UpTo(list, m)
    BY <1>1, <2>1, <2>2, BumpFacts, BumpRead
  <2>3. CASE n \notin UpTo(list, m)
    BY <2>1, <2>3 DEF Evolves, Climbs
  <2>4. QED
    BY <2>2, <2>3
<1>3. QED
  BY <1>2 DEF ReadAll

\* The messages up to m stay so when the list grows, and no other one joins
\* them once m is listed.
LEMMA UpToGrows ==
  ASSUME NEW list \in Seq(Msg), NEW x \in Msg, NEW m
  PROVE  /\ UpTo(list, m) \subseteq UpTo(Append(list, x), m)
         /\ (\E i \in 1..Len(list) : list[i] = m) => UpTo(Append(list, x), m) = UpTo(list, m)
         /\ UpTo(list, m) \subseteq Msg
<1> DEFINE long == Append(list, x)
<1>1. Len(list) \in Nat /\ Len(long) = Len(list) + 1 /\ \A i \in 1..Len(list) : long[i] = list[i] /\ list[i] \in Msg
  OBVIOUS
<1>2. ASSUME NEW y \in UpTo(list, m) PROVE y \in UpTo(long, m) /\ y \in Msg
  <2>1. PICK i \in 1..Len(list) : list[i] = y /\ \A k \in 1..(i - 1) : list[k] # m
    BY DEF UpTo
  <2>2. i \in 1..Len(long) /\ long[i] = y /\ \A k \in 1..(i - 1) : long[k] # m
    BY <1>1, <2>1
  <2>3. QED
    BY <1>1, <2>1, <2>2 DEF UpTo
<1>3. ASSUME NEW j \in 1..Len(list), list[j] = m, NEW y \in UpTo(long, m) PROVE y \in UpTo(list, m)
  <2>1. PICK i \in 1..Len(long) : long[i] = y /\ \A k \in 1..(i - 1) : long[k] # m
    BY DEF UpTo
  <2>2. i \in 1..Len(list)
    BY <1>1, <1>3, <2>1
  <2>3. QED
    BY <1>1, <2>1, <2>2 DEF UpTo
<1>4. QED
  BY <1>2, <1>3

-----------------------------------------------------------------------------
\* The listener writes what changed and nothing else.
LEMMA MirrorFacts ==
  ASSUME NEW rows \in [Msg -> Rung], NEW a \in [Msg -> Entry], NEW b \in [Msg -> Entry]
  PROVE  /\ Mirror(rows, a, b) \in [Msg -> Rung]
         /\ \A n \in Msg :
              /\ rows[n] = a[n].status => Mirror(rows, a, b)[n] = b[n].status
              /\ a[n].status = b[n].status => Mirror(rows, a, b)[n] = rows[n]
BY DEF Mirror, Rung, Entry

\* What tracking message m, whose rows are these, does to the other entries.
OthersEvolve(m, rows) ==
  /\ \A n \in Msg \ {m} :
       /\ Evolves(entry[n], entry'[n])
       /\ entry'[n].devices = entry[n].devices
       /\ entry'[n].received = entry[n].received
       /\ entry'[n].errored = entry[n].errored
       /\ \/ entry'[n].status = entry[n].status
          \/ entry'[n].status = "read" /\ m \in readBuffer /\ n \in UpTo(byPeer', m)
       /\ rows[n] = entry[n].status => row'[n] = entry'[n].status
       /\ entry'[n].status = entry[n].status => row'[n] = rows[n]
       /\ m \in readBuffer /\ n \in UpTo(byPeer', m) /\ entry[n].status # "none" =>
            entry'[n].status \in {"read", "failed"}

\* The entry of a message just tracked for devices D, with what was buffered.
NewEntry(m, D) ==
  /\ entry'[m].targets = D
  /\ D \subseteq entry'[m].devices
  /\ entry'[m].received = {d \in Dev : <<d, m>> \in receivedBuffer}
  /\ entry'[m].errored = {}
  /\ \/ entry'[m].status = "pending"
     \/ entry'[m].status = "delivered" /\ entry'[m].received # {}
     \/ entry'[m].status = "deliveredAll" /\ entry'[m].received = entry'[m].devices
     \/ entry'[m].status = "read" /\ m \in readBuffer /\ m \in UpTo(byPeer', m)
  /\ m \in readBuffer /\ m \in UpTo(byPeer', m) => entry'[m].status \in {"read", "failed"}

\* What tracking a message does to the entries.
LEMMA TrackFacts ==
  ASSUME TypeOK, NEW m \in Msg, NEW D \in SUBSET Dev, NEW rows \in [Msg -> Rung], Track(m, D, rows)
  PROVE  /\ entry' \in [Msg -> Entry] /\ byPeer' \in Seq(Msg) /\ tracks' \in [Msg -> Nat]
         /\ row' \in [Msg -> Rung]
         /\ byPeer' = Append(byPeer, m) /\ tracks' = [tracks EXCEPT ![m] = @ + 1]
         /\ OthersEvolve(m, rows)
         /\ NewEntry(m, D)
         /\ rows[m] = "pending" => row'[m] = entry'[m].status
<1> DEFINE ent  == [entry EXCEPT ![m] = Fresh(D)]
           list == Append(byPeer, m)
           acks == {d \in Dev : <<d, m>> \in receivedBuffer}
           got  == [ent EXCEPT ![m] = ReceiveBy(@, acks)]
<1>1. entry \in [Msg -> Entry] /\ byPeer \in Seq(Msg) /\ tracks \in [Msg -> Nat]
  BY DEF TypeOK
<1>2. Fresh(D) \in Entry /\ Fresh(D).targets = D /\ Fresh(D).devices = D /\ Fresh(D).received = {}
      /\ Fresh(D).errored = {} /\ Fresh(D).status = "pending"
  BY DEF Fresh, Entry, Status
<1>3. ent \in [Msg -> Entry] /\ ent[m] = Fresh(D) /\ \A n \in Msg \ {m} : ent[n] = entry[n]
  BY <1>1, <1>2
<1>4. LET s == ReceiveBy(Fresh(D), acks)
      IN  /\ s \in Entry /\ Evolves(Fresh(D), s) /\ s.devices = D \cup acks /\ s.received = acks
          /\ s.errored = {}
          /\ \/ s.status = "pending"
             \/ s.status = "delivered" /\ acks # {}
             \/ s.status = "deliveredAll" /\ s.received = s.devices
  <2>1. acks \in SUBSET Dev
    OBVIOUS
  <2> HIDE DEF acks
  <2> DEFINE r == Fresh(D)
  <2>2. r \in Entry /\ r.devices = D /\ r.received = {} /\ r.errored = {} /\ r.status = "pending"
    BY <1>2
  <2> HIDE DEF r
  <2> DEFINE t == ReceiveBy(r, acks)
  <2>3. /\ t \in Entry /\ Evolves(r, t) /\ t.devices = r.devices \cup acks
        /\ t.received = r.received \cup acks /\ t.errored = r.errored
        /\ \/ t.status = r.status
           \/ t.status = "delivered" /\ acks # {}
           \/ t.status = "deliveredAll" /\ t.received = t.devices
    BY <2>1, <2>2, ReceiveByFacts
  <2> HIDE DEF t
  <2>4. /\ t \in Entry /\ Evolves(r, t) /\ t.devices = D \cup acks /\ t.received = acks
        /\ t.errored = {}
        /\ \/ t.status = "pending"
           \/ t.status = "delivered" /\ acks # {}
           \/ t.status = "deliveredAll" /\ t.received = t.devices
    BY <2>2, <2>3
  <2>5. QED
    BY <2>4 DEF r, t
<1>5. got \in [Msg -> Entry] /\ got[m] = ReceiveBy(Fresh(D), acks) /\ \A n \in Msg \ {m} : got[n] = entry[n]
  BY <1>3, <1>4
<1>6. /\ entry' = IF m \in readBuffer THEN ReadAll(got, list, m) ELSE got
      /\ byPeer' = list /\ row' = Mirror(rows, ent, entry') /\ tracks' = [tracks EXCEPT ![m] = @ + 1]
  BY DEF Track, Replay
<1>a. list \in Seq(Msg) /\ [tracks EXCEPT ![m] = @ + 1] \in [Msg -> Nat]
  BY <1>1
<1> HIDE DEF ent, list, acks, got
<1>7. /\ entry' \in [Msg -> Entry]
      /\ \A n \in Msg :
           /\ Evolves(got[n], entry'[n])
           /\ entry'[n].devices = got[n].devices
           /\ entry'[n].received = got[n].received
           /\ entry'[n].errored = got[n].errored
           /\ \/ entry'[n].status = got[n].status
              \/ entry'[n].status = "read" /\ m \in readBuffer /\ n \in UpTo(list, m)
           /\ m \in readBuffer /\ n \in UpTo(list, m) /\ got[n].status # "none" =>
                entry'[n].status \in {"read", "failed"}
  <2>1. CASE m \in readBuffer
    <3>1. entry' = ReadAll(got, list, m)
      BY <1>6, <2>1
    <3>2. QED
      BY <1>5, <2>1, <3>1, ReadAllFacts
  <2>2. CASE m \notin readBuffer
    <3>1. entry' = got
      BY <1>6, <2>2
    <3>2. QED
      BY <1>5, <2>2, <3>1 DEF Evolves, Climbs
  <2>3. QED
    BY <2>1, <2>2
<1>8. byPeer' \in Seq(Msg) /\ tracks' \in [Msg -> Nat]
  BY <1>6, <1>a
<1>9. /\ row' \in [Msg -> Rung]
      /\ \A n \in Msg : /\ rows[n] = ent[n].status => row'[n] = entry'[n].status
                        /\ ent[n].status = entry'[n].status => row'[n] = rows[n]
  BY <1>3, <1>6, <1>7, MirrorFacts
<1>10. /\ entry'[m].targets = D /\ D \subseteq entry'[m].devices /\ entry'[m].received = acks
       /\ entry'[m].errored = {}
  BY <1>2, <1>4, <1>5, <1>7 DEF Evolves
<1>11. got[m].status # "none"
  BY <1>4, <1>5
<1>12. ASSUME NEW n \in Msg \ {m}
       PROVE  /\ Evolves(entry[n], entry'[n])
              /\ entry'[n].devices = entry[n].devices
              /\ entry'[n].received = entry[n].received
              /\ entry'[n].errored = entry[n].errored
              /\ \/ entry'[n].status = entry[n].status
                 \/ entry'[n].status = "read" /\ m \in readBuffer /\ n \in UpTo(list, m)
              /\ rows[n] = entry[n].status => row'[n] = entry'[n].status
              /\ entry'[n].status = entry[n].status => row'[n] = rows[n]
              /\ m \in readBuffer /\ n \in UpTo(list, m) /\ entry[n].status # "none" =>
                   entry'[n].status \in {"read", "failed"}
  <2>1. got[n] = entry[n] /\ ent[n] = entry[n]
    BY <1>3, <1>5
  <2>2. QED
    BY <1>7, <1>9, <2>1
<1>13. /\ \/ entry'[m].status = "pending"
          \/ entry'[m].status = "delivered" /\ entry'[m].received # {}
          \/ entry'[m].status = "deliveredAll" /\ entry'[m].received = entry'[m].devices
          \/ entry'[m].status = "read" /\ m \in readBuffer /\ m \in UpTo(list, m)
       /\ rows[m] = "pending" => row'[m] = entry'[m].status
       /\ m \in readBuffer /\ m \in UpTo(list, m) => entry'[m].status \in {"read", "failed"}
  <2>1. /\ \/ got[m].status = "pending"
           \/ got[m].status = "delivered" /\ acks # {}
           \/ got[m].status = "deliveredAll" /\ got[m].received = got[m].devices
        /\ got[m].received = acks
    BY <1>4, <1>5
  <2>2. ent[m].status = "pending"
    BY <1>2, <1>3
  <2>3. QED
    BY <1>7, <1>9, <1>11, <2>1, <2>2
<1>14. QED
  <2>1. OthersEvolve(m, rows)
    BY <1>6, <1>12 DEF OthersEvolve
  <2>2. NewEntry(m, D)
    BY <1>6, <1>10, <1>13 DEF NewEntry, acks
  <2>3. rows[m] = "pending" => row'[m] = entry'[m].status
    BY <1>13
  <2>4. byPeer' = Append(byPeer, m) /\ tracks' = [tracks EXCEPT ![m] = @ + 1]
    BY <1>6 DEF list
  <2>5. QED
    BY <1>7, <1>8, <1>9, <2>1, <2>2, <2>3, <2>4

\* What the other steps on the entries do: nothing but let them evolve.
LEMMA UpdateFacts ==
  ASSUME TypeOK, NEW ent \in [Msg -> Entry], Update(ent)
  PROVE  /\ entry' = ent /\ byPeer' = byPeer /\ tracks' = tracks
         /\ row' \in [Msg -> Rung]
         /\ \A n \in Msg :
              /\ row[n] = entry[n].status => row'[n] = entry'[n].status
              /\ ent[n].status = entry[n].status => row'[n] = row[n]
<1>1. row \in [Msg -> Rung] /\ entry \in [Msg -> Entry]
  BY DEF TypeOK, Rung
<1>2. QED
  BY <1>1, MirrorFacts DEF Update

\* A step of the tracker on what is tracked already.
Updated ==
  /\ entry' \in [Msg -> Entry] /\ byPeer' = byPeer /\ tracks' = tracks
  /\ row' \in [Msg -> Rung]
  /\ \A n \in Msg :
       /\ Evolves(entry[n], entry'[n])
       /\ row[n] = entry[n].status => row'[n] = entry'[n].status
       /\ entry'[n].status = entry[n].status => row'[n] = row[n]

\* The entry of one message evolves.
LEMMA UpdateOne ==
  ASSUME TypeOK, NEW m \in Msg, NEW r \in Entry, Evolves(entry[m], r),
         Update([entry EXCEPT ![m] = r])
  PROVE  Updated /\ entry'[m] = r /\ \A n \in Msg \ {m} : entry'[n] = entry[n]
<1> DEFINE ent == [entry EXCEPT ![m] = r]
<1>1. entry \in [Msg -> Entry]
  BY DEF TypeOK
<1>2. ent \in [Msg -> Entry] /\ ent[m] = r /\ \A n \in Msg \ {m} : ent[n] = entry[n]
  BY <1>1
<1>3. \A n \in Msg : Evolves(entry[n], ent[n])
  BY <1>2 DEF Evolves, Climbs
<1> HIDE DEF ent
<1>4. /\ entry' = ent /\ byPeer' = byPeer /\ tracks' = tracks
      /\ row' \in [Msg -> Rung]
      /\ \A n \in Msg :
           /\ row[n] = entry[n].status => row'[n] = entry'[n].status
           /\ ent[n].status = entry[n].status => row'[n] = row[n]
  <2>1. Update(ent)
    BY DEF ent
  <2>2. QED
    BY <1>2, <2>1, UpdateFacts
<1>5. QED
  BY <1>2, <1>3, <1>4 DEF Updated

LEMMA ShipFacts ==
  ASSUME TypeOK, NEW m \in Own, Ship(m)
  PROVE  /\ Updated /\ \A n \in Msg \ {m} : entry'[n] = entry[n]
         /\ entry'[m].received = entry[m].received /\ entry'[m].errored = entry[m].errored
         /\ entry'[m].status \in {entry[m].status, "sent"}
<1>1. m \in Msg /\ entry[m] \in Entry /\ "sent" \in Status \ {"failed"}
  BY DEF TypeOK, Msg, Status
<1> DEFINE r == Bump(entry[m], "sent")
<1>2. /\ r \in Entry /\ Evolves(entry[m], r) /\ r.received = entry[m].received
      /\ r.errored = entry[m].errored /\ r.status \in {entry[m].status, "sent"}
  BY <1>1, BumpFacts
<1>3. Update([entry EXCEPT ![m] = r])
  BY DEF Ship
<1> HIDE DEF r
<1>4. QED
  BY <1>1, <1>2, <1>3, UpdateOne

LEMMA SendResultFacts ==
  ASSUME TypeOK, NEW m \in Own, NEW g \in 1..MaxTracks, NEW d \in Dev, NEW outcome \in {"ok", "error"},
         SendResult(m, g, d, outcome)
  PROVE  /\ Updated /\ \A n \in Msg \ {m} : entry'[n] = entry[n]
         /\ entry'[m].received = entry[m].received
         /\ \/ /\ entry'[m].errored = entry[m].errored
               /\ entry'[m].status \in {entry[m].status, "sent"}
            \/ /\ entry'[m].errored = entry[m].errored \cup {<<g, d>>}
               /\ \/ entry'[m].status = entry[m].status
                  \/ /\ entry'[m].status = "failed"
                     /\ Cardinality(entry'[m].errored) >= Cardinality(entry'[m].targets)
<1>1. m \in Msg /\ entry[m] \in Entry /\ "sent" \in Status \ {"failed"} /\ <<g, d>> \in Nat \X Dev
  BY MaxTracksAssumption DEF TypeOK, Msg, Status
<1>2. CASE outcome = "ok"
  <2> DEFINE r == Bump(entry[m], "sent")
  <2>1. /\ r \in Entry /\ Evolves(entry[m], r) /\ r.received = entry[m].received
        /\ r.errored = entry[m].errored /\ r.status \in {entry[m].status, "sent"}
    BY <1>1, BumpFacts
  <2>2. Update([entry EXCEPT ![m] = r])
    BY <1>2 DEF SendResult
  <2> HIDE DEF r
  <2>3. QED
    BY <1>1, <2>1, <2>2, UpdateOne
<1>3. CASE outcome = "error"
  <2> DEFINE r == Rejected(entry[m], <<g, d>>)
  <2>1. /\ r \in Entry /\ Evolves(entry[m], r) /\ r.received = entry[m].received
        /\ r.errored = entry[m].errored \cup {<<g, d>>}
        /\ \/ r.status = entry[m].status
           \/ r.status = "failed" /\ Cardinality(r.errored) >= Cardinality(r.targets)
    BY <1>1, RejectedFacts
  <2>2. Update([entry EXCEPT ![m] = r])
    BY <1>3 DEF SendResult
  <2> HIDE DEF r
  <2>3. QED
    BY <1>1, <2>1, <2>2, UpdateOne
<1>4. QED
  BY <1>2, <1>3

LEMMA ReceivedFacts ==
  ASSUME TypeOK, NEW d \in Dev, NEW m \in Msg, Received(d, m), Tracked(m)
  PROVE  /\ Updated /\ \A n \in Msg \ {m} : entry'[n] = entry[n]
         /\ entry'[m].received = entry[m].received \cup {d}
         /\ entry'[m].errored = entry[m].errored
         /\ \/ entry'[m].status = entry[m].status
            \/ entry'[m].status = "delivered"
            \/ entry'[m].status = "deliveredAll" /\ entry'[m].received = entry'[m].devices
<1>1. entry[m] \in Entry /\ {d} \in SUBSET Dev
  BY DEF TypeOK
<1> DEFINE r == ReceiveBy(entry[m], {d})
<1>2. /\ r \in Entry /\ Evolves(entry[m], r) /\ r.received = entry[m].received \cup {d}
      /\ r.errored = entry[m].errored
      /\ \/ r.status = entry[m].status
         \/ r.status = "delivered"
         \/ r.status = "deliveredAll" /\ r.received = r.devices
  BY <1>1, ReceiveByFacts
<1>3. Update([entry EXCEPT ![m] = r])
  BY DEF Received
<1> HIDE DEF r
<1>4. QED
  BY <1>2, <1>3, UpdateOne

LEMMA ReadFacts ==
  ASSUME TypeOK, NEW x, Read(x), x \in {byPeer[i] : i \in 1..Len(byPeer)}
  PROVE  /\ Updated
         /\ \A n \in Msg :
              /\ entry'[n].received = entry[n].received
              /\ entry'[n].errored = entry[n].errored
              /\ \/ entry'[n].status = entry[n].status
                 \/ entry'[n].status = "read" /\ n \in UpTo(byPeer, x)
              /\ n \in UpTo(byPeer, x) /\ entry[n].status # "none" => entry'[n].status \in {"read", "failed"}
<1> DEFINE ent == ReadAll(entry, byPeer, x)
<1>1. entry \in [Msg -> Entry]
  BY DEF TypeOK
<1>2. /\ ent \in [Msg -> Entry]
      /\ \A n \in Msg :
           /\ Evolves(entry[n], ent[n])
           /\ ent[n].received = entry[n].received
           /\ ent[n].errored = entry[n].errored
           /\ ent[n].status = entry[n].status \/ (ent[n].status = "read" /\ n \in UpTo(byPeer, x))
           /\ n \in UpTo(byPeer, x) /\ entry[n].status # "none" => ent[n].status \in {"read", "failed"}
  BY <1>1, ReadAllFacts
<1>3. Update(ent)
  BY DEF Read
<1> HIDE DEF ent
<1>4. /\ entry' = ent /\ byPeer' = byPeer /\ tracks' = tracks
      /\ row' \in [Msg -> Rung]
      /\ \A n \in Msg :
           /\ row[n] = entry[n].status => row'[n] = entry'[n].status
           /\ ent[n].status = entry[n].status => row'[n] = row[n]
  BY <1>2, <1>3, UpdateFacts
<1>5. QED
  BY <1>2, <1>4 DEF Updated

-----------------------------------------------------------------------------
\* The rows a message is tracked on are those the caller has just written.
Tracks(m, D) ==
  \E rows \in {row, [row EXCEPT ![m] = "pending"]} : Track(m, D, rows)

LEMMA RowsType ==
  ASSUME TypeOK, NEW m \in Msg
  PROVE  row \in [Msg -> Rung] /\ [row EXCEPT ![m] = "pending"] \in [Msg -> Rung]
BY DEF TypeOK, Rung, Status

\* What tracking changes besides the entries.
LEMMA TracksFacts ==
  ASSUME TypeOK, NEW m \in Msg, NEW D \in SUBSET Dev, Tracks(m, D)
  PROVE  /\ entry' \in [Msg -> Entry] /\ byPeer' \in Seq(Msg) /\ tracks' \in [Msg -> Nat]
         /\ row' \in [Msg -> Rung]
         /\ receivedBuffer' = {y \in receivedBuffer : y[2] # m} /\ readBuffer' = readBuffer \ {m}
         /\ UNCHANGED <<shipped, acked, readUpTo, dropped>>
         /\ byPeer' = Append(byPeer, m) /\ tracks' = [tracks EXCEPT ![m] = @ + 1]
         /\ OthersEvolve(m, row)
         /\ NewEntry(m, D)
<1>1. row \in [Msg -> Rung] /\ [row EXCEPT ![m] = "pending"] \in [Msg -> Rung]
  BY RowsType
<1>2. \A n \in Msg \ {m} : [row EXCEPT ![m] = "pending"][n] = row[n]
  BY <1>1
<1>3. PICK rows \in {row, [row EXCEPT ![m] = "pending"]} : Track(m, D, rows)
  BY DEF Tracks
<1>4. rows \in [Msg -> Rung] /\ \A n \in Msg \ {m} : rows[n] = row[n]
  BY <1>1, <1>2, <1>3
<1>5. /\ receivedBuffer' = {y \in receivedBuffer : y[2] # m} /\ readBuffer' = readBuffer \ {m}
      /\ UNCHANGED <<shipped, acked, readUpTo, dropped>>
  BY <1>3 DEF Track
<1>6. /\ entry' \in [Msg -> Entry] /\ byPeer' \in Seq(Msg) /\ tracks' \in [Msg -> Nat]
      /\ row' \in [Msg -> Rung]
      /\ byPeer' = Append(byPeer, m) /\ tracks' = [tracks EXCEPT ![m] = @ + 1]
  BY <1>3, <1>4, TrackFacts
<1>7. OthersEvolve(m, rows) /\ NewEntry(m, D)
  BY <1>3, <1>4, TrackFacts
<1>8. OthersEvolve(m, row)
  BY <1>4, <1>7 DEF OthersEvolve
<1>9. QED
  BY <1>5, <1>6, <1>7, <1>8

LEMMA SendTracks == ASSUME NEW m \in Msg, NEW D \in SUBSET Dev PROVE
  /\ Send(m, D) => Tracks(m, D)
  /\ Retry(m, D) => Tracks(m, D)
  /\ Echo(m, D) => Tracks(m, D)
BY DEF Send, Retry, Echo, Tracks

\* Every step is one of these.
Step ==
  \/ \E m \in Own, D \in SUBSET Dev : Send(m, D) \/ Retry(m, D)
  \/ \E m \in Sibling, D \in SUBSET Dev : Echo(m, D)
  \/ \E m \in Own : SendFails(m) \/ RetryBegin(m) \/ GiveUp(m)
  \/ \E m \in Own : Ship(m)
  \/ \E m \in Own, g \in 1..MaxTracks, d \in Dev, outcome \in {"ok", "error"} : SendResult(m, g, d, outcome)
  \/ \E d \in Dev, m \in Msg : Tracked(m) /\ Received(d, m)
  \/ \E d \in Dev, m \in Msg : ~Tracked(m) /\ Received(d, m)
  \/ \E x \in Msg \cup Foreign : x \in {byPeer[i] : i \in 1..Len(byPeer)} /\ Read(x)
  \/ \E x \in Msg \cup Foreign : x \notin {byPeer[i] : i \in 1..Len(byPeer)} /\ Read(x)
  \/ UNCHANGED vars

LEMMA Steps == [Next]_vars => Step
BY DEF Next, Step

\* A buffer holds only what it held and the new event.
LEMMA BufferFacts ==
  ASSUME NEW buf, NEW x, NEW new \in Buffer(buf, x)
  PROVE  new \subseteq buf \cup {x}
BY DEF Buffer

LEMMA TypeStep == TypeOK /\ [Next]_vars => TypeOK'
<1> SUFFICES ASSUME TypeOK, Step PROVE TypeOK'
  BY Steps
<1>1. ASSUME NEW m \in Own, NEW D \in SUBSET Dev, Send(m, D) \/ Retry(m, D) PROVE TypeOK'
  <2>1. m \in Msg /\ Tracks(m, D)
    BY <1>1, SendTracks DEF Msg
  <2>2. outbox' \in [Own -> {"none", "queued", "sent", "gone"}] /\ gaveUp' = gaveUp
    BY <1>1 DEF TypeOK, Send, Retry
  <2>3. QED
    BY <2>1, <2>2, TracksFacts DEF TypeOK, Rung
<1>2. ASSUME NEW m \in Sibling, NEW D \in SUBSET Dev, Echo(m, D) PROVE TypeOK'
  <2>1. m \in Msg /\ Tracks(m, D)
    BY <1>2, SendTracks DEF Msg
  <2>2. outbox' = outbox /\ gaveUp' = gaveUp
    BY <1>2 DEF Echo
  <2>3. /\ entry' \in [Msg -> Entry] /\ byPeer' \in Seq(Msg) /\ tracks' \in [Msg -> Nat]
        /\ row' \in [Msg -> Rung]
        /\ receivedBuffer' = {y \in receivedBuffer : y[2] # m} /\ readBuffer' = readBuffer \ {m}
        /\ UNCHANGED <<shipped, acked, readUpTo, dropped>>
    BY <2>1, TracksFacts
  <2>4. QED
    BY <2>2, <2>3 DEF TypeOK, Rung
<1>3. ASSUME NEW m \in Own, SendFails(m) \/ RetryBegin(m) \/ GiveUp(m) PROVE TypeOK'
  <2>1. row' \in [Msg -> Rung]
    BY <1>3 DEF TypeOK, Rung, Status, SendFails, RetryBegin, GiveUp
  <2>2. outbox' \in [Own -> {"none", "queued", "sent", "gone"}] /\ gaveUp' \subseteq Own
    BY <1>3 DEF TypeOK, SendFails, RetryBegin, GiveUp
  <2>3. UNCHANGED <<tracker, tracks, shipped, acked, readUpTo, dropped>>
    BY <1>3 DEF SendFails, RetryBegin, GiveUp
  <2>4. QED
    BY <2>1, <2>2, <2>3 DEF TypeOK, Rung, tracker
<1>4. ASSUME NEW m \in Own, Ship(m) PROVE TypeOK'
  <2>1. Updated
    BY <1>4, ShipFacts
  <2>2. outbox' \in [Own -> {"none", "queued", "sent", "gone"}]
    BY <1>4 DEF TypeOK, Ship
  <2>3. entry[m].targets \in SUBSET Dev /\ tracks[m] \in Nat
    BY DEF TypeOK, Msg, Entry
  <2>4. shipped' \subseteq Own \X Nat \X Dev
    <3>1. {m} \X {tracks[m]} \X entry[m].targets \subseteq Own \X Nat \X Dev
      BY <2>3
    <3>2. QED
      BY <1>4, <3>1 DEF TypeOK, Ship
  <2>5. QED
    BY <1>4, <2>1, <2>2, <2>4 DEF TypeOK, Updated, Ship, Rung
<1>5. ASSUME NEW m \in Own, NEW g \in 1..MaxTracks, NEW d \in Dev, NEW outcome \in {"ok", "error"},
             SendResult(m, g, d, outcome)
      PROVE TypeOK'
  <2>1. Updated
    BY <1>5, SendResultFacts
  <2>2. QED
    BY <1>5, <2>1 DEF TypeOK, Updated, SendResult, Rung
<1>6. ASSUME NEW d \in Dev, NEW m \in Msg, Tracked(m), Received(d, m) PROVE TypeOK'
  <2>1. Updated
    BY <1>6, ReceivedFacts
  <2>2. QED
    BY <1>6, <2>1 DEF TypeOK, Updated, Received, Rung
<1>7. ASSUME NEW d \in Dev, NEW m \in Msg, ~Tracked(m), Received(d, m) PROVE TypeOK'
  <2>1. receivedBuffer' \subseteq receivedBuffer \cup {<<d, m>>}
    BY <1>7, BufferFacts DEF Received
  <2>2. QED
    BY <1>7, <2>1 DEF TypeOK, Received
<1>8. ASSUME NEW x \in Msg \cup Foreign, x \in {byPeer[i] : i \in 1..Len(byPeer)}, Read(x) PROVE TypeOK'
  <2>1. Updated
    BY <1>8, ReadFacts
  <2>2. QED
    BY <1>8, <2>1 DEF TypeOK, Updated, Read, Rung
<1>9. ASSUME NEW x \in Msg \cup Foreign, x \notin {byPeer[i] : i \in 1..Len(byPeer)}, Read(x) PROVE TypeOK'
  <2>1. readBuffer' \subseteq readBuffer \cup {x}
    BY <1>9, BufferFacts DEF Read
  <2>2. QED
    BY <1>9, <2>1 DEF TypeOK, Read
<1>10. CASE UNCHANGED vars
  BY <1>10 DEF TypeOK, vars
<1>11. QED
  BY <1>1, <1>2, <1>3, <1>4, <1>5, <1>6, <1>7, <1>8, <1>9, <1>10 DEF Step

LEMMA TypeInit == Init => TypeOK
BY DEF Init, TypeOK, Entry, NoEntry, Status

\* Every reachable state is well typed.
THEOREM TypeCorrect == Spec => []TypeOK
BY TypeInit, TypeStep, PTL DEF Spec

-----------------------------------------------------------------------------
\* An entry that evolves is tracked if and only if it was.
LEMMA EvolvesTracked ==
  ASSUME NEW r, NEW s, Evolves(r, s)
  PROVE  (r.status = "none" <=> s.status = "none") /\ s.targets = r.targets
BY DEF Evolves, Climbs

\* A step tracks a message, lets entries evolve, or leaves them alone.
LEMMA StepKinds ==
  ASSUME TypeOK, [Next]_vars
  PROVE  \/ \E m \in Msg, D \in SUBSET Dev : Tracks(m, D)
         \/ Updated
         \/ UNCHANGED <<entry, byPeer, tracks>>
<1>1. ASSUME NEW m \in Own, NEW D \in SUBSET Dev, Send(m, D) \/ Retry(m, D) PROVE Tracks(m, D)
  BY <1>1, SendTracks DEF Msg
<1>2. ASSUME NEW m \in Sibling, NEW D \in SUBSET Dev, Echo(m, D) PROVE Tracks(m, D)
  BY <1>2, SendTracks DEF Msg
<1>3. ASSUME NEW m \in Own, SendFails(m) \/ RetryBegin(m) \/ GiveUp(m) PROVE UNCHANGED <<entry, byPeer, tracks>>
  BY <1>3 DEF SendFails, RetryBegin, GiveUp, tracker
<1>4. ASSUME NEW m \in Own, Ship(m) PROVE Updated
  BY <1>4, ShipFacts
<1>5. ASSUME NEW m \in Own, NEW g \in 1..MaxTracks, NEW d \in Dev, NEW outcome \in {"ok", "error"},
             SendResult(m, g, d, outcome)
      PROVE Updated
  BY <1>5, SendResultFacts
<1>6. ASSUME NEW d \in Dev, NEW m \in Msg, Tracked(m), Received(d, m) PROVE Updated
  BY <1>6, ReceivedFacts
<1>7. ASSUME NEW d \in Dev, NEW m \in Msg, ~Tracked(m), Received(d, m) PROVE UNCHANGED <<entry, byPeer, tracks>>
  BY <1>7 DEF Received
<1>8. ASSUME NEW x \in Msg \cup Foreign, x \in {byPeer[i] : i \in 1..Len(byPeer)}, Read(x) PROVE Updated
  BY <1>8, ReadFacts
<1>9. ASSUME NEW x \in Msg \cup Foreign, x \notin {byPeer[i] : i \in 1..Len(byPeer)}, Read(x)
      PROVE UNCHANGED <<entry, byPeer, tracks>>
  BY <1>9 DEF Read
<1>10. UNCHANGED vars => UNCHANGED <<entry, byPeer, tracks>>
  BY DEF vars
<1>11. QED
  BY <1>1, <1>2, <1>3, <1>4, <1>5, <1>6, <1>7, <1>8, <1>9, <1>10, Steps DEF Step, Msg

\* A message that is not tracked anew moves along the ladder.
LEMMA StepEvolves ==
  ASSUME TypeOK, [Next]_vars
  PROVE  \A n \in Msg : tracks'[n] = tracks[n] => Evolves(entry[n], entry'[n])
<1>1. ASSUME NEW m \in Msg, NEW D \in SUBSET Dev, Tracks(m, D)
      PROVE \A n \in Msg : tracks'[n] = tracks[n] => Evolves(entry[n], entry'[n])
  <2>1. tracks' = [tracks EXCEPT ![m] = @ + 1] /\ OthersEvolve(m, row)
    BY <1>1, TracksFacts
  <2>2. tracks \in [Msg -> Nat]
    BY DEF TypeOK
  <2>3. tracks'[m] # tracks[m]
    BY <2>1, <2>2
  <2>4. QED
    BY <2>1, <2>3 DEF OthersEvolve
<1>2. ASSUME Updated PROVE \A n \in Msg : Evolves(entry[n], entry'[n])
  BY <1>2 DEF Updated
<1>3. ASSUME entry' = entry PROVE \A n \in Msg : Evolves(entry[n], entry'[n])
  BY <1>3 DEF Evolves, Climbs
<1>4. QED
  BY <1>1, <1>2, <1>3, StepKinds

\* A status never goes down, and failed is final, until the message is tracked
\* again: bump() compares ranks, and nothing else but forceSet() writes one.
THEOREM LadderUp == Spec => LadderOnlyUp
<1>1. ASSUME TypeOK, [Next]_vars
      PROVE  \A m \in Msg :
               tracks'[m] = tracks[m] =>
                 \/ entry'[m].status = entry[m].status
                 \/ rank[entry'[m].status] > rank[entry[m].status] /\ entry'[m].status # "failed"
                 \/ entry[m].status \in {"pending", "sent"} /\ entry'[m].status = "failed"
  BY <1>1, StepEvolves DEF Evolves, Climbs
<1>2. QED
  BY <1>1, TypeCorrect, PTL DEF Spec, LadderOnlyUp

-----------------------------------------------------------------------------
\* The peer's list names the message.
Listed(m) == \E i \in 1..Len(byPeer) : byPeer[i] = m

\* A message is tracked if and only if it is listed and was counted.
TrackedListed ==
  \A m \in Msg : (Tracked(m) <=> Listed(m)) /\ (Tracked(m) <=> tracks[m] # 0)

LEMMA ListedStep ==
  ASSUME TypeOK, TrackedListed, [Next]_vars
  PROVE  TrackedListed'
<1>1. ASSUME NEW m \in Msg, NEW D \in SUBSET Dev, Tracks(m, D)
      PROVE  TrackedListed'
  <2>1. byPeer' = Append(byPeer, m) /\ tracks' = [tracks EXCEPT ![m] = @ + 1]
        /\ OthersEvolve(m, row) /\ NewEntry(m, D)
    BY <1>1, TracksFacts
  <2>2. byPeer \in Seq(Msg) /\ tracks \in [Msg -> Nat]
    BY DEF TypeOK
  <2>3. Len(byPeer) \in Nat /\ Len(byPeer') = Len(byPeer) + 1 /\ byPeer'[Len(byPeer) + 1] = m
        /\ \A i \in 1..Len(byPeer) : byPeer'[i] = byPeer[i]
    BY <2>1, <2>2
  <2>4. tracks'[m] # 0 /\ \A n \in Msg \ {m} : tracks'[n] = tracks[n]
    BY <2>1, <2>2
  <2>5. Tracked(m)' /\ \A n \in Msg \ {m} : Tracked(n)' <=> Tracked(n)
    BY <2>1, EvolvesTracked DEF NewEntry, OthersEvolve, Tracked
  <2>6. Listed(m)' /\ \A n \in Msg \ {m} : Listed(n)' <=> Listed(n)
    BY <2>3 DEF Listed
  <2>7. QED
    BY <2>4, <2>5, <2>6 DEF TrackedListed
<1>2. ASSUME Updated PROVE TrackedListed'
  BY <1>2, EvolvesTracked DEF Updated, TrackedListed, Tracked, Listed
<1>3. ASSUME UNCHANGED <<entry, byPeer, tracks>> PROVE TrackedListed'
  BY <1>3 DEF TrackedListed, Tracked, Listed
<1>4. QED
  BY <1>1, <1>2, <1>3, StepKinds

\* Tracked messages are exactly those byPeer lists and trackOutbound() counted.
THEOREM ListedInvariant == Spec => []TrackedListed
<1>1. Init => TrackedListed
  BY DEF Init, TrackedListed, Tracked, Listed, NoEntry
<1>2. QED
  BY <1>1, ListedStep, TypeCorrect, PTL DEF Spec

-----------------------------------------------------------------------------
\* A message that was never queued nor given up has no row and no entry.
Untouched ==
  \A m \in Own : outbox[m] = "none" /\ m \notin gaveUp => row[m] = "none" /\ ~Tracked(m)

RowInv == RowMirrorsTracker /\ Untouched

\* The row and the tracker part only where the row is written behind the
\* tracker's back.
LEMMA RowStep ==
  ASSUME TypeOK, RowInv, [Next]_vars
  PROVE  RowInv'
<1> USE DEF RowInv
<1>1. ASSUME NEW m \in Own, NEW D \in SUBSET Dev, Send(m, D) PROVE RowInv'
  <2>1. m \in Msg /\ Track(m, D, [row EXCEPT ![m] = "pending"]) /\ Tracks(m, D)
    BY <1>1, SendTracks DEF Msg, Send
  <2>2. [row EXCEPT ![m] = "pending"] \in [Msg -> Rung] /\ [row EXCEPT ![m] = "pending"][m] = "pending"
    BY <2>1, RowsType DEF TypeOK
  <2>3. row'[m] = entry'[m].status
    BY <2>1, <2>2, TrackFacts
  <2>4. OthersEvolve(m, row)
    BY <2>1, TracksFacts
  <2>5. outbox'[m] = "queued" /\ gaveUp' = gaveUp /\ \A n \in Own \ {m} : outbox'[n] = outbox[n]
    BY <1>1 DEF Send, TypeOK
  <2>6. RowMirrorsTracker'
    BY <2>3, <2>4, <2>5 DEF RowMirrorsTracker, OthersEvolve
  <2>7. ASSUME NEW n \in Own \ {m}, outbox[n] = "none", n \notin gaveUp
        PROVE  row'[n] = "none" /\ ~Tracked(n)'
    <3>1. n \in Msg \ {m} /\ row[n] = "none" /\ entry[n].status = "none"
      BY <2>7 DEF Msg, Untouched, Tracked
    <3>2. entry'[n].status = "none"
      BY <2>4, <3>1, EvolvesTracked DEF OthersEvolve
    <3>3. QED
      BY <2>4, <3>1, <3>2 DEF OthersEvolve, Tracked
  <2>8. QED
    BY <2>5, <2>6, <2>7 DEF Untouched
<1>2. ASSUME NEW m \in Own, NEW D \in SUBSET Dev, Retry(m, D) PROVE RowInv'
  <2>1. m \in Msg /\ Tracks(m, D)
    BY <1>2, SendTracks DEF Msg
  <2>2. m \in gaveUp
    BY <1>2 DEF Retry, Untouched
  <2>3. OthersEvolve(m, row)
    BY <2>1, TracksFacts
  <2>4. outbox'[m] = "queued" /\ gaveUp' = gaveUp /\ \A n \in Own \ {m} : outbox'[n] = outbox[n]
    BY <1>2 DEF Retry, TypeOK
  <2>5. RowMirrorsTracker'
    BY <2>2, <2>3, <2>4 DEF RowMirrorsTracker, OthersEvolve
  <2>6. ASSUME NEW n \in Own \ {m}, outbox[n] = "none", n \notin gaveUp
        PROVE  row'[n] = "none" /\ ~Tracked(n)'
    <3>1. n \in Msg \ {m} /\ row[n] = "none" /\ entry[n].status = "none"
      BY <2>6 DEF Msg, Untouched, Tracked
    <3>2. entry'[n].status = "none"
      BY <2>3, <3>1, EvolvesTracked DEF OthersEvolve
    <3>3. QED
      BY <2>3, <3>1, <3>2 DEF OthersEvolve, Tracked
  <2>7. QED
    BY <2>4, <2>5, <2>6 DEF Untouched
<1>3. ASSUME NEW m \in Sibling, NEW D \in SUBSET Dev, Echo(m, D) PROVE RowInv'
  <2>1. m \in Msg /\ m \notin Own /\ Track(m, D, [row EXCEPT ![m] = "pending"]) /\ Tracks(m, D)
    BY <1>3, SendTracks, IdsAssumption DEF Msg, Echo
  <2>2. [row EXCEPT ![m] = "pending"] \in [Msg -> Rung] /\ [row EXCEPT ![m] = "pending"][m] = "pending"
    BY <2>1, RowsType DEF TypeOK
  <2>3. row'[m] = entry'[m].status
    BY <2>1, <2>2, TrackFacts
  <2>4. OthersEvolve(m, row)
    BY <2>1, TracksFacts
  <2>5. outbox' = outbox /\ gaveUp' = gaveUp
    BY <1>3 DEF Echo
  <2>6. RowMirrorsTracker'
    BY <2>3, <2>4, <2>5 DEF RowMirrorsTracker, OthersEvolve
  <2>7. ASSUME NEW n \in Own, outbox[n] = "none", n \notin gaveUp
        PROVE  row'[n] = "none" /\ ~Tracked(n)'
    <3>1. n \in Msg \ {m} /\ row[n] = "none" /\ entry[n].status = "none"
      BY <2>1, <2>7 DEF Msg, Untouched, Tracked
    <3>2. entry'[n].status = "none"
      BY <2>4, <3>1, EvolvesTracked DEF OthersEvolve
    <3>3. QED
      BY <2>4, <3>1, <3>2 DEF OthersEvolve, Tracked
  <2>8. QED
    BY <2>5, <2>6, <2>7 DEF Untouched
<1>4. ASSUME NEW m \in Own, SendFails(m) \/ RetryBegin(m) \/ GiveUp(m) PROVE RowInv'
  <2>1. entry' = entry /\ gaveUp' = gaveUp \cup {m} /\ m \in Msg
        /\ (\A n \in Msg \ {m} : row'[n] = row[n]) /\ \A n \in Own \ {m} : outbox'[n] = outbox[n]
    BY <1>4 DEF SendFails, RetryBegin, GiveUp, tracker, TypeOK, Msg
  <2>2. QED
    BY <2>1 DEF RowMirrorsTracker, Untouched, Tracked, Msg
<1>5. ASSUME Updated, gaveUp' = gaveUp, \A n \in Own : outbox'[n] = "none" => outbox[n] = "none"
      PROVE  RowInv'
  <2>1. RowMirrorsTracker'
    BY <1>5 DEF RowMirrorsTracker, Updated
  <2>2. ASSUME NEW n \in Own, outbox[n] = "none", n \notin gaveUp
        PROVE  row'[n] = "none" /\ ~Tracked(n)'
    <3>1. n \in Msg /\ row[n] = "none" /\ entry[n].status = "none"
      BY <2>2 DEF Msg, Untouched, Tracked
    <3>2. entry'[n].status = "none"
      BY <1>5, <3>1, EvolvesTracked DEF Updated
    <3>3. QED
      BY <1>5, <3>1, <3>2 DEF Updated, Tracked
  <2>3. QED
    BY <1>5, <2>1, <2>2 DEF Untouched
<1>6. ASSUME UNCHANGED <<entry, row, outbox, gaveUp>> PROVE RowInv'
  BY <1>6 DEF RowMirrorsTracker, Untouched, Tracked
<1>7. ASSUME NEW m \in Own, Ship(m) PROVE RowInv'
  <2>1. Updated
    BY <1>7, ShipFacts
  <2>2. gaveUp' = gaveUp /\ \A n \in Own : outbox'[n] = "none" => outbox[n] = "none"
    BY <1>7 DEF Ship, TypeOK
  <2>3. QED
    BY <1>5, <2>1, <2>2
<1>8. ASSUME NEW m \in Own, NEW g \in 1..MaxTracks, NEW d \in Dev, NEW outcome \in {"ok", "error"},
             SendResult(m, g, d, outcome)
      PROVE RowInv'
  <2>1. Updated
    BY <1>8, SendResultFacts
  <2>2. gaveUp' = gaveUp /\ outbox' = outbox
    BY <1>8 DEF SendResult
  <2>3. QED
    BY <1>5, <2>1, <2>2
<1>9. ASSUME NEW d \in Dev, NEW m \in Msg, Received(d, m) PROVE RowInv'
  <2>1. gaveUp' = gaveUp /\ outbox' = outbox
    BY <1>9 DEF Received
  <2>2. CASE Tracked(m)
    BY <1>5, <1>9, <2>1, <2>2, ReceivedFacts
  <2>3. CASE ~Tracked(m)
    BY <1>6, <1>9, <2>1, <2>3 DEF Received
  <2>4. QED
    BY <2>2, <2>3
<1>10. ASSUME NEW x \in Msg \cup Foreign, Read(x) PROVE RowInv'
  <2>1. gaveUp' = gaveUp /\ outbox' = outbox
    BY <1>10 DEF Read
  <2>2. CASE x \in {byPeer[i] : i \in 1..Len(byPeer)}
    BY <1>5, <1>10, <2>1, <2>2, ReadFacts
  <2>3. CASE x \notin {byPeer[i] : i \in 1..Len(byPeer)}
    BY <1>6, <1>10, <2>1, <2>3 DEF Read
  <2>4. QED
    BY <2>2, <2>3
<1>11. CASE UNCHANGED vars
  BY <1>6, <1>11 DEF vars
<1>12. QED
  BY <1>1, <1>2, <1>3, <1>4, <1>7, <1>8, <1>9, <1>10, <1>11 DEF Next

\* The stored status is the tracker's, except for messages the outbox gave up
\* on or the user retried: a reload shows the ticks that were shown before.
THEOREM RowFollows == Spec => []RowMirrorsTracker
<1>1. Init => RowInv
  BY DEF Init, RowInv, RowMirrorsTracker, Untouched, Tracked, NoEntry, Msg
<1>2. RowInv => RowMirrorsTracker
  BY DEF RowInv
<1>3. QED
  BY <1>1, <1>2, RowStep, TypeCorrect, PTL DEF Spec

-----------------------------------------------------------------------------
BufferInv ==
  /\ BuffersUnresolved
  /\ IsFiniteSet(receivedBuffer) /\ IsFiniteSet(readBuffer)

\* A buffer that takes an event in keeps to its cap.
LEMMA BufferCap ==
  ASSUME NEW buf, IsFiniteSet(buf), Cardinality(buf) <= Cap, NEW x, NEW new \in Buffer(buf, x)
  PROVE  IsFiniteSet(new) /\ Cardinality(new) <= Cap
<1> DEFINE all == buf \cup {x}
<1>1. IsFiniteSet(all) /\ Cardinality(all) <= Cardinality(buf) + 1
  BY FS_AddElement, FS_CardinalityType
<1>2. Cardinality(all) \in Nat /\ Cardinality(buf) \in Nat
  BY <1>1, FS_CardinalityType
<1>3. CASE Cardinality(all) <= Cap
  <2>1. new = all
    BY <1>3 DEF Buffer
  <2>2. QED
    BY <1>1, <1>3, <2>1
<1>4. CASE ~(Cardinality(all) <= Cap)
  <2>1. PICK y \in all : new = all \ {y}
    BY <1>4 DEF Buffer
  <2>2. IsFiniteSet(new) /\ Cardinality(new) = Cardinality(all) - 1
    BY <1>1, <2>1, FS_RemoveElement
  <2>3. QED
    BY <1>1, <1>2, <2>2, CapAssumption
<1>5. QED
  BY <1>3, <1>4

\* A buffer that loses events keeps to its cap.
LEMMA BufferShrinks ==
  ASSUME NEW buf, IsFiniteSet(buf), Cardinality(buf) <= Cap, NEW new \in SUBSET buf
  PROVE  IsFiniteSet(new) /\ Cardinality(new) <= Cap
BY FS_Subset, FS_CardinalityType, CapAssumption

LEMMA BufferStep ==
  ASSUME TypeOK, TrackedListed, BufferInv, [Next]_vars
  PROVE  BufferInv'
<1> USE DEF BufferInv, BuffersUnresolved
<1>1. ASSUME NEW m \in Msg, NEW D \in SUBSET Dev, Tracks(m, D) PROVE BufferInv'
  <2>1. /\ receivedBuffer' = {y \in receivedBuffer : y[2] # m} /\ readBuffer' = readBuffer \ {m}
        /\ OthersEvolve(m, row)
    BY <1>1, TracksFacts
  <2>2. /\ IsFiniteSet(receivedBuffer') /\ Cardinality(receivedBuffer') <= Cap
        /\ IsFiniteSet(readBuffer') /\ Cardinality(readBuffer') <= Cap
    BY <2>1, BufferShrinks
  <2>3. \A n \in Msg \ {m} : Tracked(n)' <=> Tracked(n)
    BY <2>1, EvolvesTracked DEF OthersEvolve, Tracked
  <2>4. \A y \in receivedBuffer' : ~Tracked(y[2])'
    <3>1. \A y \in receivedBuffer' : y[2] \in Msg \ {m} /\ ~Tracked(y[2])
      BY <2>1 DEF TypeOK
    <3>2. QED
      BY <2>3, <3>1 DEF Tracked
  <2>5. \A n \in Msg : n \in readBuffer' => ~Tracked(n)'
    BY <2>1, <2>3
  <2>6. QED
    BY <2>2, <2>4, <2>5 DEF Tracked
<1>2. ASSUME Updated, UNCHANGED <<receivedBuffer, readBuffer>> PROVE BufferInv'
  <2>1. \A n \in Msg : Tracked(n)' <=> Tracked(n)
    BY <1>2, EvolvesTracked DEF Updated, Tracked
  <2>2. \A y \in receivedBuffer : y[2] \in Msg
    BY DEF TypeOK
  <2>3. QED
    BY <1>2, <2>1, <2>2 DEF Tracked
<1>3. ASSUME UNCHANGED <<entry, receivedBuffer, readBuffer>> PROVE BufferInv'
  BY <1>3 DEF Tracked
<1>4. ASSUME NEW m \in Own, SendFails(m) \/ RetryBegin(m) \/ GiveUp(m) PROVE BufferInv'
  BY <1>3, <1>4 DEF SendFails, RetryBegin, GiveUp, tracker
<1>5. ASSUME NEW m \in Own, Ship(m) PROVE BufferInv'
  BY <1>2, <1>5, ShipFacts DEF Ship
<1>6. ASSUME NEW m \in Own, NEW g \in 1..MaxTracks, NEW d \in Dev, NEW outcome \in {"ok", "error"},
             SendResult(m, g, d, outcome)
      PROVE BufferInv'
  <2>1. Updated
    BY <1>6, SendResultFacts
  <2>2. QED
    BY <1>2, <1>6, <2>1 DEF SendResult
<1>7. ASSUME NEW d \in Dev, NEW m \in Msg, Tracked(m), Received(d, m) PROVE BufferInv'
  BY <1>2, <1>7, ReceivedFacts DEF Received
<1>8. ASSUME NEW d \in Dev, NEW m \in Msg, ~Tracked(m), Received(d, m) PROVE BufferInv'
  <2>1. /\ receivedBuffer' \in Buffer(receivedBuffer, <<d, m>>)
        /\ UNCHANGED <<entry, readBuffer>>
    BY <1>8 DEF Received
  <2>2. IsFiniteSet(receivedBuffer') /\ Cardinality(receivedBuffer') <= Cap
    BY <2>1, BufferCap
  <2>3. \A y \in receivedBuffer' : ~Tracked(y[2])
    BY <1>8, <2>1, BufferFacts
  <2>4. QED
    BY <2>1, <2>2, <2>3 DEF Tracked
<1>9. ASSUME NEW x \in Msg \cup Foreign, x \in {byPeer[i] : i \in 1..Len(byPeer)}, Read(x) PROVE BufferInv'
  BY <1>2, <1>9, ReadFacts DEF Read
<1>10. ASSUME NEW x \in Msg \cup Foreign, x \notin {byPeer[i] : i \in 1..Len(byPeer)}, Read(x)
       PROVE  BufferInv'
  <2>1. /\ readBuffer' \in Buffer(readBuffer, x)
        /\ UNCHANGED <<entry, receivedBuffer>>
    BY <1>10 DEF Read
  <2>2. IsFiniteSet(readBuffer') /\ Cardinality(readBuffer') <= Cap
    BY <2>1, BufferCap
  <2>3. x \in Msg => ~Tracked(x)
    BY <1>10 DEF TrackedListed, Listed
  <2>4. \A n \in Msg : n \in readBuffer' => ~Tracked(n)
    BY <2>1, <2>3, BufferFacts
  <2>5. QED
    BY <2>1, <2>2, <2>4 DEF Tracked
<1>11. CASE UNCHANGED vars
  BY <1>3, <1>11 DEF vars
<1>12. ASSUME NEW m \in Own, NEW D \in SUBSET Dev, Send(m, D) \/ Retry(m, D) PROVE BufferInv'
  BY <1>1, <1>12, SendTracks DEF Msg
<1>13. ASSUME NEW m \in Sibling, NEW D \in SUBSET Dev, Echo(m, D) PROVE BufferInv'
  BY <1>1, <1>13, SendTracks DEF Msg
<1>14. QED
  BY <1>4, <1>5, <1>6, <1>7, <1>8, <1>9, <1>10, <1>11, <1>12, <1>13, Steps DEF Step

\* The buffers hold only events of messages not tracked yet and stay within
\* their cap, whatever arrives and however often messages are tracked.
THEOREM BuffersBounded == Spec => []BuffersUnresolved
<1>1. Init => BufferInv
  BY FS_EmptySet, CapAssumption DEF Init, BufferInv, BuffersUnresolved
<1>2. BufferInv => BuffersUnresolved
  BY DEF BufferInv
<1>3. QED
  BY <1>1, <1>2, BufferStep, ListedInvariant, TypeCorrect, PTL DEF Spec

-----------------------------------------------------------------------------
\* What is in the buffers has arrived.
BufferedArrived == receivedBuffer \subseteq acked /\ readBuffer \subseteq readUpTo

\* The devices a message went to are known, and those taken for received have
\* said so.
DevicesKnown ==
  \A m \in Msg :
    /\ entry[m].targets \subseteq entry[m].devices
    /\ \A d \in entry[m].received : <<d, m>> \in acked

\* An envelope belongs to an attempt that was made; those of the last attempt
\* went to its targets.
Envelopes ==
  /\ \A m \in Own : outbox[m] = "queued" => Tracked(m)
  /\ \A e \in shipped : /\ e[2] \in 1..tracks[e[1]]
                        /\ e[2] = tracks[e[1]] => e[3] \in entry[e[1]].targets
  /\ \A m \in Msg : tracks[m] = 1 => entry[m].errored \subseteq {1} \X entry[m].targets

\* The evidence for the status of one message.
EvidenceOf(m) ==
  /\ entry[m].status = "delivered" => \E d \in Dev : <<d, m>> \in acked
  /\ entry[m].status = "deliveredAll" => \A d \in entry[m].targets : <<d, m>> \in acked
  /\ entry[m].status = "read" => \E x \in readUpTo : m \in UpTo(byPeer, x)
  /\ entry[m].status = "failed" /\ tracks[m] = 1 =>
       \A d \in entry[m].targets : <<1, d>> \in entry[m].errored

EvidenceInv == BufferedArrived /\ DevicesKnown /\ Envelopes /\ StatusHasEvidence

\* As many rejected envelopes as targets, all of them of one attempt and to a
\* target: every target rejected.
LEMMA AllRejected ==
  ASSUME NEW T \in SUBSET Dev, NEW S \in SUBSET ({1} \X T), Cardinality(S) >= Cardinality(T)
  PROVE  \A d \in T : <<1, d>> \in S
<1> DEFINE P == {1} \X T
<1>1. IsFiniteSet(T) /\ IsFiniteSet({1}) /\ Cardinality({1}) = 1
  BY DevAssumption, FS_Subset, FS_Singleton
<1>2. IsFiniteSet(P) /\ Cardinality(P) = 1 * Cardinality(T) /\ Cardinality(T) \in Nat
  BY <1>1, FS_Product, FS_CardinalityType
<1>3. /\ IsFiniteSet(S) /\ Cardinality(S) <= Cardinality(P)
      /\ Cardinality(P) = Cardinality(S) => P = S
  BY <1>2, FS_Subset
<1>4. Cardinality(S) \in Nat
  BY <1>3, FS_CardinalityType
<1>5. P = S
  BY <1>2, <1>3, <1>4
<1>6. QED
  BY <1>5

\* Evidence is not lost while the status stays.
LEMMA EvidenceStays ==
  ASSUME NEW m, EvidenceOf(m), entry'[m].status = entry[m].status,
         entry'[m].targets = entry[m].targets, entry[m].errored \subseteq entry'[m].errored,
         tracks'[m] = tracks[m], acked \subseteq acked', readUpTo \subseteq readUpTo',
         \A x \in readUpTo : UpTo(byPeer, x) \subseteq UpTo(byPeer', x)
  PROVE  EvidenceOf(m)'
BY DEF EvidenceOf

\* Tracking a message starts it over with what its buffered events prove.
LEMMA EvidenceTracks ==
  ASSUME TypeOK, EvidenceInv, NEW m \in Msg, NEW D \in SUBSET Dev, Tracks(m, D),
         \A n \in Own : outbox'[n] = "queued" => n = m \/ outbox[n] = "queued"
  PROVE  EvidenceInv'
<1>1. /\ receivedBuffer' \subseteq receivedBuffer /\ readBuffer' \subseteq readBuffer
      /\ UNCHANGED <<shipped, acked, readUpTo>>
      /\ byPeer' = Append(byPeer, m) /\ tracks' = [tracks EXCEPT ![m] = @ + 1]
      /\ OthersEvolve(m, row) /\ NewEntry(m, D)
  BY TracksFacts
<1>2. tracks \in [Msg -> Nat] /\ byPeer \in Seq(Msg) /\ shipped \subseteq Own \X Nat \X Dev
  BY DEF TypeOK
<1>3. tracks'[m] = tracks[m] + 1 /\ tracks[m] \in Nat /\ \A n \in Msg \ {m} : tracks'[n] = tracks[n]
  BY <1>1, <1>2
<1>4. BufferedArrived'
  BY <1>1 DEF EvidenceInv, BufferedArrived
<1>5. DevicesKnown'
  <2>1. ASSUME NEW n \in Msg \ {m}
        PROVE  entry'[n].targets \subseteq entry'[n].devices /\ \A d \in entry'[n].received : <<d, n>> \in acked'
    <3>1. /\ entry'[n].targets = entry[n].targets /\ entry'[n].devices = entry[n].devices
          /\ entry'[n].received = entry[n].received
      BY <1>1 DEF OthersEvolve, Evolves
    <3>2. QED
      BY <1>1, <3>1 DEF EvidenceInv, DevicesKnown
  <2>2. entry'[m].targets \subseteq entry'[m].devices /\ \A d \in entry'[m].received : <<d, m>> \in acked'
    BY <1>1 DEF NewEntry, EvidenceInv, BufferedArrived
  <2>3. QED
    BY <2>1, <2>2 DEF DevicesKnown
<1>6. Envelopes'
  <2>1. \A n \in Own : outbox'[n] = "queued" => Tracked(n)'
    <3>1. Tracked(m)' /\ \A n \in Msg \ {m} : Tracked(n)' <=> Tracked(n)
      BY <1>1, EvolvesTracked DEF OthersEvolve, NewEntry, Tracked
    <3>2. QED
      BY <3>1 DEF EvidenceInv, Envelopes, Msg
  <2>2. ASSUME NEW e \in shipped
        PROVE  e[2] \in 1..tracks'[e[1]] /\ (e[2] = tracks'[e[1]] => e[3] \in entry'[e[1]].targets)
    <3>1. e[1] \in Msg /\ e[2] \in 1..tracks[e[1]] /\ (e[2] = tracks[e[1]] => e[3] \in entry[e[1]].targets)
      BY <1>2 DEF EvidenceInv, Envelopes, Msg
    <3>2. CASE e[1] = m
      BY <1>3, <3>1, <3>2
    <3>3. CASE e[1] # m
      BY <1>1, <1>3, <3>1, <3>3 DEF OthersEvolve, Evolves
    <3>4. QED
      BY <3>2, <3>3
  <2>3. ASSUME NEW n \in Msg, tracks'[n] = 1 PROVE entry'[n].errored \subseteq {1} \X entry'[n].targets
    <3>1. CASE n = m
      BY <1>1, <3>1 DEF NewEntry
    <3>2. CASE n # m
      <4>1. entry'[n].errored = entry[n].errored /\ entry'[n].targets = entry[n].targets
        BY <1>1, <3>2 DEF OthersEvolve, Evolves
      <4>2. QED
        BY <1>3, <2>3, <3>2, <4>1 DEF EvidenceInv, Envelopes
    <3>3. QED
      BY <3>1, <3>2
  <2>4. QED
    BY <1>1, <2>1, <2>2, <2>3 DEF Envelopes
<1>7. StatusHasEvidence'
  <2>1. \A x : UpTo(byPeer, x) \subseteq UpTo(byPeer', x)
    BY <1>1, <1>2, UpToGrows
  <2>2. ASSUME NEW n \in Msg \ {m} PROVE EvidenceOf(n)'
    <3>1. EvidenceOf(n)
      BY DEF EvidenceInv, StatusHasEvidence, EvidenceOf
    <3>2. /\ entry'[n].targets = entry[n].targets /\ entry'[n].errored = entry[n].errored
          /\ tracks'[n] = tracks[n]
          /\ \/ entry'[n].status = entry[n].status
             \/ entry'[n].status = "read" /\ m \in readBuffer /\ n \in UpTo(byPeer', m)
      BY <1>1, <1>3 DEF OthersEvolve, Evolves
    <3>3. CASE entry'[n].status = entry[n].status
      BY <1>1, <2>1, <3>1, <3>2, <3>3, EvidenceStays
    <3>4. CASE entry'[n].status = "read" /\ m \in readBuffer /\ n \in UpTo(byPeer', m)
      BY <1>1, <3>4 DEF EvidenceOf, EvidenceInv, BufferedArrived
    <3>5. QED
      BY <3>2, <3>3, <3>4
  <2>3. EvidenceOf(m)'
    <3>1. /\ entry'[m].targets \subseteq entry'[m].devices
          /\ \A d \in entry'[m].received : d \in Dev /\ <<d, m>> \in acked'
          /\ m \in readBuffer => m \in readUpTo'
      BY <1>1 DEF NewEntry, EvidenceInv, BufferedArrived
    <3>2. CASE entry'[m].status = "pending"
      BY <3>2 DEF EvidenceOf
    <3>3. CASE entry'[m].status = "delivered" /\ entry'[m].received # {}
      BY <3>1, <3>3 DEF EvidenceOf
    <3>4. CASE entry'[m].status = "deliveredAll" /\ entry'[m].received = entry'[m].devices
      BY <3>1, <3>4 DEF EvidenceOf
    <3>5. CASE entry'[m].status = "read" /\ m \in readBuffer /\ m \in UpTo(byPeer', m)
      BY <3>1, <3>5 DEF EvidenceOf
    <3>6. QED
      BY <1>1, <3>2, <3>3, <3>4, <3>5 DEF NewEntry
  <2>4. QED
    BY <2>2, <2>3 DEF StatusHasEvidence, EvidenceOf
<1>8. QED
  BY <1>4, <1>5, <1>6, <1>7 DEF EvidenceInv

\* What a step on the entries has to show.
LEMMA EvidenceUpdates ==
  ASSUME TypeOK, EvidenceInv, Updated, BufferedArrived',
         \A n \in Own : outbox'[n] = "queued" => outbox[n] = "queued",
         \A n \in Msg : \A d \in entry'[n].received : <<d, n>> \in acked',
         \A e \in shipped' \ shipped :
           e[1] \in Msg /\ e[2] \in 1..tracks[e[1]] /\ e[3] \in entry[e[1]].targets,
         \A n \in Msg : tracks[n] = 1 => entry'[n].errored \subseteq {1} \X entry[n].targets,
         \A n \in Msg : EvidenceOf(n)'
  PROVE  EvidenceInv'
<1>0. \A n \in Msg : Tracked(n)' <=> Tracked(n)
  BY EvolvesTracked DEF Updated, Tracked
<1>1. /\ tracks' = tracks
      /\ \A n \in Msg : entry'[n].targets = entry[n].targets
      /\ \A n \in Msg : entry[n].devices \subseteq entry'[n].devices
  BY DEF Updated, Evolves
<1>2. DevicesKnown'
  <2>1. \A n \in Msg : entry[n].targets \subseteq entry[n].devices
    BY DEF EvidenceInv, DevicesKnown
  <2>2. \A n \in Msg : entry'[n].targets \subseteq entry'[n].devices
    BY <1>1, <2>1
  <2>3. QED
    BY <2>2 DEF DevicesKnown
<1>3. Envelopes'
  <2>1. \A n \in Own : outbox'[n] = "queued" => Tracked(n)'
    BY <1>0 DEF EvidenceInv, Envelopes, Msg
  <2>2. ASSUME NEW e \in shipped'
        PROVE  e[2] \in 1..tracks'[e[1]] /\ (e[2] = tracks'[e[1]] => e[3] \in entry'[e[1]].targets)
    <3>1. CASE e \in shipped
      <4>1. e[1] \in Msg
        BY <3>1 DEF TypeOK, Msg
      <4>2. e[2] \in 1..tracks[e[1]] /\ (e[2] = tracks[e[1]] => e[3] \in entry[e[1]].targets)
        BY <3>1 DEF EvidenceInv, Envelopes
      <4>3. entry'[e[1]].targets = entry[e[1]].targets /\ tracks' = tracks
        BY <1>1, <4>1
      <4>4. QED
        BY <4>2, <4>3
    <3>2. CASE e \notin shipped
      <4>1. e[1] \in Msg /\ e[2] \in 1..tracks[e[1]] /\ e[3] \in entry[e[1]].targets
        BY <3>2
      <4>2. entry'[e[1]].targets = entry[e[1]].targets /\ tracks' = tracks
        BY <1>1, <4>1
      <4>3. QED
        BY <4>1, <4>2
    <3>3. QED
      BY <3>1, <3>2
  <2>3. \A n \in Msg : tracks'[n] = 1 => entry'[n].errored \subseteq {1} \X entry'[n].targets
    BY <1>1
  <2>4. QED
    BY <2>1, <2>2, <2>3 DEF Envelopes
<1>4. StatusHasEvidence'
  BY DEF StatusHasEvidence, EvidenceOf
<1>5. QED
  BY <1>2, <1>3, <1>4 DEF EvidenceInv

\* The node's answer to an envelope counts as what it is.
LEMMA EvidenceSendResult ==
  ASSUME TypeOK, EvidenceInv, NEW m \in Own, NEW g \in 1..MaxTracks, NEW d \in Dev,
         NEW outcome \in {"ok", "error"}, SendResult(m, g, d, outcome)
  PROVE  EvidenceInv'
<1>1. /\ Updated /\ \A n \in Msg \ {m} : entry'[n] = entry[n]
      /\ entry'[m].received = entry[m].received
      /\ \/ /\ entry'[m].errored = entry[m].errored
            /\ entry'[m].status \in {entry[m].status, "sent"}
         \/ /\ entry'[m].errored = entry[m].errored \cup {<<g, d>>}
            /\ \/ entry'[m].status = entry[m].status
               \/ /\ entry'[m].status = "failed"
                  /\ Cardinality(entry'[m].errored) >= Cardinality(entry'[m].targets)
  BY SendResultFacts
<1>2. UNCHANGED <<receivedBuffer, readBuffer, outbox, shipped, acked, readUpTo, byPeer, tracks>>
  BY <1>1 DEF SendResult, Updated
<1>3. m \in Msg /\ entry'[m].targets = entry[m].targets /\ entry[m].targets \in SUBSET Dev
  BY <1>1 DEF Updated, Evolves, TypeOK, Entry, Msg
<1>4. tracks[m] = 1 => <<g, d>> \in {1} \X entry[m].targets
  <2>1. <<m, g, d>> \in shipped
    BY DEF SendResult
  <2>2. g \in 1..tracks[m] /\ (g = tracks[m] => d \in entry[m].targets)
    BY <2>1 DEF EvidenceInv, Envelopes
  <2>3. QED
    BY <2>2
<1>5. \A n \in Msg : tracks[n] = 1 => entry'[n].errored \subseteq {1} \X entry[n].targets
  <2>1. tracks[m] = 1 => entry'[m].errored \subseteq {1} \X entry[m].targets
    BY <1>1, <1>3, <1>4 DEF EvidenceInv, Envelopes
  <2>2. QED
    BY <1>1, <2>1 DEF EvidenceInv, Envelopes
<1>6. ASSUME NEW n \in Msg PROVE EvidenceOf(n)'
  <2>1. EvidenceOf(n)
    BY DEF EvidenceInv, StatusHasEvidence, EvidenceOf
  <2>2. entry'[n].targets = entry[n].targets /\ entry[n].errored \subseteq entry'[n].errored
    BY <1>1, <1>3
  <2>3. CASE entry'[n].status = entry[n].status
    BY <1>2, <2>1, <2>2, <2>3, EvidenceStays
  <2>4. CASE entry'[n].status # entry[n].status
    <3>1. n = m
      BY <1>1, <2>4
    <3>2. CASE entry'[m].status = "sent"
      BY <3>1, <3>2 DEF EvidenceOf
    <3>3. CASE entry'[m].status = "failed" /\ Cardinality(entry'[m].errored) >= Cardinality(entry'[m].targets)
      <4>1. ASSUME tracks'[m] = 1 PROVE \A y \in entry'[m].targets : <<1, y>> \in entry'[m].errored
        <5>1. entry'[m].errored \in SUBSET ({1} \X entry'[m].targets)
          BY <1>2, <1>3, <1>5, <4>1
        <5>2. entry'[m].targets \in SUBSET Dev
          BY <1>3
        <5>3. Cardinality(entry'[m].errored) >= Cardinality(entry'[m].targets)
          BY <3>3
        <5>4. QED
          BY <5>1, <5>2, <5>3, AllRejected
      <4>2. QED
        BY <3>1, <3>3, <4>1 DEF EvidenceOf
    <3>4. QED
      BY <1>1, <2>4, <3>1, <3>2, <3>3
  <2>5. QED
    BY <2>3, <2>4
<1>7. \A n \in Msg : \A y \in entry'[n].received : <<y, n>> \in acked'
  BY <1>1, <1>2 DEF EvidenceInv, DevicesKnown
<1>8. BufferedArrived'
  BY <1>2 DEF EvidenceInv, BufferedArrived
<1>9. QED
  BY <1>1, <1>2, <1>5, <1>6, <1>7, <1>8, EvidenceUpdates

\* Handing the frames over proves nothing beyond `sent`.
LEMMA EvidenceShip ==
  ASSUME TypeOK, EvidenceInv, TrackedListed, NEW m \in Own, Ship(m)
  PROVE  EvidenceInv'
<1>1. /\ Updated /\ \A n \in Msg \ {m} : entry'[n] = entry[n]
      /\ entry'[m].received = entry[m].received /\ entry'[m].errored = entry[m].errored
      /\ entry'[m].status \in {entry[m].status, "sent"}
  BY ShipFacts
<1>2. UNCHANGED <<receivedBuffer, readBuffer, acked, readUpTo, byPeer, tracks>>
  BY <1>1 DEF Ship, Updated
<1>3. m \in Msg /\ entry'[m].targets = entry[m].targets
  BY <1>1 DEF Updated, Evolves, Msg
<1>4. \A n \in Own : outbox'[n] = "queued" => outbox[n] = "queued"
  BY DEF Ship, TypeOK
<1>5. \A e \in shipped' \ shipped :
        e[1] \in Msg /\ e[2] \in 1..tracks[e[1]] /\ e[3] \in entry[e[1]].targets
  <2>1. tracks[m] \in Nat /\ tracks[m] # 0
    BY <1>3 DEF Ship, TypeOK, EvidenceInv, Envelopes, TrackedListed
  <2>2. \A e \in shipped' \ shipped : e[1] = m /\ e[2] = tracks[m] /\ e[3] \in entry[m].targets
    BY DEF Ship
  <2>3. QED
    BY <1>3, <2>1, <2>2
<1>6. \A n \in Msg : tracks[n] = 1 => entry'[n].errored \subseteq {1} \X entry[n].targets
  BY <1>1 DEF EvidenceInv, Envelopes
<1>7. ASSUME NEW n \in Msg PROVE EvidenceOf(n)'
  <2>1. EvidenceOf(n)
    BY DEF EvidenceInv, StatusHasEvidence, EvidenceOf
  <2>2. entry'[n].targets = entry[n].targets /\ entry[n].errored \subseteq entry'[n].errored
    BY <1>1, <1>3
  <2>3. CASE entry'[n].status = entry[n].status
    BY <1>2, <2>1, <2>2, <2>3, EvidenceStays
  <2>4. CASE entry'[n].status = "sent"
    BY <2>4 DEF EvidenceOf
  <2>5. QED
    BY <1>1, <2>3, <2>4
<1>8. \A n \in Msg : \A y \in entry'[n].received : <<y, n>> \in acked'
  BY <1>1, <1>2 DEF EvidenceInv, DevicesKnown
<1>9. BufferedArrived'
  BY <1>2 DEF EvidenceInv, BufferedArrived
<1>10. QED
  BY <1>1, <1>4, <1>5, <1>6, <1>7, <1>8, <1>9, EvidenceUpdates

\* `received` of a tracked message is the evidence itself.
LEMMA EvidenceReceived ==
  ASSUME TypeOK, EvidenceInv, NEW d \in Dev, NEW m \in Msg, Tracked(m), Received(d, m)
  PROVE  EvidenceInv'
<1>1. /\ Updated /\ \A n \in Msg \ {m} : entry'[n] = entry[n]
      /\ entry'[m].received = entry[m].received \cup {d}
      /\ entry'[m].errored = entry[m].errored
      /\ \/ entry'[m].status = entry[m].status
         \/ entry'[m].status = "delivered"
         \/ entry'[m].status = "deliveredAll" /\ entry'[m].received = entry'[m].devices
  BY ReceivedFacts
<1>2. /\ UNCHANGED <<receivedBuffer, readBuffer, outbox, shipped, readUpTo, byPeer, tracks>>
      /\ acked' = acked \cup {<<d, m>>}
  BY <1>1 DEF Received, Updated
<1>3. entry'[m].targets = entry[m].targets /\ entry[m].devices \subseteq entry'[m].devices
  BY <1>1 DEF Updated, Evolves
<1>4. \A n \in Msg : \A y \in entry'[n].received : <<y, n>> \in acked'
  BY <1>1, <1>2 DEF EvidenceInv, DevicesKnown
<1>5. ASSUME NEW n \in Msg PROVE EvidenceOf(n)'
  <2>1. EvidenceOf(n)
    BY DEF EvidenceInv, StatusHasEvidence, EvidenceOf
  <2>2. entry'[n].targets = entry[n].targets /\ entry[n].errored \subseteq entry'[n].errored
    BY <1>1, <1>3
  <2>3. CASE entry'[n].status = entry[n].status
    BY <1>2, <2>1, <2>2, <2>3, EvidenceStays
  <2>4. CASE entry'[n].status # entry[n].status
    <3>1. n = m
      BY <1>1, <2>4
    <3>2. CASE entry'[m].status = "delivered"
      BY <1>2, <3>1, <3>2 DEF EvidenceOf
    <3>3. CASE entry'[m].status = "deliveredAll" /\ entry'[m].received = entry'[m].devices
      <4>1. \A y \in entry'[m].targets : <<y, m>> \in acked'
        BY <1>3, <1>4, <3>3 DEF EvidenceInv, DevicesKnown
      <4>2. QED
        BY <3>1, <3>3, <4>1 DEF EvidenceOf
    <3>4. QED
      BY <1>1, <2>4, <3>1, <3>2, <3>3
  <2>5. QED
    BY <2>3, <2>4
<1>6. \A n \in Msg : tracks[n] = 1 => entry'[n].errored \subseteq {1} \X entry[n].targets
  BY <1>1 DEF EvidenceInv, Envelopes
<1>7. BufferedArrived'
  BY <1>2 DEF EvidenceInv, BufferedArrived
<1>8. QED
  BY <1>1, <1>2, <1>4, <1>5, <1>6, <1>7, EvidenceUpdates

\* `read` of a listed message is the evidence for all up to it.
LEMMA EvidenceRead ==
  ASSUME TypeOK, EvidenceInv, NEW x, Read(x), x \in {byPeer[i] : i \in 1..Len(byPeer)}
  PROVE  EvidenceInv'
<1>1. /\ Updated
      /\ \A n \in Msg :
           /\ entry'[n].received = entry[n].received
           /\ entry'[n].errored = entry[n].errored
           /\ \/ entry'[n].status = entry[n].status
              \/ entry'[n].status = "read" /\ n \in UpTo(byPeer, x)
  BY ReadFacts
<1>2. /\ UNCHANGED <<receivedBuffer, readBuffer, outbox, shipped, acked, byPeer, tracks>>
      /\ readUpTo' = readUpTo \cup {x}
  BY <1>1 DEF Read, Updated
<1>3. ASSUME NEW n \in Msg PROVE EvidenceOf(n)'
  <2>1. EvidenceOf(n)
    BY DEF EvidenceInv, StatusHasEvidence, EvidenceOf
  <2>2. entry'[n].targets = entry[n].targets /\ entry[n].errored \subseteq entry'[n].errored
    BY <1>1 DEF Updated, Evolves
  <2>3. CASE entry'[n].status = entry[n].status
    BY <1>2, <2>1, <2>2, <2>3, EvidenceStays
  <2>4. CASE entry'[n].status = "read" /\ n \in UpTo(byPeer, x)
    BY <1>2, <2>4 DEF EvidenceOf
  <2>5. QED
    BY <1>1, <2>3, <2>4
<1>4. \A n \in Msg : \A y \in entry'[n].received : <<y, n>> \in acked'
  BY <1>1, <1>2 DEF EvidenceInv, DevicesKnown
<1>5. \A n \in Msg : tracks[n] = 1 => entry'[n].errored \subseteq {1} \X entry[n].targets
  BY <1>1 DEF EvidenceInv, Envelopes
<1>6. BufferedArrived'
  BY <1>2 DEF EvidenceInv, BufferedArrived
<1>7. QED
  BY <1>1, <1>2, <1>3, <1>4, <1>5, <1>6, EvidenceUpdates

\* Nothing happens to the entries.
LEMMA EvidenceIdle ==
  ASSUME EvidenceInv, BufferedArrived', UNCHANGED <<entry, byPeer, tracks, shipped>>,
         acked \subseteq acked', readUpTo \subseteq readUpTo',
         \A n \in Own : outbox'[n] = "queued" => outbox[n] = "queued"
  PROVE  EvidenceInv'
<1>1. DevicesKnown' /\ Envelopes'
  BY DEF EvidenceInv, DevicesKnown, Envelopes, Tracked
<1>2. StatusHasEvidence'
  BY DEF EvidenceInv, StatusHasEvidence
<1>3. QED
  BY <1>1, <1>2 DEF EvidenceInv

LEMMA EvidenceStep ==
  ASSUME TypeOK, TrackedListed, EvidenceInv, [Next]_vars
  PROVE  EvidenceInv'
<1>1. ASSUME NEW m \in Own, NEW D \in SUBSET Dev, Send(m, D) \/ Retry(m, D) PROVE EvidenceInv'
  <2>1. m \in Msg /\ Tracks(m, D)
    BY <1>1, SendTracks DEF Msg
  <2>2. \A n \in Own : outbox'[n] = "queued" => n = m \/ outbox[n] = "queued"
    BY <1>1 DEF Send, Retry, TypeOK
  <2>3. QED
    BY <2>1, <2>2, EvidenceTracks
<1>2. ASSUME NEW m \in Sibling, NEW D \in SUBSET Dev, Echo(m, D) PROVE EvidenceInv'
  <2>1. m \in Msg /\ Tracks(m, D)
    BY <1>2, SendTracks DEF Msg
  <2>2. outbox' = outbox
    BY <1>2 DEF Echo
  <2>3. QED
    BY <2>1, <2>2, EvidenceTracks
<1>3. ASSUME NEW m \in Own, SendFails(m) \/ RetryBegin(m) \/ GiveUp(m) PROVE EvidenceInv'
  <2>1. /\ UNCHANGED <<entry, byPeer, tracks, shipped, acked, readUpTo, receivedBuffer, readBuffer>>
        /\ \A n \in Own : outbox'[n] = "queued" => outbox[n] = "queued"
    BY <1>3 DEF SendFails, RetryBegin, GiveUp, tracker, TypeOK
  <2>2. BufferedArrived'
    BY <2>1 DEF EvidenceInv, BufferedArrived
  <2>3. QED
    BY <2>1, <2>2, EvidenceIdle
<1>4. ASSUME NEW d \in Dev, NEW m \in Msg, ~Tracked(m), Received(d, m) PROVE EvidenceInv'
  <2>1. /\ receivedBuffer' \in Buffer(receivedBuffer, <<d, m>>) /\ acked' = acked \cup {<<d, m>>}
        /\ UNCHANGED <<entry, byPeer, tracks, shipped, outbox, readBuffer, readUpTo>>
    BY <1>4 DEF Received
  <2>2. BufferedArrived'
    BY <2>1, BufferFacts DEF EvidenceInv, BufferedArrived
  <2>3. QED
    BY <2>1, <2>2, EvidenceIdle
<1>5. ASSUME NEW x \in Msg \cup Foreign, x \notin {byPeer[i] : i \in 1..Len(byPeer)}, Read(x) PROVE EvidenceInv'
  <2>1. /\ readBuffer' \in Buffer(readBuffer, x) /\ readUpTo' = readUpTo \cup {x}
        /\ UNCHANGED <<entry, byPeer, tracks, shipped, outbox, receivedBuffer, acked>>
    BY <1>5 DEF Read
  <2>2. BufferedArrived'
    BY <2>1, BufferFacts DEF EvidenceInv, BufferedArrived
  <2>3. QED
    BY <2>1, <2>2, EvidenceIdle
<1>6. ASSUME UNCHANGED vars PROVE EvidenceInv'
  <2>1. UNCHANGED <<entry, byPeer, tracks, shipped, acked, readUpTo, receivedBuffer, readBuffer, outbox>>
    BY <1>6 DEF vars
  <2>2. BufferedArrived'
    BY <2>1 DEF EvidenceInv, BufferedArrived
  <2>3. QED
    BY <2>1, <2>2, EvidenceIdle
<1>7. QED
  BY <1>1, <1>2, <1>3, <1>4, <1>5, <1>6, EvidenceShip, EvidenceSendResult, EvidenceReceived, EvidenceRead, Steps
  DEF Step

\* No status is shown without the answers it stands for, whatever the order of
\* echoes, answers and retries.
THEOREM StatusProven == Spec => []StatusHasEvidence
<1>1. Init => EvidenceInv
  BY DEF Init, EvidenceInv, BufferedArrived, DevicesKnown, Envelopes, StatusHasEvidence, NoEntry, Msg
<1>2. EvidenceInv => StatusHasEvidence
  BY DEF EvidenceInv
<1>3. QED
  BY <1>1, <1>2, EvidenceStep, ListedInvariant, TypeCorrect, PTL DEF Spec

-----------------------------------------------------------------------------
\* Every event for a message that is not tracked is in a buffer or fell out of
\* one.
Waiting ==
  \A m \in Msg :
    ~Tracked(m) =>
      /\ \A d \in Dev : <<d, m>> \in acked \ dropped => <<d, m>> \in receivedBuffer
      /\ m \in readUpTo \ dropped => m \in readBuffer

KeptInv == Waiting /\ NothingForgotten

\* Once read or failed, an entry stays so.
LEMMA ReadStays ==
  ASSUME NEW r, NEW s, Evolves(r, s), r.status \in {"read", "failed"}, s.status \in Rung
  PROVE  s.status \in {"read", "failed"}
BY Ranks DEF Evolves, Climbs, Rung, Status

\* Tracking a message takes in what was waiting for it.
LEMMA KeptTracks ==
  ASSUME TypeOK, TrackedListed, KeptInv, NEW m \in Msg, NEW D \in SUBSET Dev, Tracks(m, D)
  PROVE  KeptInv'
<1>1. /\ entry' \in [Msg -> Entry]
      /\ receivedBuffer' = {y \in receivedBuffer : y[2] # m} /\ readBuffer' = readBuffer \ {m}
      /\ UNCHANGED <<acked, readUpTo, dropped>>
      /\ byPeer' = Append(byPeer, m) /\ tracks' = [tracks EXCEPT ![m] = @ + 1]
      /\ OthersEvolve(m, row) /\ NewEntry(m, D)
  BY TracksFacts
<1>2. tracks \in [Msg -> Nat] /\ byPeer \in Seq(Msg)
  BY DEF TypeOK
<1>3. tracks'[m] = tracks[m] + 1 /\ tracks[m] \in Nat /\ \A n \in Msg \ {m} : tracks'[n] = tracks[n]
  BY <1>1, <1>2
<1>4. Tracked(m)' /\ \A n \in Msg \ {m} : Tracked(n)' <=> Tracked(n)
  BY <1>1, EvolvesTracked DEF OthersEvolve, NewEntry, Tracked
<1>5. Waiting'
  <2>1. ASSUME NEW n \in Msg, ~Tracked(n)'
        PROVE  /\ \A d \in Dev : <<d, n>> \in acked' \ dropped' => <<d, n>> \in receivedBuffer'
               /\ n \in readUpTo' \ dropped' => n \in readBuffer'
    <3>1. n # m /\ ~Tracked(n)
      BY <1>4, <2>1
    <3>2. QED
      BY <1>1, <3>1 DEF KeptInv, Waiting
  <2>2. QED
    BY <2>1 DEF Waiting
<1>6. ASSUME NEW n \in Msg, tracks'[n] = 1, NEW d \in Dev, <<d, n>> \in acked' \ dropped'
      PROVE  d \in entry'[n].received
  <2>1. CASE n = m
    <3>1. ~Tracked(m)
      BY <1>3, <1>6, <2>1 DEF TrackedListed
    <3>2. <<d, m>> \in receivedBuffer
      BY <1>1, <1>6, <2>1, <3>1 DEF KeptInv, Waiting
    <3>3. QED
      BY <1>1, <2>1, <3>2 DEF NewEntry
  <2>2. CASE n # m
    <3>1. d \in entry[n].received
      BY <1>1, <1>3, <1>6, <2>2 DEF KeptInv, NothingForgotten
    <3>2. QED
      BY <1>1, <2>2, <3>1 DEF OthersEvolve
  <2>3. QED
    BY <2>1, <2>2
<1>7. ASSUME NEW n \in Msg, tracks'[n] = 1, NEW x \in readUpTo' \ dropped',
             x \in Msg, Tracked(x)', n \in UpTo(byPeer', x)
      PROVE  entry'[n].status \in {"read", "failed"}
  <2>1. CASE ~Tracked(x)
    <3>1. x = m /\ m \in readBuffer
      BY <1>1, <1>4, <1>7, <2>1 DEF KeptInv, Waiting
    <3>2. CASE n = m
      BY <1>1, <1>7, <3>1, <3>2 DEF NewEntry
    <3>3. CASE n # m
      <4>1. entry[n].status # "none"
        BY <1>3, <1>7, <3>3 DEF TrackedListed, Tracked
      <4>2. QED
        BY <1>1, <1>7, <3>1, <3>3, <4>1 DEF OthersEvolve
    <3>4. QED
      BY <3>2, <3>3
  <2>2. CASE Tracked(x)
    <3>1. \E i \in 1..Len(byPeer) : byPeer[i] = x
      BY <1>7, <2>2 DEF TrackedListed, Listed
    <3>2. n \in UpTo(byPeer, x)
      BY <1>1, <1>2, <1>7, <3>1, UpToGrows
    <3>3. \E i \in 1..Len(byPeer) : byPeer[i] = n
      BY <3>2 DEF UpTo
    <3>4. tracks[n] # 0
      BY <3>3 DEF TrackedListed, Listed
    <3>5. n # m /\ tracks[n] = 1
      BY <1>3, <1>7, <3>4
    <3>6. entry[n].status \in {"read", "failed"}
      BY <1>1, <1>7, <2>2, <3>2, <3>5 DEF KeptInv, NothingForgotten
    <3>7. entry'[n].status \in Rung
      BY <1>1 DEF Entry, Rung
    <3>8. Evolves(entry[n], entry'[n])
      BY <1>1, <3>5 DEF OthersEvolve
    <3>9. QED
      BY <3>6, <3>7, <3>8, ReadStays
  <2>3. QED
    BY <2>1, <2>2
<1>8. QED
  BY <1>5, <1>6, <1>7 DEF KeptInv, NothingForgotten

\* What a step on the entries has to show.
LEMMA KeptUpdates ==
  ASSUME TypeOK, TrackedListed, KeptInv, Updated,
         UNCHANGED <<receivedBuffer, readBuffer, dropped>>,
         \A n \in Msg : \A d \in Dev :
           <<d, n>> \in acked' \ acked => Tracked(n) /\ d \in entry'[n].received,
         \A x \in readUpTo' \ readUpTo :
           /\ x \in Msg => Tracked(x)
           /\ \A n \in Msg : n \in UpTo(byPeer, x) /\ entry[n].status # "none" =>
                entry'[n].status \in {"read", "failed"}
  PROVE  KeptInv'
<1>1. \A n \in Msg : Tracked(n)' <=> Tracked(n)
  BY EvolvesTracked DEF Updated, Tracked
<1>2. /\ tracks' = tracks /\ byPeer' = byPeer /\ entry' \in [Msg -> Entry]
      /\ \A n \in Msg : Evolves(entry[n], entry'[n])
  BY DEF Updated
<1>3. Waiting'
  <2>1. ASSUME NEW n \in Msg, ~Tracked(n)'
        PROVE  /\ \A d \in Dev : <<d, n>> \in acked' \ dropped' => <<d, n>> \in receivedBuffer'
               /\ n \in readUpTo' \ dropped' => n \in readBuffer'
    <3>1. ~Tracked(n)
      BY <1>1, <2>1
    <3>2. QED
      BY <3>1 DEF KeptInv, Waiting
  <2>2. QED
    BY <2>1 DEF Waiting
<1>4. ASSUME NEW n \in Msg, tracks'[n] = 1, NEW d \in Dev, <<d, n>> \in acked' \ dropped'
      PROVE  d \in entry'[n].received
  <2>1. CASE <<d, n>> \in acked
    <3>1. d \in entry[n].received
      BY <1>2, <1>4, <2>1 DEF KeptInv, NothingForgotten
    <3>2. QED
      BY <1>2, <3>1 DEF Evolves
  <2>2. CASE <<d, n>> \notin acked
    BY <1>4, <2>2
  <2>3. QED
    BY <2>1, <2>2
<1>5. ASSUME NEW n \in Msg, tracks'[n] = 1, NEW x \in readUpTo' \ dropped',
             x \in Msg, Tracked(x)', n \in UpTo(byPeer', x)
      PROVE  entry'[n].status \in {"read", "failed"}
  <2>1. CASE x \in readUpTo
    <3>1. entry[n].status \in {"read", "failed"}
      BY <1>1, <1>2, <1>5, <2>1 DEF KeptInv, NothingForgotten
    <3>2. entry'[n].status \in Rung /\ Evolves(entry[n], entry'[n])
      BY <1>2 DEF Entry, Rung
    <3>3. QED
      BY <3>1, <3>2, ReadStays
  <2>2. CASE x \notin readUpTo
    <3>1. entry[n].status # "none"
      BY <1>2, <1>5 DEF TrackedListed, Tracked
    <3>2. QED
      BY <1>2, <1>5, <2>2, <3>1
  <2>3. QED
    BY <2>1, <2>2
<1>6. QED
  BY <1>3, <1>4, <1>5 DEF KeptInv, NothingForgotten

\* An event that finds nothing to update is buffered.
LEMMA KeptBuffers ==
  ASSUME TypeOK, TrackedListed, KeptInv, UNCHANGED <<entry, byPeer, tracks>>,
         dropped \subseteq dropped',
         \A n \in Msg : \A d \in Dev :
           <<d, n>> \in acked' \ dropped' =>
             \/ <<d, n>> \in acked /\ (<<d, n>> \in receivedBuffer => <<d, n>> \in receivedBuffer')
             \/ ~Tracked(n) /\ <<d, n>> \in receivedBuffer',
         \A x \in Msg :
           x \in readUpTo' \ dropped' =>
             \/ x \in readUpTo /\ (x \in readBuffer => x \in readBuffer')
             \/ ~Tracked(x) /\ x \in readBuffer'
  PROVE  KeptInv'
<1>1. \A n \in Msg : Tracked(n)' <=> Tracked(n)
  BY DEF Tracked
<1>2. \A n \in Msg : tracks[n] = 1 => Tracked(n)
  BY DEF TrackedListed
<1>3. Waiting'
  <2>1. ASSUME NEW n \in Msg, ~Tracked(n)'
        PROVE  /\ \A d \in Dev : <<d, n>> \in acked' \ dropped' => <<d, n>> \in receivedBuffer'
               /\ n \in readUpTo' \ dropped' => n \in readBuffer'
    <3>1. ~Tracked(n)
      BY <1>1, <2>1
    <3>2. QED
      BY <3>1 DEF KeptInv, Waiting
  <2>2. QED
    BY <2>1 DEF Waiting
<1>4. ASSUME NEW n \in Msg, tracks'[n] = 1, NEW d \in Dev, <<d, n>> \in acked' \ dropped'
      PROVE  d \in entry'[n].received
  <2>1. <<d, n>> \in acked \ dropped /\ tracks[n] = 1
    BY <1>2, <1>4
  <2>2. QED
    BY <2>1 DEF KeptInv, NothingForgotten
<1>5. ASSUME NEW n \in Msg, tracks'[n] = 1, NEW x \in readUpTo' \ dropped',
             x \in Msg, Tracked(x)', n \in UpTo(byPeer', x)
      PROVE  entry'[n].status \in {"read", "failed"}
  <2>1. x \in readUpTo \ dropped /\ Tracked(x) /\ tracks[n] = 1
    BY <1>1, <1>5
  <2>2. QED
    BY <1>5, <2>1 DEF KeptInv, NothingForgotten
<1>6. QED
  BY <1>3, <1>4, <1>5 DEF KeptInv, NothingForgotten

LEMMA KeptStep ==
  ASSUME TypeOK, TrackedListed, KeptInv, [Next]_vars
  PROVE  KeptInv'
<1>1. ASSUME NEW m \in Msg, NEW D \in SUBSET Dev, Send(m, D) \/ Retry(m, D) \/ Echo(m, D) PROVE KeptInv'
  BY <1>1, SendTracks, KeptTracks
<1>2. ASSUME UNCHANGED <<entry, byPeer, tracks, receivedBuffer, readBuffer, acked, readUpTo, dropped>>
      PROVE  KeptInv'
  BY <1>2, KeptBuffers
<1>3. ASSUME NEW m \in Own, SendFails(m) \/ RetryBegin(m) \/ GiveUp(m) PROVE KeptInv'
  BY <1>2, <1>3 DEF SendFails, RetryBegin, GiveUp, tracker
<1>4. ASSUME Updated, UNCHANGED <<receivedBuffer, readBuffer, acked, readUpTo, dropped>> PROVE KeptInv'
  BY <1>4, KeptUpdates
<1>5. ASSUME NEW m \in Own, Ship(m) PROVE KeptInv'
  BY <1>4, <1>5, ShipFacts DEF Ship
<1>6. ASSUME NEW m \in Own, NEW g \in 1..MaxTracks, NEW d \in Dev, NEW outcome \in {"ok", "error"},
             SendResult(m, g, d, outcome)
      PROVE KeptInv'
  <2>1. Updated
    BY <1>6, SendResultFacts
  <2>2. QED
    BY <1>4, <1>6, <2>1 DEF SendResult
<1>7. ASSUME NEW d \in Dev, NEW m \in Msg, Tracked(m), Received(d, m) PROVE KeptInv'
  <2>1. Updated /\ entry'[m].received = entry[m].received \cup {d}
    BY <1>7, ReceivedFacts
  <2>2. acked' = acked \cup {<<d, m>>} /\ UNCHANGED <<receivedBuffer, readBuffer, dropped, readUpTo>>
    BY <1>7 DEF Received
  <2>3. \A n \in Msg : \A e \in Dev :
          <<e, n>> \in acked' \ acked => Tracked(n) /\ e \in entry'[n].received
    BY <1>7, <2>1, <2>2
  <2>4. QED
    BY <2>1, <2>2, <2>3, KeptUpdates
<1>8. ASSUME NEW d \in Dev, NEW m \in Msg, ~Tracked(m), Received(d, m) PROVE KeptInv'
  <2>1. /\ UNCHANGED <<entry, byPeer, tracks, readBuffer, readUpTo>>
        /\ acked' = acked \cup {<<d, m>>}
        /\ dropped' = dropped \cup ((receivedBuffer \cup {<<d, m>>}) \ receivedBuffer')
    BY <1>8 DEF Received
  <2>2. ASSUME NEW n \in Msg, NEW e \in Dev, <<e, n>> \in acked' \ dropped'
        PROVE  \/ <<e, n>> \in acked /\ (<<e, n>> \in receivedBuffer => <<e, n>> \in receivedBuffer')
               \/ ~Tracked(n) /\ <<e, n>> \in receivedBuffer'
    <3>1. CASE <<e, n>> = <<d, m>>
      BY <1>8, <2>1, <2>2, <3>1
    <3>2. CASE <<e, n>> # <<d, m>>
      BY <2>1, <2>2, <3>2
    <3>3. QED
      BY <3>1, <3>2
  <2>3. QED
    BY <2>1, <2>2, KeptBuffers
<1>9. ASSUME NEW x \in Msg \cup Foreign, x \in {byPeer[i] : i \in 1..Len(byPeer)}, Read(x) PROVE KeptInv'
  <2>1. /\ Updated
        /\ \A n \in Msg : n \in UpTo(byPeer, x) /\ entry[n].status # "none" =>
             entry'[n].status \in {"read", "failed"}
    BY <1>9, ReadFacts
  <2>2. readUpTo' = readUpTo \cup {x} /\ UNCHANGED <<receivedBuffer, readBuffer, dropped, acked>>
    BY <1>9 DEF Read
  <2>3. x \in Msg => Tracked(x)
    BY <1>9 DEF TrackedListed, Listed
  <2>4. QED
    BY <2>1, <2>2, <2>3, KeptUpdates
<1>10. ASSUME NEW x \in Msg \cup Foreign, x \notin {byPeer[i] : i \in 1..Len(byPeer)}, Read(x) PROVE KeptInv'
  <2>1. /\ UNCHANGED <<entry, byPeer, tracks, receivedBuffer, acked>>
        /\ readUpTo' = readUpTo \cup {x}
        /\ dropped' = dropped \cup ((readBuffer \cup {x}) \ readBuffer')
    BY <1>10 DEF Read
  <2>2. x \in Msg => ~Tracked(x)
    BY <1>10 DEF TrackedListed, Listed
  <2>3. ASSUME NEW y \in Msg, y \in readUpTo' \ dropped'
        PROVE  \/ y \in readUpTo /\ (y \in readBuffer => y \in readBuffer')
               \/ ~Tracked(y) /\ y \in readBuffer'
    BY <2>1, <2>2, <2>3
  <2>4. QED
    BY <2>1, <2>3, KeptBuffers
<1>11. CASE UNCHANGED vars
  BY <1>2, <1>11 DEF vars
<1>12. QED
  BY <1>1, <1>3, <1>5, <1>6, <1>7, <1>8, <1>9, <1>10, <1>11, Steps DEF Step, Msg

\* An answer of the peer is never forgotten, whichever of it and the self-echo
\* comes first, unless a buffer overflowed.
THEOREM AnswersKept == Spec => []NothingForgotten
<1>1. Init => KeptInv
  BY DEF Init, KeptInv, Waiting, NothingForgotten
<1>2. KeptInv => NothingForgotten
  BY DEF KeptInv
<1>3. QED
  BY <1>1, <1>2, KeptStep, ListedInvariant, TypeCorrect, PTL DEF Spec
=============================================================================
