---------------------------- MODULE SessionProofs ----------------------------
(***************************************************************************)
(* Proofs about Sessions: for any number of texts, of devices that come    *)
(* and go, of frames and of claims, what every text reaches and what a     *)
(* one-time key is used for.                                               *)
(*                                                                         *)
(* Then, about the adapter below it, OlmStore: for any number of calls     *)
(* that overlap, of frames, of chains and of reloads, what becomes of the  *)
(* ratchet and of the keys.                                                *)
(***************************************************************************)
EXTENDS Sessions, OlmStore, SequenceTheorems, FiniteSetTheorems, TLAPS

-----------------------------------------------------------------------------
\* The inductive invariant of Sessions

\* Who is in line for a device is at work and has it before him; nobody is in
\* two lines, or twice in one; only the first has looked for the session.
InLine(w, d) == \E i \in 1..Len(locks[d]) : locks[d][i] = w
Holds(w, d) == locks[d] # <<>> /\ w = Head(locks[d])

LockInv ==
  /\ \A d \in Device, w \in Worker : InLine(w, d) => Busy(w) /\ d \in Devices(Left(w))
  /\ \A d, e \in Device : \A i \in 1..Len(locks[d]), k \in 1..Len(locks[e]) :
       locks[d][i] = locks[e][k] => d = e /\ i = k
  /\ \A w \in Worker : saw[w] # "nothing" => \E d \in Device : Holds(w, d)

\* Who is not at work holds no bundles; bundles asked for by the discovery are
\* wanted; a batch is there while it is worked off, a queue until then.
JobInv ==
  /\ \A w \in Worker : Busy(w) \/ job[w] = NoJob
  /\ \A w \in Worker : job[w].done \subseteq Devices(job[w].list)
  /\ disc.stage = "draining" <=> disc.batch # <<>>
  /\ disc.stage \notin {"none", "draining"} => disc.queue # <<>>
  /\ Asked(Finder) => disc.stage = "claiming"

Cached == IF bundles = NoEntry THEN {} ELSE bundles
Reachable(b) == b \in Cached \/ \E w \in Worker : b \in job[w].list
InAnswer(b, r) == r.got # NoAnswer /\ b \in r.got

\* A claim that is not delivered holds keys nobody has seen, and no two hold
\* the same.
KeyInv ==
  /\ \A b \in Bundle : b \in spent \/ Reachable(b) \/ (\E r \in requests : InAnswer(b, r)) => b.key <= keys
  /\ \A b \in Bundle, r \in requests : InAnswer(b, r) => b \notin spent /\ ~Reachable(b)
  /\ \A b \in Bundle, q, r \in requests : InAnswer(b, q) /\ InAnswer(b, r) => q = r

\* A key that was used and can be reached has its session, unless the device
\* was forgotten under somebody's hands; who holds the lock and found no
\* session has an unused one.
SpentInv ==
  /\ \A b \in spent : Reachable(b) => b.dev \in session \cup exposed
  /\ \A w \in Worker : \A b \in job[w].list :
       saw[w] = "absent" /\ Holds(w, b.dev) /\ b \in spent => b.dev \in exposed
  /\ KeySpentOnce

\* A text under way goes by the cached bundles, or was overtaken; so does the
\* discovery, or is outdated.
FreshInv ==
  /\ \A m \in Text : stage[m] = "sending" /\ m \notin overtaken => job[m].list = bundles
  /\ InFlight /\ ~disc.outdated =>
       /\ bundles # NoEntry
       /\ disc.stage # "draining" => disc.known = Devices(bundles)
       /\ disc.stage = "draining" => job[Catcher].list \subseteq bundles
  /\ disc.stage = "draining" => Devices(job[Catcher].list) \cap disc.known = {}

Distinct(s) == \A i, k \in 1..Len(s) : s[i] = s[k] => i = k
Past(m) == stage[m] \in {"sent", "refused"}

\* What went out went by its own fan-out or by the catch-up so far.
TwiceInv ==
  /\ \A p \in out : Past(p[1])
  /\ Distinct(disc.queue) /\ Distinct(disc.batch)
  /\ \A i \in 1..Len(disc.queue) : Past(disc.queue[i])
  /\ \A i \in 1..Len(disc.batch) : Past(disc.batch[i])
  /\ \A i \in 1..Len(disc.queue), p \in out :
       disc.stage # "draining" /\ p[1] = disc.queue[i] => p[1] \in overtaken \/ p[2] \in disc.known
  /\ \A i \in 1..Len(disc.batch), p \in out :
       p[1] = disc.batch[i] => p[1] \in overtaken \/ p[2] \in disc.known \/ (i = 1 /\ p[2] \in job[Catcher].done)
  /\ NotTwice

\* What is still owed waits in the batch.
Coming(p) ==
  \E i \in 1..Len(disc.batch) :
    p[1] = disc.batch[i] /\ p[2] \in Devices(job[Catcher].list) /\ (i = 1 => p[2] \notin job[Catcher].done)

MissedInv ==
  /\ ~InFlight => joined = {} /\ disc.batch = <<>>
  /\ \A m \in joined : disc.stage # "draining" =>
       /\ \E i \in 1..Len(disc.queue) : disc.queue[i] = m
       /\ m \in overtaken \/ \A d \in disc.known : <<m, d>> \in out
  /\ \A p \in owed \ out : p[1] \in overtaken \/ Coming(p)

SessionInv == TypeOK /\ LockInv /\ JobInv /\ KeyInv /\ SpentInv /\ FreshInv /\ TwiceInv /\ MissedInv

-----------------------------------------------------------------------------
\* Types

\* Who holds a lock is at work on that device.
LEMMA HolderWorks ==
  ASSUME TypeOK, LockInv, NEW w \in Worker, NEW d \in Device, Holds(w, d)
  PROVE Busy(w) /\ d \in Devices(Left(w)) /\ InLine(w, d)
<1>1. 1 \in 1..Len(locks[d]) /\ locks[d][1] = w
  BY DEF Holds, TypeOK
<1>2. QED
  BY <1>1 DEF LockInv, InLine

\* The types of what a worker does at a device's lock.
LEMMA EncryptsTypes ==
  ASSUME TypeOK, NEW w \in Worker, NEW d \in Device, Encrypts(w, d)
  PROVE /\ session' \subseteq Device /\ spent' \subseteq Bundle /\ respent' \subseteq spent'
        /\ locks' \in [Device -> Seq(Worker)]
        /\ saw' \in [Worker -> {"nothing", "absent", "present"}]
<1>1. /\ locks[d] \in Seq(Worker) /\ locks[d] # <<>>
      /\ locks' = [locks EXCEPT ![d] = Tail(locks[d])]
  BY DEF Encrypts, TypeOK
<1>2. locks' \in [Device -> Seq(Worker)]
  <2>1. Tail(locks[d]) \in Seq(Worker)
    BY <1>1
  <2>2. QED
    BY <1>1, <2>1 DEF TypeOK
<1>3. session' \subseteq Device
  BY DEF Encrypts, TypeOK
<1>4. spent' \subseteq Bundle /\ respent' \subseteq spent'
  BY DEF Encrypts, TypeOK
<1>5. saw' \in [Worker -> {"nothing", "absent", "present"}]
  BY DEF Encrypts, TypeOK, Found
<1>6. QED
  BY <1>2, <1>3, <1>4, <1>5

\* What the end of a fan-out makes of the discovery.
LEMMA KickOffTypes ==
  ASSUME TypeOK, NEW m \in Text, NEW D \in SUBSET Device, maybeKickOffDiscovery(m, D)
  PROVE /\ disc' \in Discovery
        /\ Len(disc'.queue) <= Cap /\ Len(disc'.batch) <= Cap
        /\ disc'.stage = "none" => disc' = NoDiscovery
        /\ due' \in BOOLEAN /\ joined' \subseteq Text /\ overtaken' \subseteq Text
        /\ owed' \subseteq Text \X Device
<1>1. CASE Join(m)
  <2>1. Queue(m) \in Seq(Text) /\ Len(Queue(m)) <= Cap
    BY BoundsAssumption DEF Queue, TypeOK, Discovery
  <2>2. Devices(job[Catcher].list) \subseteq Device
    BY DEF TypeOK, Worker, Devices, Bundle
  <2>3. disc' = [disc EXCEPT !.queue = Queue(m)] /\ disc.stage # "none" /\ due' = due
    BY <1>1 DEF Join, InFlight
  <2>4. disc' \in Discovery /\ Len(disc'.queue) <= Cap /\ Len(disc'.batch) <= Cap /\ disc'.stage # "none"
    BY <2>1, <2>3 DEF TypeOK, Discovery
  <2>5. joined' \subseteq Text /\ overtaken' \subseteq Text /\ owed' \subseteq Text \X Device
    BY <1>1, <2>2 DEF Join, Covered, TypeOK
  <2>6. QED
    BY <2>3, <2>4, <2>5 DEF TypeOK
<1>2. CASE Discover(m, D)
  <2>1. <<m>> \in Seq(Text) /\ Len(<<m>>) <= Cap /\ <<>> \in Seq(Text) /\ Len(<<>>) <= Cap
    BY BoundsAssumption
  <2>2. disc' = [stage |-> "listing", known |-> D, live |-> {}, queue |-> <<m>>, batch |-> <<>>,
                 outdated |-> m \in overtaken]
    BY <1>2 DEF Discover, NoDiscovery
  <2>3. disc' \in Discovery /\ Len(disc'.queue) <= Cap /\ Len(disc'.batch) <= Cap /\ disc'.stage # "none"
    BY <2>1, <2>2 DEF Discovery
  <2>4. QED
    BY <1>2, <2>3 DEF Discover, TypeOK
<1>3. CASE RateLimited
  BY <1>3 DEF RateLimited, discovery, waited, TypeOK, Discovery
<1>4. QED
  BY <1>1, <1>2, <1>3 DEF maybeKickOffDiscovery

\* The types of no discovery.
LEMMA NoDiscoveryTypes ==
  /\ NoDiscovery \in Discovery
  /\ Len(NoDiscovery.queue) <= Cap /\ Len(NoDiscovery.batch) <= Cap
<1>1. <<>> \in Seq(Text) /\ Len(<<>>) <= Cap
  BY BoundsAssumption
<1>2. QED
  BY <1>1 DEF NoDiscovery, Discovery

\* Every step keeps the types.
LEMMA TypesStep == ASSUME TypeOK, LockInv, [Next]_vars PROVE TypeOK'
<1> USE DEF backend, cache, discovery, fanout, olm, inbound, emitted, waited, used, history
<1>1. ASSUME NEW d \in Device, Enroll(d) PROVE TypeOK'
  BY <1>1 DEF Enroll, TypeOK
<1>2. ASSUME NEW d \in Device, Leave(d) PROVE TypeOK'
  BY <1>2 DEF Leave, TypeOK
<1>3. ASSUME NEW r \in requests, Serve(r) PROVE TypeOK'
  <2> DEFINE B == {[dev |-> d, key |-> keys + 1] : d \in registered}
  <2>1. keys' \in 0..MaxClaims /\ B \subseteq Bundle
    BY <1>3, BoundsAssumption DEF Serve, TypeOK, Bundle
  <2>2. requests' = (requests \ {r}) \cup {[r EXCEPT !.got = B]}
    BY <1>3 DEF Serve
  <2> HIDE DEF B
  <2>3. QED
    BY <1>3, <2>1, <2>2 DEF Serve, TypeOK
<1>4. CASE FloorPasses \/ CooldownEnds
  BY <1>4 DEF FloorPasses, CooldownEnds, TypeOK
<1>5. ASSUME NEW m \in Text, ensurePeerBundles(m) PROVE TypeOK'
  <2>1. m \in Worker
    BY DEF Worker
  <2>2. CASE CacheHit /\ stage' = [stage EXCEPT ![m] = "sending"]
             /\ job' = [job EXCEPT ![m] = Given(bundles)] /\ UNCHANGED requests
    <3>1. Given(bundles) \in [list : SUBSET Bundle, done : SUBSET Device]
      BY <2>2 DEF CacheHit, Given, TypeOK
    <3>2. QED
      BY <1>5, <2>1, <2>2, <3>1 DEF ensurePeerBundles, TypeOK
  <2>3. CASE stage' = [stage EXCEPT ![m] = "waiting"] /\ job' = job
             /\ (requests' = requests \/ Ask(Sender))
    BY <1>5, <2>3 DEF ensurePeerBundles, Ask, TypeOK
  <2>4. QED
    BY <1>5, <2>2, <2>3 DEF ensurePeerBundles
<1>6. ASSUME NEW m \in Text, FannedOut(m) PROVE TypeOK'
  <2>1. m \in Worker /\ job[m] \in [list : SUBSET Bundle, done : SUBSET Device]
    BY DEF Worker, TypeOK
  <2>2. Devices(job[m].list) \in SUBSET Device
    BY <2>1 DEF Devices, Bundle
  <2>3. maybeKickOffDiscovery(m, Devices(job[m].list))
    BY <1>6 DEF FannedOut
  <2>4. out' \subseteq Text \X Device /\ twice' \subseteq out'
    BY <1>6, <2>1 DEF FannedOut, Emit, TypeOK
  <2>5. job' \in [Worker -> [list : SUBSET Bundle, done : SUBSET Device]]
    BY <1>6 DEF FannedOut, NoJob, TypeOK
  <2>6. stage' \in [Text -> {"new", "waiting", "sending", "sent", "refused", "failed"}]
    BY <1>6 DEF FannedOut, TypeOK
  <2>7. UNCHANGED <<backend, cache, olm, inbound, used, requests>>
    BY <1>6 DEF FannedOut
  <2>8. QED
    BY <2>2, <2>3, <2>4, <2>5, <2>6, <2>7, KickOffTypes DEF TypeOK
<1>7. CASE Claimed
  <2>1. PICK B \in SUBSET Bundle :
          /\ Answered(Sender, B) /\ CacheBecomes(B) /\ disc' = Outdated(B) /\ cooling' = (B = {})
          /\ stage' = [m \in Text |-> IF m \in Waiting THEN "sending" ELSE stage[m]]
          /\ job' = [w \in Worker |-> IF w \in Waiting THEN Given(B) ELSE job[w]]
          /\ UNCHANGED <<backend, olm, inbound, emitted, waited, used, due>>
    BY <1>7 DEF Claimed
  <2>2. QED
    BY <2>1 DEF TypeOK, Answered, CacheBecomes, Outdated, Given, Sending, InFlight, NoDiscovery, Discovery
<1>8. CASE ClaimFails
  BY <1>8 DEF ClaimFails, Rejected, TypeOK
<1>9. ASSUME NEW w \in Worker, Enter(w) PROVE TypeOK'
  <2>1. PICK d \in Devices(Left(w)) :
          /\ locks' = [locks EXCEPT ![d] = Append(@, w)]
          /\ saw' = IF Free(d) THEN [saw EXCEPT ![w] = Found(session, d)] ELSE saw
    BY <1>9 DEF Enter
  <2>2. d \in Device
    BY DEF Devices, Left, TypeOK, Bundle
  <2>3. Append(locks[d], w) \in Seq(Worker)
    BY <2>2 DEF TypeOK
  <2>4. locks' \in [Device -> Seq(Worker)]
    BY <2>1, <2>3 DEF TypeOK
  <2>5. saw' \in [Worker -> {"nothing", "absent", "present"}]
    BY <2>1 DEF TypeOK, Found
  <2>6. QED
    BY <1>9, <2>4, <2>5 DEF Enter, TypeOK
<1>10. ASSUME NEW w \in Worker, NEW d \in Device, Encrypted(w, d) PROVE TypeOK'
  <2>1. Encrypts(w, d)
    BY <1>10 DEF Encrypted
  <2>2. job' \in [Worker -> [list : SUBSET Bundle, done : SUBSET Device]]
    <3>1. job[w] \in [list : SUBSET Bundle, done : SUBSET Device]
      BY DEF TypeOK
    <3>2. [job[w] EXCEPT !.done = @ \cup {d}] \in [list : SUBSET Bundle, done : SUBSET Device]
      BY <3>1
    <3>3. job' = [job EXCEPT ![w] = [job[w] EXCEPT !.done = @ \cup {d}]]
      BY <1>10 DEF Encrypted
    <3>4. QED
      BY <3>2, <3>3 DEF TypeOK
  <2>3. out' \subseteq Text \X Device /\ twice' \subseteq out'
    <3>1. CASE w = Catcher
      <4>1. disc.batch # <<>>
        BY <2>1, <3>1, HolderWorks DEF Encrypts, Holds, Busy
      <4>2. Head(disc.batch) \in Text
        BY <4>1 DEF TypeOK, Discovery
      <4>3. QED
        BY <1>10, <3>1, <4>2 DEF Encrypted, Emit, TypeOK
    <3>2. CASE w # Catcher
      BY <1>10, <3>2 DEF Encrypted, TypeOK
    <3>3. QED
      BY <3>1, <3>2
  <2>4. QED
    BY <1>10, <2>1, <2>2, <2>3, EncryptsTypes DEF Encrypted, TypeOK
<1>11. ASSUME NEW w \in Worker, NEW d \in Device, EncryptFails(w, d) PROVE TypeOK'
  <2>1. Encrypts(w, d)
    BY <1>11 DEF EncryptFails
  <2>2. /\ job' \in [Worker -> [list : SUBSET Bundle, done : SUBSET Device]]
        /\ stage' \in [Text -> {"new", "waiting", "sending", "sent", "refused", "failed"}]
        /\ owed' \subseteq Text \X Device
    <3>1. job[w] \in [list : SUBSET Bundle, done : SUBSET Device]
      BY DEF TypeOK
    <3>2. /\ [job[w] EXCEPT !.done = @ \cup {d}] \in [list : SUBSET Bundle, done : SUBSET Device]
          /\ NoJob \in [list : SUBSET Bundle, done : SUBSET Device]
      BY <3>1 DEF NoJob
    <3>3. CASE w = Catcher
      <4>1. job' = [job EXCEPT ![w] = [job[w] EXCEPT !.done = @ \cup {d}]] /\ stage' = stage
            /\ owed' \subseteq owed
        BY <1>11, <3>3 DEF EncryptFails
      <4>2. QED
        BY <3>2, <4>1 DEF TypeOK
    <3>4. CASE w # Catcher
      <4>1. job' = [job EXCEPT ![w] = NoJob] /\ stage' = [stage EXCEPT ![w] = "failed"] /\ owed' = owed
        BY <1>11, <3>4 DEF EncryptFails
      <4>2. QED
        BY <3>2, <3>4, <4>1 DEF TypeOK, Worker
    <3>5. QED
      BY <3>3, <3>4
  <2>3. QED
    BY <1>11, <2>1, <2>2, EncryptsTypes DEF EncryptFails, TypeOK
<1>12. CASE Listed
  BY <1>12 DEF Listed, TypeOK, Discovery
<1>13. CASE CompareDevices
  <2>1. CASE NewDevices = {}
    BY <1>13, <2>1, NoDiscoveryTypes DEF CompareDevices, DiscoveryEnds, TypeOK, Discovery
  <2>2. CASE NewDevices # {}
    <3>1. disc' = [disc EXCEPT !.stage = "claiming"] /\ Ask(Finder) /\ UNCHANGED <<joined, owed>>
      BY <1>13, <2>2 DEF CompareDevices
    <3>2. disc' \in Discovery /\ Len(disc'.queue) <= Cap /\ Len(disc'.batch) <= Cap /\ disc'.stage # "none"
      BY <3>1 DEF TypeOK, Discovery
    <3>3. requests' \subseteq [by : {Sender, Finder} \cup Frame, got : {NoAnswer} \cup SUBSET Bundle]
      BY <3>1 DEF Ask, TypeOK
    <3>4. QED
      BY <1>13, <3>1, <3>2, <3>3 DEF CompareDevices, TypeOK
  <2>3. QED
    BY <2>1, <2>2
<1>14. CASE Refreshed
  <2>1. PICK B \in SUBSET Bundle :
          /\ Answered(Finder, B) /\ CacheBecomes(B)
          /\ disc' = [disc EXCEPT !.stage = "draining", !.batch = disc.queue, !.queue = <<>>]
          /\ job' = [job EXCEPT ![Catcher] = Given({b \in B : b.dev \in NewDevices})]
          /\ owed' = owed \cup (joined \X (disc.live \cap Devices(B)))
          /\ UNCHANGED <<backend, olm, inbound, emitted, used, cooling, due, stage, joined>>
    BY <1>14 DEF Refreshed
  <2>2. <<>> \in Seq(Text) /\ Len(<<>>) <= Cap
    BY BoundsAssumption
  <2>3. /\ disc' \in Discovery
        /\ Len(disc'.queue) <= Cap /\ Len(disc'.batch) <= Cap /\ disc'.stage # "none"
    BY <2>1, <2>2 DEF TypeOK, Discovery
  <2>4. /\ job' \in [Worker -> [list : SUBSET Bundle, done : SUBSET Device]]
        /\ owed' \subseteq Text \X Device
    <3>1. Given({b \in B : b.dev \in NewDevices}) \in [list : SUBSET Bundle, done : SUBSET Device]
      BY DEF Given
    <3>2. disc.live \subseteq Device
      BY DEF TypeOK, Discovery
    <3>3. QED
      BY <2>1, <3>1, <3>2 DEF TypeOK
  <2>5. QED
    BY <2>1, <2>3, <2>4 DEF TypeOK, Answered, CacheBecomes, Sending
<1>15. CASE DiscoveryFails
  BY <1>15, NoDiscoveryTypes DEF DiscoveryFails, DiscoveryEnds, Rejected, TypeOK, Discovery
<1>16. CASE CaughtUp
  <2>1. CASE Len(disc.batch) = 1
    <3>1. disc' = NoDiscovery /\ joined' = {} /\ job' = [job EXCEPT ![Catcher] = NoJob]
      BY <1>16, <2>1 DEF CaughtUp, DiscoveryEnds
    <3>2. job' \in [Worker -> [list : SUBSET Bundle, done : SUBSET Device]]
      BY <3>1 DEF NoJob, TypeOK
    <3> QED BY <1>16, <3>1, <3>2, NoDiscoveryTypes DEF CaughtUp, TypeOK
  <2>2. CASE Len(disc.batch) # 1
    <3>1. Tail(disc.batch) \in Seq(Text) /\ Len(Tail(disc.batch)) <= Cap
      BY <1>16, BoundsAssumption DEF CaughtUp, Busy, TypeOK, Discovery
    <3>2. disc' = [disc EXCEPT !.batch = Tail(disc.batch)] /\ job' = [job EXCEPT ![Catcher].done = {}]
          /\ joined' = joined
      BY <1>16, <2>2 DEF CaughtUp
    <3>3. disc.stage # "none"
      BY <1>16 DEF CaughtUp, Busy, TypeOK, NoDiscovery, Discovery
    <3>4. disc' \in Discovery /\ disc'.stage = disc.stage /\ disc'.queue = disc.queue /\ disc'.batch = Tail(disc.batch)
      BY <3>1, <3>2 DEF TypeOK, Discovery
    <3>5. job' \in [Worker -> [list : SUBSET Bundle, done : SUBSET Device]]
      BY <3>2 DEF TypeOK
    <3>6. QED
      BY <1>16, <3>1, <3>2, <3>3, <3>4, <3>5 DEF CaughtUp, TypeOK
  <2>3. QED
    BY <2>1, <2>2
<1>17. ASSUME NEW f \in Frame, NEW d \in Device, Hear(f, d) PROVE TypeOK'
  BY <1>17 DEF Hear, Understood, TypeOK
<1>18. ASSUME NEW f \in Frame, NEW d \in Device, HearBroken(f, d) PROVE TypeOK'
  <2>1. Without(d) = NoEntry \/ Without(d) \subseteq Bundle
    BY DEF Without, TypeOK
  <2>2. bundles' = Without(d) /\ overtaken' \subseteq Text
    BY <1>18 DEF HearBroken, CacheBecomes, Sending, TypeOK
  <2>3. /\ disc' \in Discovery
        /\ Len(disc'.queue) <= Cap /\ Len(disc'.batch) <= Cap
        /\ disc'.stage = "none" => disc' = NoDiscovery
    BY <1>18 DEF HearBroken, Outdated, InFlight, NoDiscovery, TypeOK, Discovery
  <2>4. cooling' \in BOOLEAN
    BY <1>18 DEF HearBroken, TypeOK
  <2>5. /\ handlers' \subseteq [of : Frame, dev : Device, at : {"retry", "look", "claim", "done"}]
        /\ session' \subseteq Device /\ exposed' \subseteq Device
    BY <1>18 DEF HearBroken, TypeOK
  <2>6. UNCHANGED <<backend, fanout, emitted, waited, due, requests, locks, saw, announced, spent, respent>>
    BY <1>18 DEF HearBroken
  <2>7. QED
    BY <2>1, <2>2, <2>3, <2>4, <2>5, <2>6 DEF TypeOK
<1>19. ASSUME NEW h \in handlers, Retry(h) PROVE TypeOK'
  BY <1>19 DEF Retry, Goes, Understood, TypeOK
<1>20. ASSUME NEW h \in handlers, LookUp(h) PROVE TypeOK'
  <2>1. h \in [of : Frame, dev : Device, at : {"retry", "look", "claim", "done"}]
    BY DEF TypeOK
  <2>2. \A a \in {"claim", "done"} : [h EXCEPT !.at = a] \in [of : Frame, dev : Device, at : {"retry", "look", "claim", "done"}]
    BY <2>1
  <2>3. handlers' \subseteq [of : Frame, dev : Device, at : {"retry", "look", "claim", "done"}]
    BY <1>20, <2>2 DEF LookUp, Goes, TypeOK
  <2>4. requests' \subseteq [by : {Sender, Finder} \cup Frame, got : {NoAnswer} \cup SUBSET Bundle]
    BY <1>20, <2>1 DEF LookUp, Ask, TypeOK
  <2>5. announced' \subseteq Device
    BY <1>20, <2>1 DEF LookUp, TypeOK
  <2>6. QED
    BY <1>20, <2>3, <2>4, <2>5 DEF LookUp, TypeOK
<1>21. ASSUME NEW h \in handlers, Announced(h) PROVE TypeOK'
  <2>1. handlers' \subseteq [of : Frame, dev : Device, at : {"retry", "look", "claim", "done"}]
    BY <1>21 DEF Announced, Goes, TypeOK
  <2>2. \/ \E B \in SUBSET Bundle : Answered(h.of, B) /\ CacheBecomes(B) /\ disc' = Outdated(B)
        \/ Rejected(h.of) /\ UNCHANGED <<bundles, overtaken, disc>>
    BY <1>21 DEF Announced
  <2>3. /\ requests' \subseteq requests /\ overtaken' \subseteq Text
        /\ bundles' = NoEntry \/ bundles' \subseteq Bundle
        /\ disc' \in Discovery
        /\ Len(disc'.queue) <= Cap /\ Len(disc'.batch) <= Cap
        /\ disc'.stage = "none" => disc' = NoDiscovery
    <3>1. ASSUME NEW B \in SUBSET Bundle
          PROVE /\ Outdated(B) \in Discovery /\ Len(Outdated(B).queue) <= Cap /\ Len(Outdated(B).batch) <= Cap
                /\ Outdated(B).stage = "none" => Outdated(B) = NoDiscovery
      BY DEF Outdated, InFlight, NoDiscovery, TypeOK, Discovery
    <3>2. QED
      BY <2>2, <3>1 DEF Answered, Rejected, CacheBecomes, Sending, TypeOK
  <2>4. QED
    BY <1>21, <2>1, <2>3 DEF Announced, TypeOK
<1>22. CASE UNCHANGED vars
  BY <1>22 DEF vars, TypeOK
<1>23. QED
  BY <1>1, <1>2, <1>3, <1>4, <1>5, <1>6, <1>7, <1>8, <1>9, <1>10, <1>11, <1>12, <1>13, <1>14, <1>15,
     <1>16, <1>17, <1>18, <1>19, <1>20, <1>21, <1>22 DEF Next

-----------------------------------------------------------------------------
\* The locks

\* Nobody gets in or out of line, and who is in one keeps what he works on.
Kept ==
  /\ UNCHANGED <<locks, saw>>
  /\ \A w \in Worker : Busy(w) /\ Queued(w) => Busy(w)' /\ job'[w] = job[w]

LEMMA LocksStay == ASSUME LockInv, Kept PROVE LockInv'
<1>1. \A w \in Worker, d \in Device : InLine(w, d) => Busy(w)' /\ d \in Devices(Left(w))'
  BY DEF Kept, LockInv, Queued, InLine, Contains, Devices, Left
<1>2. QED
  BY <1>1 DEF Kept, LockInv, InLine, Holds

\* The discovery works on a batch only while it drains.
LEMMA CatcherFree ==
  ASSUME JobInv, disc.stage # "draining" PROVE ~Busy(Catcher)
  BY NamesAssumption DEF JobInv, Busy

\* Who is in no line gets in one.
LEMMA EnterLocks ==
  ASSUME TypeOK, LockInv, NEW w \in Worker, Enter(w) PROVE LockInv'
<1>1. PICK d \in Devices(Left(w)) :
        /\ locks' = [locks EXCEPT ![d] = Append(@, w)]
        /\ saw' = IF Free(d) THEN [saw EXCEPT ![w] = Found(session, d)] ELSE saw
  BY DEF Enter
<1>2. d \in Device /\ locks[d] \in Seq(Worker)
  BY DEF Devices, Left, TypeOK, Bundle
<1>3. Busy(w) /\ ~Queued(w) /\ UNCHANGED <<stage, disc, job>>
  BY DEF Enter, fanout, discovery
<1>4. \A e \in Device : \A i \in 1..Len(locks[e]) : locks[e][i] # w
  BY <1>3 DEF Queued, Contains
<1>5. \A e \in Device : locks[e] \in Seq(Worker)
  BY DEF TypeOK
<1>6. \A e \in Device : locks'[e] = IF e = d THEN Append(locks[d], w) ELSE locks[e]
  BY <1>1 DEF TypeOK
<1>7. /\ Len(Append(locks[d], w)) = Len(locks[d]) + 1
      /\ Append(locks[d], w)[Len(locks[d]) + 1] = w
      /\ \A i \in 1..Len(locks[d]) : Append(locks[d], w)[i] = locks[d][i]
  BY <1>2
<1>8. ASSUME NEW e \in Device, NEW i \in 1..Len(locks'[e])
      PROVE  \/ i \in 1..Len(locks[e]) /\ locks'[e][i] = locks[e][i]
             \/ e = d /\ i = Len(locks[d]) + 1 /\ locks'[e][i] = w
  <2>1. CASE e = d
    <3>1. locks'[e] = Append(locks[d], w)
      BY <1>6, <2>1
    <3>0. Len(locks[d]) \in Nat
      BY <1>2
    <3>2. i \in 1..(Len(locks[d]) + 1)
      BY <1>7, <3>1
    <3>3. i \in 1..Len(locks[d]) \/ i = Len(locks[d]) + 1
      BY <3>0, <3>2
    <3>4. CASE i \in 1..Len(locks[d])
      <4>1. locks'[e][i] = locks[d][i]
        BY <1>7, <3>1, <3>4
      <4>2. QED
        BY <2>1, <3>4, <4>1
    <3>5. CASE i = Len(locks[d]) + 1
      <4>1. locks'[e][i] = w
        BY <1>7, <3>1, <3>5
      <4>2. QED
        BY <2>1, <3>5, <4>1
    <3>6. QED
      BY <3>3, <3>4, <3>5
  <2>2. CASE e # d
    BY <1>6, <2>2
  <2>3. QED
    BY <2>1, <2>2
<1>9. \A x \in Worker, e \in Device : InLine(x, e)' => Busy(x)' /\ e \in Devices(Left(x))'
  <2>1. \A x \in Worker, e \in Device : InLine(x, e)' => InLine(x, e) \/ (x = w /\ e = d)
    BY <1>8 DEF InLine
  <2>2. \A x \in Worker : Busy(x)' = Busy(x) /\ Left(x)' = Left(x)
    BY <1>3 DEF Busy, Left
  <2>3. QED
    BY <1>1, <1>3, <2>1, <2>2 DEF LockInv, Devices
<1>11. \A e, g \in Device : \A i \in 1..Len(locks'[e]), k \in 1..Len(locks'[g]) :
         locks'[e][i] = locks'[g][k] => e = g /\ i = k
  <2> SUFFICES ASSUME NEW e \in Device, NEW g \in Device, NEW i \in 1..Len(locks'[e]), NEW k \in 1..Len(locks'[g]),
                      locks'[e][i] = locks'[g][k]
               PROVE e = g /\ i = k
    OBVIOUS
  <2>1. \/ i \in 1..Len(locks[e]) /\ locks'[e][i] = locks[e][i]
        \/ e = d /\ i = Len(locks[d]) + 1 /\ locks'[e][i] = w
    BY <1>8
  <2>2. \/ k \in 1..Len(locks[g]) /\ locks'[g][k] = locks[g][k]
        \/ g = d /\ k = Len(locks[d]) + 1 /\ locks'[g][k] = w
    BY <1>8
  <2>3. QED
    BY <1>4, <2>1, <2>2 DEF LockInv
<1>12. \A x \in Worker : saw'[x] # "nothing" => \E e \in Device : Holds(x, e)'
  <2> SUFFICES ASSUME NEW x \in Worker, saw'[x] # "nothing" PROVE \E e \in Device : Holds(x, e)'
    OBVIOUS
  <2>1. CASE saw[x] # "nothing"
    <3>1. PICK e \in Device : Holds(x, e)
      BY <2>1 DEF LockInv
    <3>2. CASE e = d
      <4>1. locks'[e] = Append(locks[d], w)
        BY <1>6, <3>2
      <4>2. Append(locks[d], w) # <<>> /\ Head(Append(locks[d], w)) = Append(locks[d], w)[1]
        BY <1>2, AppendProperties, HeadTailProperties
      <4>3. 1 \in 1..Len(locks[d]) /\ locks[d][1] = x
        BY <1>2, <3>1, <3>2 DEF Holds
      <4>4. Append(locks[d], w)[1] = x
        BY <1>7, <4>3
      <4>5. QED
        BY <4>1, <4>2, <4>4 DEF Holds
    <3>3. CASE e # d
      BY <1>6, <3>1, <3>3 DEF Holds
    <3>4. QED
      BY <3>2, <3>3
  <2>2. CASE saw[x] = "nothing"
    <3>1. Free(d) /\ x = w
      BY <1>1, <2>2 DEF TypeOK
    <3>2. locks'[d] = Append(<<>>, w)
      BY <1>2, <1>6, <3>1 DEF Free
    <3>3. Holds(x, d)'
      BY <3>1, <3>2 DEF Holds
    <3>4. QED
      BY <1>2, <3>3
  <2>3. QED
    BY <2>1, <2>2
<1>13. QED
  BY <1>9, <1>11, <1>12 DEF LockInv

\* Who holds a lock lets the next one on, and is in no line then.
LEMMA EncryptsLocks ==
  ASSUME TypeOK, LockInv, NEW w \in Worker, NEW d \in Device, Encrypts(w, d),
         \A x \in Worker \ {w} : Busy(x) => Busy(x)' /\ job'[x] = job[x]
  PROVE LockInv' /\ \A e \in Device : ~InLine(w, e)'
<1>1. /\ locks[d] \in Seq(Worker) /\ locks[d] # <<>> /\ w = Head(locks[d])
      /\ locks' = [locks EXCEPT ![d] = Tail(locks[d])]
  BY DEF Encrypts, TypeOK
<1>2. \A e \in Device : locks[e] \in Seq(Worker)
  BY DEF TypeOK
<1>3. \A e \in Device : locks'[e] = IF e = d THEN Tail(locks[d]) ELSE locks[e]
  BY <1>1 DEF TypeOK
<1>4. /\ Len(Tail(locks[d])) = Len(locks[d]) - 1
      /\ \A i \in 1..Len(Tail(locks[d])) : i + 1 \in 1..Len(locks[d]) /\ Tail(locks[d])[i] = locks[d][i + 1]
      /\ 1 \in 1..Len(locks[d]) /\ locks[d][1] = w
  BY <1>1
<1>5. \A e \in Device : \A i \in 1..Len(locks'[e]) :
        \E k \in 1..Len(locks[e]) : locks'[e][i] = locks[e][k] /\ k = (IF e = d THEN i + 1 ELSE i)
  BY <1>3, <1>4
<1>6. \A e \in Device : ~InLine(w, e)'
  <2> SUFFICES ASSUME NEW e \in Device, NEW i \in 1..Len(locks'[e]), locks'[e][i] = w PROVE FALSE
    BY DEF InLine
  <2>1. PICK k \in 1..Len(locks[e]) : locks[e][k] = w /\ k = (IF e = d THEN i + 1 ELSE i)
    BY <1>5
  <2>2. e = d /\ k = 1
    BY <1>4, <2>1 DEF LockInv
  <2>3. QED
    BY <1>1, <2>1, <2>2
<1>7. \A x \in Worker, e \in Device : InLine(x, e)' => InLine(x, e) /\ x # w
  BY <1>5, <1>6 DEF InLine
<1>8. \A x \in Worker, e \in Device : InLine(x, e)' => Busy(x)' /\ e \in Devices(Left(x))'
  BY <1>7 DEF LockInv, Left, Devices
<1>9. \A e, g \in Device : \A i \in 1..Len(locks'[e]), k \in 1..Len(locks'[g]) :
        locks'[e][i] = locks'[g][k] => e = g /\ i = k
  <2> SUFFICES ASSUME NEW e \in Device, NEW g \in Device, NEW i \in 1..Len(locks'[e]), NEW k \in 1..Len(locks'[g]),
                      locks'[e][i] = locks'[g][k]
               PROVE e = g /\ i = k
    OBVIOUS
  <2>1. PICK a \in 1..Len(locks[e]) : locks'[e][i] = locks[e][a] /\ a = (IF e = d THEN i + 1 ELSE i)
    BY <1>5
  <2>2. PICK b \in 1..Len(locks[g]) : locks'[g][k] = locks[g][b] /\ b = (IF g = d THEN k + 1 ELSE k)
    BY <1>5
  <2>3. locks[e][a] = locks[g][b]
    BY <2>1, <2>2
  <2>6. e = g /\ a = b
    BY <2>3 DEF LockInv
  <2>4. i \in Int /\ k \in Int
    OBVIOUS
  <2>5. QED
    BY <2>1, <2>2, <2>4, <2>6
<1>10. \A x \in Worker : saw'[x] # "nothing" => \E e \in Device : Holds(x, e)'
  <2> SUFFICES ASSUME NEW x \in Worker, saw'[x] # "nothing" PROVE \E e \in Device : Holds(x, e)'
    OBVIOUS
  <2>1. x # w /\ (saw[x] # "nothing" \/ (Tail(locks[d]) # <<>> /\ x = Head(Tail(locks[d]))))
    BY DEF Encrypts
  <2>2. CASE Tail(locks[d]) # <<>> /\ x = Head(Tail(locks[d]))
    BY <1>3, <2>2 DEF Holds
  <2>3. CASE saw[x] # "nothing"
    <3>1. PICK e \in Device : Holds(x, e)
      BY <2>3 DEF LockInv
    <3>2. e # d
      BY <1>1, <2>1, <3>1 DEF Holds
    <3>3. Holds(x, e)'
      BY <1>3, <3>1, <3>2 DEF Holds
    <3>4. QED
      BY <3>3
  <2>4. QED
    BY <2>1, <2>2, <2>3
<1>11. QED
  BY <1>6, <1>8, <1>9, <1>10 DEF LockInv

\* What a fan-out leaves of the discovery's stages.
LEMMA KickOffStage ==
  ASSUME TypeOK, JobInv, NEW m \in Text, NEW D \in SUBSET Device, maybeKickOffDiscovery(m, D)
  PROVE /\ disc'.batch = disc.batch
        /\ disc'.stage = "draining" <=> disc'.batch # <<>>
        /\ disc'.stage \notin {"none", "draining"} => disc'.queue # <<>>
        /\ Asked(Finder) => disc'.stage = "claiming"
<1>1. CASE Join(m)
  <2>1. disc' = [disc EXCEPT !.queue = Queue(m)] /\ disc.stage # "none"
    BY <1>1 DEF Join, InFlight
  <2>2. disc.queue # <<>> => Queue(m) # <<>>
    BY DEF Queue, TypeOK, Discovery
  <2>3. disc'.stage = disc.stage /\ disc'.batch = disc.batch /\ disc'.queue = Queue(m)
    BY <2>1 DEF TypeOK, Discovery
  <2>4. QED
    BY <2>2, <2>3 DEF JobInv
<1>2. CASE Discover(m, D)
  <2>1. disc = NoDiscovery /\ disc.stage = "none" /\ disc.batch = <<>>
    BY <1>2 DEF Discover, InFlight, TypeOK, NoDiscovery
  <2>2. disc'.stage = "listing" /\ disc'.batch = <<>> /\ disc'.queue = <<m>>
    BY <1>2 DEF Discover, NoDiscovery
  <2>3. QED
    BY <2>1, <2>2 DEF JobInv
<1>3. CASE RateLimited
  BY <1>3 DEF RateLimited, discovery, JobInv
<1>4. QED
  BY <1>1, <1>2, <1>3 DEF maybeKickOffDiscovery

AtLock == \E w \in Worker : Enter(w) \/ \E d \in Device : Encrypted(w, d) \/ EncryptFails(w, d)

\* Only getting in line and what the first in line does disturbs who works at
\* the locks.
LEMMA KeptStep == ASSUME TypeOK, JobInv, [Next]_vars, ~AtLock PROVE Kept
<1> USE DEF backend, cache, discovery, fanout, olm, inbound, emitted, waited, used, history
<1>1. ASSUME UNCHANGED <<locks, saw, stage, job>>, disc'.batch = disc.batch PROVE Kept
  BY <1>1 DEF Kept, Busy
<1>2. ASSUME NEW d \in Device, Enroll(d) \/ Leave(d) PROVE Kept
  BY <1>1, <1>2 DEF Enroll, Leave
<1>3. ASSUME NEW r \in requests, Serve(r) PROVE Kept
  BY <1>1, <1>3 DEF Serve
<1>4. CASE FloorPasses \/ CooldownEnds \/ Listed
  BY <1>1, <1>4 DEF FloorPasses, CooldownEnds, Listed, TypeOK, Discovery
<1>5. ASSUME NEW m \in Text, ensurePeerBundles(m) PROVE Kept
  <2>1. stage[m] = "new" /\ UNCHANGED <<locks, saw, disc>>
    BY <1>5 DEF ensurePeerBundles
  <2>2. \A w \in Worker \ {m} : job'[w] = job[w] /\ (w # Catcher => stage'[w] = stage[w])
    BY <1>5 DEF ensurePeerBundles, TypeOK, Worker
  <2>3. QED
    BY <2>1, <2>2, NamesAssumption DEF Kept, Busy
<1>6. ASSUME NEW m \in Text, FannedOut(m) PROVE Kept
  <2>1. UNCHANGED <<locks, saw>> /\ ~Queued(m)
    BY <1>6 DEF FannedOut
  <2>2. disc'.batch = disc.batch
    <3>1. Devices(job[m].list) \in SUBSET Device
      BY DEF Devices, TypeOK, Worker, Bundle
    <3>2. QED
      BY <1>6, <3>1, KickOffStage DEF FannedOut
  <2>3. \A w \in Worker \ {m} : job'[w] = job[w] /\ (w # Catcher => stage'[w] = stage[w])
    BY <1>6 DEF FannedOut, TypeOK, Worker
  <2>4. QED
    BY <2>1, <2>2, <2>3 DEF Kept, Busy
<1>7. CASE Claimed \/ ClaimFails
  <2>1. UNCHANGED <<locks, saw>> /\ disc'.batch = disc.batch
    BY <1>7 DEF Claimed, ClaimFails, Outdated, TypeOK, Discovery
  <2>2. \A w \in Worker : w \notin Waiting => job'[w] = job[w] /\ (w # Catcher => stage'[w] = stage[w])
    BY <1>7 DEF Claimed, ClaimFails, TypeOK, Worker
  <2>3. \A w \in Waiting : ~Busy(w)
    BY NamesAssumption DEF Waiting, Busy
  <2>4. QED
    BY <2>1, <2>2, <2>3 DEF Kept, Busy
<1>8. CASE CompareDevices \/ Refreshed \/ DiscoveryFails
  <2>1. disc.stage # "draining" /\ UNCHANGED <<locks, saw, stage>>
    BY <1>8 DEF CompareDevices, Refreshed, DiscoveryFails, Answered, Rejected, Asked, JobInv
  <2>2. ~Busy(Catcher)
    BY <2>1, CatcherFree
  <2>3. \A w \in Worker \ {Catcher} : job'[w] = job[w]
    BY <1>8 DEF CompareDevices, Refreshed, DiscoveryFails, TypeOK
  <2>4. QED
    BY <2>1, <2>2, <2>3 DEF Kept, Busy
<1>9. CASE CaughtUp
  <2>1. ~Queued(Catcher) /\ UNCHANGED <<locks, saw, stage>>
    BY <1>9 DEF CaughtUp
  <2>2. \A w \in Worker \ {Catcher} : job'[w] = job[w]
    BY <1>9 DEF CaughtUp, TypeOK
  <2>3. QED
    BY <2>1, <2>2 DEF Kept, Busy
<1>10. ASSUME NEW f \in Frame, NEW d \in Device, Hear(f, d) \/ HearBroken(f, d) PROVE Kept
  BY <1>1, <1>10 DEF Hear, HearBroken, Outdated, TypeOK, Discovery
<1>11. ASSUME NEW h \in handlers, Retry(h) \/ LookUp(h) \/ Announced(h) PROVE Kept
  BY <1>1, <1>11 DEF Retry, LookUp, Announced, Outdated, TypeOK, Discovery
<1>12. CASE UNCHANGED vars
  BY <1>1, <1>12 DEF vars
<1>13. QED
  BY <1>2, <1>3, <1>4, <1>5, <1>6, <1>7, <1>8, <1>9, <1>10, <1>11, <1>12 DEF Next, AtLock

\* Every step keeps the order at the locks.
LEMMA LocksStep == ASSUME TypeOK, LockInv, JobInv, [Next]_vars PROVE LockInv'
<1>1. ASSUME NEW w \in Worker, Enter(w) PROVE LockInv'
  BY <1>1, EnterLocks
<1>2. ASSUME NEW w \in Worker, NEW d \in Device, Encrypted(w, d) \/ EncryptFails(w, d) PROVE LockInv'
  <2>1. Encrypts(w, d) /\ UNCHANGED disc
    BY <1>2 DEF Encrypted, EncryptFails, discovery
  <2>2. \A x \in Worker \ {w} : job'[x] = job[x] /\ (x # Catcher => stage'[x] = stage[x])
    BY <1>2 DEF Encrypted, EncryptFails, TypeOK, Worker
  <2>3. QED
    BY <2>1, <2>2, EncryptsLocks DEF Busy
<1>3. CASE ~AtLock
  BY <1>3, KeptStep, LocksStay
<1>4. QED
  BY <1>1, <1>2, <1>3 DEF AtLock

-----------------------------------------------------------------------------
\* The jobs and the stages

\* Every step keeps the jobs in step with the stages.
LEMMA JobsStep == ASSUME TypeOK, LockInv, JobInv, [Next]_vars PROVE JobInv'
<1> USE DEF backend, cache, discovery, fanout, olm, inbound, emitted, waited, used, history
<1> DEFINE Work == \A w \in Worker : Busy(w)' \/ job'[w] = NoJob
           Done == \A w \in Worker : job'[w].done \subseteq Devices(job'[w].list)
<1>1. ASSUME Asked(Finder)' => Asked(Finder), UNCHANGED <<stage, job>>,
             disc'.stage = disc.stage, disc'.batch = disc.batch, disc'.queue = disc.queue
      PROVE JobInv'
  BY <1>1 DEF JobInv, Busy
<1>2. ASSUME Work, Done, Asked(Finder)' => Asked(Finder),
             disc'.stage = disc.stage, disc'.batch = disc.batch, disc'.queue = disc.queue
      PROVE JobInv'
  BY <1>2 DEF JobInv
<1>3. ASSUME NEW d \in Device, Enroll(d) \/ Leave(d) PROVE JobInv'
  BY <1>1, <1>3 DEF Enroll, Leave, Asked
<1>4. ASSUME NEW r \in requests, Serve(r) PROVE JobInv'
  <2>1. [r EXCEPT !.got = {[dev |-> d, key |-> keys + 1] : d \in registered}].by = r.by
    BY DEF TypeOK
  <2>2. QED
    BY <1>1, <1>4, <2>1 DEF Serve, Asked
<1>5. CASE FloorPasses \/ CooldownEnds
  BY <1>1, <1>5 DEF FloorPasses, CooldownEnds, Asked
<1>6. ASSUME NEW m \in Text, ensurePeerBundles(m) PROVE JobInv'
  <2>1. Asked(Finder)' => Asked(Finder)
    BY <1>6, NamesAssumption DEF ensurePeerBundles, Ask, Asked
  <2>2. m \in Worker /\ m # Catcher /\ job[m] = NoJob /\ UNCHANGED disc
    BY <1>6, NamesAssumption DEF ensurePeerBundles, JobInv, Busy, Worker
  <2>3. \A w \in Worker \ {m} : job'[w] = job[w] /\ (w # Catcher => stage'[w] = stage[w])
    BY <1>6 DEF ensurePeerBundles, TypeOK, Worker
  <2>4. \/ stage'[m] = "sending" /\ job'[m] = Given(bundles)
        \/ job'[m] = NoJob
    BY <1>6, <2>2 DEF ensurePeerBundles, TypeOK
  <2>5. Work
    BY <2>2, <2>3, <2>4 DEF JobInv, Busy
  <2>6. Done
    BY <2>2, <2>3, <2>4 DEF JobInv, Given, NoJob
  <2>7. QED
    BY <1>2, <2>1, <2>2, <2>5, <2>6
<1>7. ASSUME NEW m \in Text, FannedOut(m) PROVE JobInv'
  <2>1. Devices(job[m].list) \in SUBSET Device
    BY DEF Devices, TypeOK, Worker, Bundle
  <2>2. /\ disc'.batch = disc.batch
        /\ disc'.stage = "draining" <=> disc'.batch # <<>>
        /\ disc'.stage \notin {"none", "draining"} => disc'.queue # <<>>
        /\ Asked(Finder) => disc'.stage = "claiming"
    BY <1>7, <2>1, KickOffStage DEF FannedOut
  <2>3. \A w \in Worker \ {m} : job'[w] = job[w] /\ (w # Catcher => stage'[w] = stage[w])
    BY <1>7 DEF FannedOut, TypeOK, Worker
  <2>4. job'[m] = NoJob /\ m # Catcher /\ UNCHANGED requests
    BY <1>7, NamesAssumption DEF FannedOut, TypeOK, Worker
  <2>5. Work
    BY <2>2, <2>3, <2>4 DEF JobInv, Busy
  <2>6. Done
    BY <2>3, <2>4 DEF JobInv, NoJob
  <2>7. QED
    BY <2>2, <2>4, <2>5, <2>6 DEF JobInv, Asked
<1>8. CASE Claimed \/ ClaimFails
  <2>1. /\ Asked(Finder)' => Asked(Finder)
        /\ disc'.stage = disc.stage /\ disc'.batch = disc.batch /\ disc'.queue = disc.queue
    BY <1>8 DEF Claimed, ClaimFails, Answered, Rejected, Asked, Outdated, TypeOK, Discovery
  <2>2. \A w \in Worker : w \notin Waiting => job'[w] = job[w] /\ (w # Catcher => stage'[w] = stage[w])
    BY <1>8 DEF Claimed, ClaimFails, TypeOK, Worker
  <2>3. \A w \in Waiting : w \in Worker /\ w # Catcher /\ job[w] = NoJob
    BY NamesAssumption DEF Waiting, JobInv, Busy, Worker
  <2>4. \A w \in Waiting : \/ job'[w] = NoJob
                           \/ stage'[w] = "sending" /\ job'[w].done = {}
    BY <1>8, <2>3 DEF Claimed, ClaimFails, Given, TypeOK, Waiting
  <2>5. Work
    BY <2>1, <2>2, <2>3, <2>4 DEF JobInv, Busy
  <2>6. Done
    BY <2>2, <2>4 DEF JobInv, NoJob
  <2>7. QED
    BY <1>2, <2>1, <2>5, <2>6
<1>9. ASSUME NEW w \in Worker, Enter(w) PROVE JobInv'
  BY <1>1, <1>9 DEF Enter, Asked
<1>10. ASSUME NEW w \in Worker, NEW d \in Device, Encrypted(w, d) PROVE JobInv'
  <2>1. Busy(w) /\ d \in Devices(Left(w))
    BY <1>10, HolderWorks DEF Encrypted, Encrypts, Holds
  <2>2. UNCHANGED <<stage, disc, requests>> /\ job' = [job EXCEPT ![w] = [job[w] EXCEPT !.done = @ \cup {d}]]
    BY <1>10 DEF Encrypted
  <2>3. /\ \A x \in Worker \ {w} : job'[x] = job[x]
        /\ job'[w].list = job[w].list /\ job'[w].done = job[w].done \cup {d}
    BY <2>2 DEF TypeOK
  <2>4. Work
    BY <2>1, <2>2, <2>3 DEF JobInv, Busy
  <2>5. Done
    BY <2>1, <2>3 DEF JobInv, Devices, Left
  <2>6. QED
    BY <1>2, <2>2, <2>4, <2>5 DEF Asked
<1>11. ASSUME NEW w \in Worker, NEW d \in Device, EncryptFails(w, d) PROVE JobInv'
  <2>1. Busy(w) /\ d \in Devices(Left(w))
    BY <1>11, HolderWorks DEF EncryptFails, Encrypts, Holds
  <2>2. /\ UNCHANGED <<disc, requests>>
        /\ \/ w = Catcher /\ stage' = stage /\ job' = [job EXCEPT ![w] = [job[w] EXCEPT !.done = @ \cup {d}]]
           \/ w # Catcher /\ stage' = [stage EXCEPT ![w] = "failed"] /\ job' = [job EXCEPT ![w] = NoJob]
    BY <1>11 DEF EncryptFails
  <2>3. /\ \A x \in Worker \ {w} : job'[x] = job[x] /\ (x # Catcher => stage'[x] = stage[x])
        /\ \/ job'[w] = NoJob
           \/ w = Catcher /\ job'[w].list = job[w].list /\ job'[w].done = job[w].done \cup {d}
    BY <2>2 DEF TypeOK, Worker
  <2>4. Work
    BY <2>1, <2>2, <2>3 DEF JobInv, Busy
  <2>5. Done
    BY <2>1, <2>3 DEF JobInv, Devices, Left, NoJob
  <2>6. QED
    BY <1>2, <2>2, <2>4, <2>5 DEF Asked
<1>12. CASE Listed
  <2>1. /\ disc.stage = "listing" /\ disc'.stage = "listed" /\ disc'.batch = disc.batch /\ disc'.queue = disc.queue
        /\ UNCHANGED <<stage, job, requests>>
    BY <1>12 DEF Listed, TypeOK, Discovery
  <2>2. QED
    BY <2>1 DEF JobInv, Asked, Busy
<1>13. CASE CompareDevices
  <2>1. disc.stage = "listed" /\ UNCHANGED <<stage, job>> /\ ~Asked(Finder) /\ ~Busy(Catcher) /\ disc.queue # <<>>
    BY <1>13, CatcherFree DEF CompareDevices, JobInv
  <2>2. \/ disc' = NoDiscovery /\ UNCHANGED requests
        \/ disc' = [disc EXCEPT !.stage = "claiming"]
    BY <1>13 DEF CompareDevices, DiscoveryEnds
  <2>3. disc.batch = <<>>
    BY <2>1 DEF JobInv
  <2>4. /\ disc'.batch = <<>>
        /\ \/ disc'.stage = "none" /\ ~Asked(Finder)'
           \/ disc'.stage = "claiming" /\ disc'.queue # <<>>
    <3>1. CASE disc' = NoDiscovery /\ UNCHANGED requests
      BY <2>1, <3>1 DEF NoDiscovery, Asked
    <3>2. CASE disc' = [disc EXCEPT !.stage = "claiming"]
      BY <2>1, <2>3, <3>2 DEF TypeOK, Discovery
    <3>3. QED
      BY <2>2, <3>1, <3>2
  <2>5. Work
    BY <2>1, <2>3, <2>4 DEF JobInv, Busy
  <2>6. QED
    BY <2>1, <2>4, <2>5 DEF JobInv
<1>14. CASE Refreshed
  <2>1. disc.stage = "claiming" /\ ~Busy(Catcher) /\ disc.queue # <<>>
    BY <1>14, CatcherFree DEF Refreshed, Answered, Asked, JobInv
  <2>2. /\ disc'.stage = "draining" /\ disc'.batch = disc.queue
        /\ UNCHANGED stage /\ ~Asked(Finder)'
        /\ \A w \in Worker \ {Catcher} : job'[w] = job[w]
        /\ job'[Catcher].done = {}
    BY <1>14 DEF Refreshed, Answered, Asked, Given, TypeOK, Discovery, Worker
  <2>3. Work /\ Done
    BY <2>1, <2>2 DEF JobInv, Busy
  <2>4. QED
    BY <2>1, <2>2, <2>3 DEF JobInv
<1>15. CASE DiscoveryFails
  <2>1. disc.stage # "draining" /\ ~Asked(Finder)' /\ UNCHANGED <<stage, job>>
    BY <1>15 DEF DiscoveryFails, Rejected, Asked, JobInv
  <2>2. disc'.stage = "none" /\ disc'.batch = <<>> /\ disc.batch = <<>>
    BY <1>15, <2>1 DEF DiscoveryFails, DiscoveryEnds, NoDiscovery, JobInv
  <2>3. QED
    BY <2>1, <2>2 DEF JobInv, Busy
<1>16. CASE CaughtUp
  <2>1. disc.stage = "draining" /\ ~Asked(Finder)' /\ UNCHANGED stage
    BY <1>16 DEF CaughtUp, Busy, JobInv, Asked
  <2>2. \A w \in Worker \ {Catcher} : job'[w] = job[w]
    BY <1>16 DEF CaughtUp, TypeOK
  <2>3. CASE Len(disc.batch) = 1
    <3>1. disc'.stage = "none" /\ disc'.batch = <<>> /\ job'[Catcher] = NoJob
      BY <1>16, <2>3 DEF CaughtUp, DiscoveryEnds, NoDiscovery, TypeOK, Worker
    <3>2. QED
      BY <2>1, <2>2, <3>1 DEF JobInv, Busy, NoJob
  <2>4. CASE Len(disc.batch) # 1
    <3>1. /\ disc' = [disc EXCEPT !.batch = Tail(disc.batch)]
          /\ job' = [job EXCEPT ![Catcher] = [job[Catcher] EXCEPT !.done = {}]]
      BY <1>16, <2>4 DEF CaughtUp
    <3>2. Tail(disc.batch) # <<>>
      <4>1. disc.batch \in Seq(Text) /\ disc.batch # <<>>
        BY <1>16 DEF CaughtUp, Busy, TypeOK, Discovery
      <4>2. Len(disc.batch) \in Nat /\ Len(disc.batch) # 0 /\ Len(Tail(disc.batch)) = Len(disc.batch) - 1
        BY <4>1, HeadTailProperties, EmptySeq
      <4>3. Len(Tail(disc.batch)) # 0
        BY <2>4, <4>2
      <4>4. Len(<<>>) = 0
        OBVIOUS
      <4>5. QED
        BY <4>3, <4>4, Zenon
    <3>3. disc'.stage = "draining" /\ disc'.batch # <<>> /\ job'[Catcher].done = {}
      BY <2>1, <3>1, <3>2 DEF TypeOK, Discovery, Worker
    <3>4. QED
      BY <2>1, <2>2, <3>3 DEF JobInv, Busy
  <2>5. QED
    BY <2>3, <2>4
<1>17. ASSUME NEW f \in Frame, NEW d \in Device, Hear(f, d) \/ HearBroken(f, d) PROVE JobInv'
  BY <1>1, <1>17 DEF Hear, HearBroken, Outdated, TypeOK, Discovery, Asked
<1>18. ASSUME NEW h \in handlers, Retry(h) \/ LookUp(h) \/ Announced(h) PROVE JobInv'
  <2>1. h.of \in Frame /\ h.of # Finder
    BY NamesAssumption DEF TypeOK
  <2>3. requests' \subseteq requests \cup {[by |-> h.of, got |-> NoAnswer]}
    BY <1>18 DEF Retry, LookUp, Announced, Ask, Answered, Rejected
  <2>4. Asked(Finder)' => Asked(Finder)
    BY <2>1, <2>3 DEF Asked
  <2>2. QED
    BY <1>1, <1>18, <2>4 DEF Retry, LookUp, Announced, Outdated, TypeOK, Discovery
<1>19. CASE UNCHANGED vars
  BY <1>1, <1>19 DEF vars, Asked
<1>20. QED
  BY <1>3, <1>4, <1>5, <1>6, <1>7, <1>8, <1>9, <1>10, <1>11, <1>12, <1>13, <1>14, <1>15, <1>16, <1>17,
     <1>18, <1>19 DEF Next

-----------------------------------------------------------------------------
\* The keys

\* A step that uses and hands out nothing but what was in use, or was in a
\* claim it delivers, keeps the claims apart.
LEMMA KeysDelivered ==
  ASSUME KeyInv, keys' = keys,
         \A q \in requests' : q \in requests \/ q.got = NoAnswer,
         \A b \in Bundle : b \in spent' \/ Reachable(b)' =>
           b \in spent \/ Reachable(b) \/ \E r \in requests \ requests' : InAnswer(b, r)
  PROVE KeyInv'
<1>1. \A b \in Bundle, q \in requests' : InAnswer(b, q) => q \in requests
  BY DEF InAnswer
<1>2. \A b \in Bundle : b \in spent' \/ Reachable(b)' \/ (\E r \in requests' : InAnswer(b, r)) => b.key <= keys'
  BY <1>1 DEF KeyInv
<1>3. \A b \in Bundle, r \in requests' : InAnswer(b, r) => b \notin spent' /\ ~Reachable(b)'
  BY <1>1 DEF KeyInv
<1>4. \A b \in Bundle, q, r \in requests' : InAnswer(b, q) /\ InAnswer(b, r) => q = r
  BY <1>1 DEF KeyInv
<1>5. QED
  BY <1>2, <1>3, <1>4 DEF KeyInv, InAnswer

\* What a delivered claim makes reachable was in the claim.
LEMMA Delivered ==
  ASSUME NEW x, NEW B \in SUBSET Bundle, Answered(x, B)
  PROVE /\ \A b \in B : \E r \in requests \ requests' : InAnswer(b, r)
        /\ requests' \subseteq requests /\ B # NoEntry /\ B # NoAnswer
BY NoneAssumption DEF Answered, InAnswer

\* Without() keeps some of the cached bundles.
LEMMA WithoutKeeps ==
  ASSUME TypeOK, NEW d \in Device, bundles' = Without(d)
  PROVE /\ Cached' = {b \in Cached : b.dev # d}
        /\ bundles = NoEntry => bundles' = NoEntry
BY NoneAssumption DEF Without, Cached, TypeOK

\* Who works at a lock keeps his bundles, or gives up.
LEMMA ListShrinks ==
  ASSUME TypeOK, NEW w \in Worker, NEW d \in Device, Encrypted(w, d) \/ EncryptFails(w, d)
  PROVE \A x \in Worker : job'[x].list \subseteq job[x].list
<1>1. job \in [Worker -> [list : SUBSET Bundle, done : SUBSET Device]]
  BY DEF TypeOK
<1>2. \/ job' = [job EXCEPT ![w] = [job[w] EXCEPT !.done = @ \cup {d}]]
      \/ job' = [job EXCEPT ![w] = NoJob]
  BY DEF Encrypted, EncryptFails
<1>3. CASE job' = [job EXCEPT ![w] = [job[w] EXCEPT !.done = @ \cup {d}]]
  BY <1>1, <1>3
<1>4. CASE job' = [job EXCEPT ![w] = NoJob]
  BY <1>1, <1>4 DEF NoJob
<1>5. QED
  BY <1>2, <1>3, <1>4

\* A step reaches what was reachable and what a claim delivers, and uses what
\* was reachable.
InClaim(b) == \E r \in requests \ requests' : InAnswer(b, r)

Reaches ==
  /\ \A b \in Bundle : Reachable(b)' => Reachable(b) \/ InClaim(b)
  /\ \A b \in spent' : b \in spent \/ Reachable(b)

LEMMA ReachStep == ASSUME TypeOK, [Next]_vars PROVE Reaches
<1> USE DEF backend, cache, discovery, fanout, olm, inbound, emitted, waited, used, history
<1>1. ASSUME UNCHANGED <<spent, bundles>>, \A w \in Worker : job'[w].list \subseteq job[w].list PROVE Reaches
  BY <1>1 DEF Reachable, Cached, Reaches
<1>2. ASSUME NEW x, NEW B \in SUBSET Bundle, Answered(x, B), bundles' = B, spent' = spent,
             \A w \in Worker : job'[w].list \subseteq job[w].list \cup B
      PROVE Reaches
  <2>1. Cached' = B /\ \A b \in B : InClaim(b)
    BY <1>2, Delivered DEF Cached, InClaim
  <2>2. QED
    BY <1>2, <2>1 DEF Reachable, Reaches
<1>3. ASSUME UNCHANGED <<spent, bundles, job>> PROVE Reaches
  BY <1>1, <1>3
<1>4. ASSUME NEW m \in Text, ensurePeerBundles(m) PROVE Reaches
  <2>1. UNCHANGED <<spent, bundles>>
    BY <1>4 DEF ensurePeerBundles
  <2>2. \A w \in Worker : job'[w].list \subseteq job[w].list \cup Cached
    BY <1>4 DEF ensurePeerBundles, CacheHit, Cached, Given, TypeOK
  <2>3. QED
    BY <2>1, <2>2 DEF Reachable, Cached, Reaches
<1>5. ASSUME NEW m \in Text, FannedOut(m) PROVE Reaches
  BY <1>1, <1>5 DEF FannedOut, NoJob, TypeOK
<1>6. CASE Claimed
  <2>1. PICK B \in SUBSET Bundle :
          /\ Answered(Sender, B) /\ bundles' = B /\ spent' = spent
          /\ job' = [w \in Worker |-> IF w \in Waiting THEN Given(B) ELSE job[w]]
    BY <1>6 DEF Claimed, CacheBecomes
  <2>2. \A w \in Worker : job'[w].list \subseteq job[w].list \cup B
    BY <2>1 DEF Given
  <2>3. QED
    BY <1>2, <2>1, <2>2
<1>7. ASSUME NEW w \in Worker, NEW d \in Device, Encrypted(w, d) \/ EncryptFails(w, d) PROVE Reaches
  <2>1. bundles' = bundles /\ spent' \subseteq spent \cup job[w].list
    BY <1>7 DEF Encrypted, EncryptFails, Encrypts
  <2>2. \A x \in Worker : job'[x].list \subseteq job[x].list
    BY <1>7, ListShrinks
  <2>3. QED
    BY <2>1, <2>2 DEF Reachable, Cached, Reaches
<1>8. CASE Refreshed
  <2>1. PICK B \in SUBSET Bundle :
          /\ Answered(Finder, B) /\ bundles' = B /\ spent' = spent
          /\ job' = [job EXCEPT ![Catcher] = Given({b \in B : b.dev \in NewDevices})]
    BY <1>8 DEF Refreshed, CacheBecomes
  <2>2. \A w \in Worker : job'[w].list \subseteq job[w].list \cup B
    BY <2>1 DEF Given, TypeOK
  <2>3. QED
    BY <1>2, <2>1, <2>2
<1>9. CASE CaughtUp
  <2>1. UNCHANGED <<spent, bundles>>
    BY <1>9 DEF CaughtUp
  <2>2. \/ job' = [job EXCEPT ![Catcher] = NoJob]
        \/ job' = [job EXCEPT ![Catcher] = [job[Catcher] EXCEPT !.done = {}]]
    BY <1>9 DEF CaughtUp
  <2>3. \A w \in Worker : job'[w].list \subseteq job[w].list
    BY <2>2 DEF NoJob, TypeOK, Worker
  <2>4. QED
    BY <1>1, <2>1, <2>3
<1>10. ASSUME NEW f \in Frame, NEW d \in Device, HearBroken(f, d) PROVE Reaches
  <2>1. UNCHANGED <<spent, job>> /\ bundles' = Without(d)
    BY <1>10 DEF HearBroken, CacheBecomes
  <2>2. QED
    BY <2>1, WithoutKeeps DEF Reachable, Reaches
<1>11. ASSUME NEW h \in handlers, Announced(h) PROVE Reaches
  <2>1. CASE Rejected(h.of) /\ UNCHANGED <<bundles, overtaken, disc>>
    BY <1>3, <1>11, <2>1 DEF Announced
  <2>2. ASSUME NEW B \in SUBSET Bundle, Answered(h.of, B), CacheBecomes(B) PROVE Reaches
    BY <1>2, <1>11, <2>2 DEF Announced, CacheBecomes
  <2>3. QED
    BY <1>11, <2>1, <2>2 DEF Announced
<1>12. CASE \E d \in Device : Enroll(d) \/ Leave(d)
  BY <1>3, <1>12 DEF Enroll, Leave
<1>13. CASE \E r \in requests : Serve(r)
  BY <1>3, <1>13 DEF Serve
<1>14. CASE FloorPasses \/ CooldownEnds \/ ClaimFails \/ Listed \/ CompareDevices \/ DiscoveryFails
  BY <1>3, <1>14 DEF FloorPasses, CooldownEnds, ClaimFails, Listed, CompareDevices, DiscoveryFails
<1>15. CASE \E w \in Worker : Enter(w)
  BY <1>3, <1>15 DEF Enter
<1>16. CASE \E f \in Frame, d \in Device : Hear(f, d)
  BY <1>3, <1>16 DEF Hear
<1>17. CASE \E h \in handlers : Retry(h) \/ LookUp(h)
  BY <1>3, <1>17 DEF Retry, LookUp
<1>18. CASE UNCHANGED vars
  BY <1>3, <1>18 DEF vars
<1>19. QED
  BY <1>4, <1>5, <1>6, <1>7, <1>8, <1>9, <1>10, <1>11, <1>12, <1>13, <1>14, <1>15, <1>16, <1>17, <1>18
     DEF Next

\* Only the backend fills a claim in.
LEMMA ClaimsStep ==
  ASSUME [Next]_vars, \A r \in requests : ~Serve(r)
  PROVE keys' = keys /\ \A q \in requests' : q \in requests \/ q.got = NoAnswer
<1> USE DEF backend, cache, discovery, fanout, olm, inbound, emitted, waited, used, history, Ask
<1>1. CASE \E d \in Device : Enroll(d) \/ Leave(d)
  BY <1>1 DEF Enroll, Leave
<1>2. CASE FloorPasses \/ CooldownEnds
  BY <1>2 DEF FloorPasses, CooldownEnds
<1>3. CASE \E m \in Text : ensurePeerBundles(m) \/ FannedOut(m)
  BY <1>3 DEF ensurePeerBundles, FannedOut
<1>4. CASE Claimed \/ ClaimFails
  BY <1>4 DEF Claimed, ClaimFails, Answered, Rejected
<1>5. CASE AtLock
  BY <1>5 DEF AtLock, Enter, Encrypted, EncryptFails
<1>6. CASE Listed \/ CompareDevices \/ Refreshed \/ DiscoveryFails \/ CaughtUp
  <2>1. CASE Listed \/ CaughtUp
    BY <2>1 DEF Listed, CaughtUp
  <2>2. CASE CompareDevices
    BY <2>2 DEF CompareDevices
  <2>3. CASE Refreshed \/ DiscoveryFails
    BY <2>3 DEF Refreshed, DiscoveryFails, Answered, Rejected
  <2>4. QED
    BY <1>6, <2>1, <2>2, <2>3
<1>7. CASE \E f \in Frame, d \in Device : Hear(f, d) \/ HearBroken(f, d)
  BY <1>7 DEF Hear, HearBroken
<1>8. ASSUME NEW h \in handlers, Retry(h) \/ LookUp(h) \/ Announced(h)
      PROVE keys' = keys /\ \A q \in requests' : q \in requests \/ q.got = NoAnswer
  <2>1. requests' \subseteq requests \cup {[by |-> h.of, got |-> NoAnswer]} /\ keys' = keys
    BY <1>8 DEF Retry, LookUp, Announced, Answered, Rejected
  <2>2. QED
    BY <2>1
<1>9. CASE UNCHANGED vars
  BY <1>9 DEF vars
<1>10. QED
  BY <1>1, <1>2, <1>3, <1>4, <1>5, <1>6, <1>7, <1>8, <1>9 DEF Next, AtLock

\* Every step keeps the claims apart.
LEMMA KeysStep == ASSUME TypeOK, KeyInv, [Next]_vars PROVE KeyInv'
<1>1. ASSUME NEW r \in requests, Serve(r) PROVE KeyInv'
  <2> DEFINE B == {[dev |-> d, key |-> keys + 1] : d \in registered}
             s == [r EXCEPT !.got = B]
  <2>1. keys' = keys + 1 /\ requests' = (requests \ {r}) \cup {s} /\ keys \in Nat
        /\ UNCHANGED <<spent, bundles, job>>
    BY <1>1, BoundsAssumption DEF Serve, TypeOK, cache, fanout, history
  <2>2. s.got = B /\ \A b \in B : b.key = keys + 1
    BY DEF TypeOK
  <2>3. \A b \in Bundle : Reachable(b)' <=> Reachable(b)
    BY <2>1 DEF Reachable, Cached
  <2>4. \A b \in Bundle : b.key \in Int
    BY DEF Bundle
  <2> HIDE DEF B, s
  <2>5. \A b \in Bundle : b.key <= keys => b.key <= keys'
    BY <2>1, <2>4
  <2>6. \A b \in Bundle : InAnswer(b, s) => ~(b.key <= keys) /\ b.key <= keys'
    BY <2>1, <2>2, <2>4 DEF InAnswer
  <2>7. \A b \in Bundle : b \in spent' \/ Reachable(b)' \/ (\E q \in requests' : InAnswer(b, q)) => b.key <= keys'
    BY <2>1, <2>3, <2>5, <2>6 DEF KeyInv
  <2>8. \A b \in Bundle, q \in requests' : InAnswer(b, q) => b \notin spent' /\ ~Reachable(b)'
    BY <2>1, <2>3, <2>6 DEF KeyInv
  <2>9. \A b \in Bundle, p, q \in requests' : InAnswer(b, p) /\ InAnswer(b, q) => p = q
    BY <2>1, <2>6 DEF KeyInv
  <2>10. QED
    BY <2>7, <2>8, <2>9 DEF KeyInv, InAnswer
<1>2. CASE \A r \in requests : ~Serve(r)
  BY <1>2, ReachStep, ClaimsStep, KeysDelivered DEF InClaim, Reaches
<1>3. QED
  BY <1>1, <1>2

-----------------------------------------------------------------------------
\* One session from a key

\* Who has looked for the session works at that lock.
LEMMA SawWorks ==
  ASSUME TypeOK, LockInv, NEW w \in Worker, saw[w] # "nothing"
  PROVE \E d \in Device : Holds(w, d) /\ Busy(w) /\ Queued(w)
<1>1. PICK d \in Device : Holds(w, d)
  BY DEF LockInv
<1>2. Busy(w) /\ InLine(w, d)
  BY <1>1, HolderWorks
<1>3. QED
  BY <1>1, <1>2 DEF InLine, Queued, Contains

\* Nobody is the first in two lines.
LEMMA OneLine ==
  ASSUME TypeOK, LockInv, NEW w \in Worker, NEW d \in Device, NEW e \in Device, Holds(w, d), InLine(w, e)
  PROVE d = e
<1>1. 1 \in 1..Len(locks[d]) /\ locks[d][1] = w
  BY DEF Holds, TypeOK
<1>2. QED
  BY <1>1 DEF LockInv, InLine

\* Away from the locks nothing is used, and what can be reached anew is unused.
LEMMA SpentStays ==
  ASSUME TypeOK, LockInv, SpentInv, Kept, UNCHANGED <<spent, respent>>, exposed \subseteq exposed',
         \A b \in spent : Reachable(b)' => b.dev \in session' \cup exposed'
  PROVE SpentInv'
<1>1. \A w \in Worker : saw'[w] # "nothing" => job'[w] = job[w]
  BY SawWorks DEF Kept
<1>2. \A w \in Worker : \A b \in job'[w].list :
        saw'[w] = "absent" /\ Holds(w, b.dev)' /\ b \in spent' => b.dev \in exposed'
  BY <1>1 DEF SpentInv, Kept, Holds
<1>3. QED
  BY <1>2 DEF SpentInv, KeySpentOnce

\* What is used and can be reached was reachable.
LEMMA SpentReached ==
  ASSUME TypeOK, KeyInv, [Next]_vars
  PROVE \A b \in spent : Reachable(b)' => Reachable(b)
BY ReachStep DEF InClaim, KeyInv, TypeOK, Reaches

\* Every step keeps the used keys to their sessions.
LEMMA SpentStep == ASSUME TypeOK, LockInv, JobInv, KeyInv, SpentInv, [Next]_vars PROVE SpentInv'
<1> USE DEF backend, cache, discovery, fanout, olm, inbound, emitted, waited, used, history
<1>1. ASSUME ~AtLock, \A f \in Frame, d \in Device : ~HearBroken(f, d) PROVE SpentInv'
  <2>1. UNCHANGED <<spent, respent, exposed>> /\ session \subseteq session'
    <3>1. CASE \E d \in Device : Enroll(d) \/ Leave(d)
      BY <3>1 DEF Enroll, Leave
    <3>2. CASE FloorPasses \/ CooldownEnds \/ \E r \in requests : Serve(r)
      BY <3>2 DEF FloorPasses, CooldownEnds, Serve
    <3>3. CASE \E m \in Text : ensurePeerBundles(m) \/ FannedOut(m)
      BY <3>3 DEF ensurePeerBundles, FannedOut
    <3>4. CASE Claimed \/ ClaimFails
      BY <3>4 DEF Claimed, ClaimFails
    <3>5. CASE Listed \/ CompareDevices \/ Refreshed \/ DiscoveryFails \/ CaughtUp
      BY <3>5 DEF Listed, CompareDevices, Refreshed, DiscoveryFails, CaughtUp
    <3>6. CASE \E f \in Frame, d \in Device : Hear(f, d)
      BY <3>6 DEF Hear
    <3>7. CASE \E h \in handlers : Retry(h) \/ LookUp(h) \/ Announced(h)
      BY <3>7 DEF Retry, LookUp, Announced
    <3>8. CASE UNCHANGED vars
      BY <3>8 DEF vars
    <3>9. QED
      BY <1>1, <3>1, <3>2, <3>3, <3>4, <3>5, <3>6, <3>7, <3>8 DEF Next, AtLock
  <2>2. QED
    BY <1>1, <2>1, KeptStep, SpentReached, SpentStays DEF SpentInv
<1>2. ASSUME NEW f \in Frame, NEW d \in Device, HearBroken(f, d), ~AtLock PROVE SpentInv'
  <2>1. /\ UNCHANGED <<spent, respent, job>> /\ session' = session \ {d} /\ exposed \subseteq exposed'
        /\ bundles' = Without(d)
        /\ \A w \in Worker : Busy(w) /\ d \in Devices(job[w].list) => d \in exposed'
    BY <1>2 DEF HearBroken, CacheBecomes
  <2>2. \A b \in spent : Reachable(b)' => b.dev \in session' \cup exposed'
    <3> SUFFICES ASSUME NEW b \in spent, Reachable(b)' PROVE b.dev \in session' \cup exposed'
      OBVIOUS
    <3>1. b.dev \in session \cup exposed
      BY SpentReached DEF SpentInv
    <3>2. CASE b.dev = d
      <4>1. b \notin Cached'
        BY <2>1, <3>2, WithoutKeeps
      <4>2. PICK w \in Worker : b \in job[w].list
        BY <2>1, <4>1 DEF Reachable
      <4>3. Busy(w)
        BY <4>2 DEF JobInv, NoJob
      <4>4. QED
        BY <2>1, <3>2, <4>2, <4>3 DEF Devices
    <3>3. CASE b.dev # d
      BY <2>1, <3>1, <3>3
    <3>4. QED
      BY <3>2, <3>3
  <2>3. QED
    BY <1>2, <2>1, <2>2, KeptStep, SpentStays
<1>3. ASSUME NEW w \in Worker, Enter(w) PROVE SpentInv'
  <2>1. PICK d \in Devices(Left(w)) :
          /\ locks' = [locks EXCEPT ![d] = Append(@, w)]
          /\ saw' = IF Free(d) THEN [saw EXCEPT ![w] = Found(session, d)] ELSE saw
    BY <1>3 DEF Enter
  <2>2. d \in Device /\ locks[d] \in Seq(Worker) /\ ~Queued(w)
        /\ UNCHANGED <<spent, respent, exposed, session, job, bundles>>
    BY <1>3 DEF Enter, Devices, Left, TypeOK, Bundle
  <2>3. \A e \in Device \ {d} : locks'[e] = locks[e]
    BY <2>1 DEF TypeOK
  <2>4. locks'[d] = Append(locks[d], w)
    BY <2>1, <2>2 DEF TypeOK
  <2>5. ASSUME NEW x \in Worker, NEW b \in job[x].list, saw'[x] = "absent", Holds(x, b.dev)', b \in spent
        PROVE b.dev \in exposed
    <3>1. b.dev \in Device
      BY DEF TypeOK, Bundle
    <3>2. CASE Holds(x, b.dev) /\ saw[x] = "absent"
      BY <2>2, <2>5, <3>2 DEF SpentInv
    <3>3. CASE ~(Holds(x, b.dev) /\ saw[x] = "absent")
      <4>1. ~Holds(w, b.dev)
        BY <2>2, <3>1, HolderWorks DEF InLine, Queued, Contains
      <4>2. Holds(x, b.dev) \/ (x = w /\ b.dev = d /\ Free(d))
        BY <2>2, <2>3, <2>4, <2>5, <3>1 DEF Holds, Free
      <4>3. saw[x] = "absent" \/ (x = w /\ Free(d) /\ d \notin session)
        BY <2>1, <2>5 DEF TypeOK, Found
      <4>4. x = w /\ Free(d)
        BY <3>3, <4>2, <4>3
      <4>5. b.dev = d
        BY <4>1, <4>2, <4>4
      <4>6. saw[w] = "absent" => FALSE
        BY <2>2, SawWorks
      <4>7. Reachable(b)
        BY DEF Reachable
      <4>8. QED
        BY <2>5, <4>3, <4>4, <4>5, <4>6, <4>7 DEF SpentInv
    <3>4. QED
      BY <3>2, <3>3
  <2>6. \A b \in spent : Reachable(b)' => b.dev \in session' \cup exposed'
    BY <2>2 DEF SpentInv, Reachable, Cached
  <2>7. QED
    BY <2>2, <2>5, <2>6 DEF SpentInv, KeySpentOnce
<1>4. ASSUME NEW w \in Worker, NEW d \in Device, Encrypted(w, d) \/ EncryptFails(w, d) PROVE SpentInv'
  <2> DEFINE start == IF saw[w] = "absent" THEN {b \in job[w].list : b.dev = d} ELSE {}
  <2>1. Encrypts(w, d) /\ exposed' = exposed
    BY <1>4 DEF Encrypted, EncryptFails
  <2>2. /\ Holds(w, d) /\ session' = session \cup {d}
        /\ spent' = spent \cup start /\ respent' = respent \cup (start \cap spent)
        /\ locks' = [locks EXCEPT ![d] = Tail(locks[d])]
    BY <2>1 DEF Encrypts, Holds
  <2>3. \A x \in Worker : saw'[x] = "absent" => x # w /\ saw[x] = "absent"
    BY <2>1, <2>2 DEF Encrypts, Found
  <2>4. \A x \in Worker : job'[x].list \subseteq job[x].list
    BY <1>4, ListShrinks
  <2>5. \A b \in start : b.dev = d /\ saw[w] = "absent" /\ b \in job[w].list
    OBVIOUS
  <2> HIDE DEF start
  <2>6. \A b \in spent' : Reachable(b)' => b.dev \in session' \cup exposed'
    BY <2>1, <2>2, <2>5, SpentReached DEF SpentInv
  <2>7. \A b \in respent' : b.dev \in exposed'
    BY <2>1, <2>2, <2>5 DEF SpentInv, KeySpentOnce
  <2>8. ASSUME NEW x \in Worker, NEW b \in job'[x].list, saw'[x] = "absent", Holds(x, b.dev)', b \in spent'
        PROVE b.dev \in exposed
    <3>1. b \in job[x].list /\ b.dev \in Device /\ x # w /\ saw[x] = "absent"
      BY <2>3, <2>4, <2>8 DEF TypeOK, Bundle
    <3>2. PICK e \in Device : Holds(x, e)
      BY <3>1 DEF LockInv
    <3>3. e # d
      BY <2>2, <3>1, <3>2 DEF Holds
    <3>4. b.dev = e
      <4>1. CASE b.dev = d
        <5>1. locks[d] \in Seq(Worker) /\ locks[d] # <<>> /\ locks'[d] = Tail(locks[d])
          BY <2>2 DEF Holds, TypeOK
        <5>2. Tail(locks[d]) # <<>> /\ x = Tail(locks[d])[1] /\ Tail(locks[d]) \in Seq(Worker)
          BY <2>8, <4>1, <5>1, HeadTailProperties DEF Holds
        <5>3. 1 \in 1..Len(Tail(locks[d])) /\ Len(Tail(locks[d])) = Len(locks[d]) - 1
          BY <5>1, <5>2, HeadTailProperties
        <5>4. 2 \in 1..Len(locks[d]) /\ locks[d][2] = x
          BY <5>1, <5>2, <5>3, HeadTailProperties
        <5>5. InLine(x, d)
          BY <5>4 DEF InLine
        <5>6. QED
          BY <3>2, <4>1, <5>5, OneLine
      <4>2. CASE b.dev # d
        <5>1. Holds(x, b.dev)
          BY <2>2, <2>8, <3>1, <4>2 DEF Holds, TypeOK
        <5>2. QED
          BY <3>1, <3>2, <5>1, HolderWorks, OneLine
      <4>3. QED
        BY <4>1, <4>2
    <3>5. b \in spent
      BY <2>2, <2>5, <2>8, <3>3, <3>4
    <3>6. QED
      BY <3>1, <3>2, <3>4, <3>5 DEF SpentInv
  <2>9. QED
    BY <2>1, <2>6, <2>7, <2>8 DEF SpentInv, KeySpentOnce
<1>5. QED
  BY <1>1, <1>2, <1>3, <1>4 DEF AtLock

-----------------------------------------------------------------------------
\* Fresh bundles

\* Nothing new is being sent, and the cache and the discovery keep what they
\* have.
LEMMA FreshStays ==
  ASSUME FreshInv, UNCHANGED <<bundles, overtaken>>, disc'.outdated = disc.outdated, disc'.known = disc.known,
         disc'.stage = disc.stage \/ disc'.stage = "none"
           \/ (disc'.stage # "draining" /\ disc.stage \notin {"none", "draining"}),
         job'[Catcher].list = job[Catcher].list \/ disc'.stage # "draining",
         \A m \in Text : stage'[m] = "sending" =>
           job'[m].list = bundles \/ (stage[m] = "sending" /\ job'[m].list = job[m].list)
  PROVE FreshInv'
BY DEF FreshInv, InFlight

\* No discovery has nothing to go by.
LEMMA FreshWithout ==
  ASSUME FreshInv, UNCHANGED <<bundles, overtaken, stage>>, disc' = NoDiscovery,
         \A m \in Text : job'[m].list = job[m].list
  PROVE FreshInv'
BY DEF FreshInv, InFlight, NoDiscovery

\* New bundles overtake whom they reach too late.
LEMMA FreshCache ==
  ASSUME TypeOK, FreshInv, NEW B, CacheBecomes(B), disc' = Outdated(B), job'[Catcher] = job[Catcher],
         \A m \in Text : stage'[m] = "sending" => job'[m].list = B \/ (stage[m] = "sending" /\ job'[m] = job[m])
  PROVE FreshInv'
<1>1. /\ disc'.stage = disc.stage /\ disc'.known = disc.known
      /\ disc'.outdated <=> disc.outdated \/ (InFlight /\ B # bundles)
  BY DEF Outdated, TypeOK, Discovery
<1>2. \A m \in Text : stage'[m] = "sending" /\ m \notin overtaken' => job'[m].list = bundles'
  BY DEF CacheBecomes, Sending, FreshInv
<1>3. InFlight' /\ ~disc'.outdated => bundles' = bundles /\ InFlight /\ ~disc.outdated
  BY <1>1 DEF CacheBecomes, InFlight
<1>4. QED
  BY <1>1, <1>2, <1>3 DEF FreshInv

\* A text that was not overtaken knew the cached devices.
LEMMA KnewAll ==
  ASSUME TypeOK, FreshInv, NEW m \in Text, stage[m] = "sending", m \notin overtaken
  PROVE job[m].list = bundles /\ bundles # NoEntry
<1>1. job[m].list \in SUBSET Bundle
  BY DEF TypeOK, Worker
<1>2. QED
  BY <1>1, NoneAssumption DEF FreshInv

\* Every step keeps the bundles in hand fresh.
LEMMA FreshStep == ASSUME TypeOK, LockInv, JobInv, FreshInv, [Next]_vars PROVE FreshInv'
<1> USE DEF backend, cache, discovery, fanout, olm, inbound, emitted, waited, used, history
<1>1. ASSUME UNCHANGED <<bundles, overtaken, disc, stage, job>> PROVE FreshInv'
  BY <1>1, FreshStays
<1>2. CASE \E d \in Device : Enroll(d) \/ Leave(d)
  BY <1>1, <1>2 DEF Enroll, Leave
<1>3. CASE \E r \in requests : Serve(r)
  BY <1>1, <1>3 DEF Serve
<1>4. CASE FloorPasses \/ CooldownEnds
  BY <1>1, <1>4 DEF FloorPasses, CooldownEnds
<1>5. ASSUME NEW m \in Text, ensurePeerBundles(m) PROVE FreshInv'
  <2>1. UNCHANGED <<bundles, overtaken, disc>> /\ m \in Worker /\ m # Catcher
    BY <1>5, NamesAssumption DEF ensurePeerBundles, Worker
  <2>2. \A w \in Worker \ {m} : job'[w] = job[w] /\ (w # Catcher => stage'[w] = stage[w])
    BY <1>5 DEF ensurePeerBundles, TypeOK, Worker
  <2>3. stage'[m] = "sending" => job'[m].list = bundles
    BY <1>5, <2>1 DEF ensurePeerBundles, Given, TypeOK
  <2>4. Catcher \in Worker \ {m} /\ \A x \in Text : x \in Worker /\ x # Catcher
    BY NamesAssumption DEF Worker
  <2>5. QED
    BY <2>1, <2>2, <2>3, <2>4, FreshStays
<1>6. ASSUME NEW m \in Text, FannedOut(m) PROVE FreshInv'
  <2>1. stage[m] = "sending" /\ stage'[m] # "sending" /\ UNCHANGED bundles
        /\ maybeKickOffDiscovery(m, Devices(job[m].list))
    BY <1>6, NamesAssumption DEF FannedOut, Busy, TypeOK
  <2>2. \A x \in Text \ {m} : stage'[x] = stage[x] /\ job'[x] = job[x]
    BY <1>6 DEF FannedOut, TypeOK, Worker
  <2>3. job'[Catcher] = job[Catcher]
    BY <1>6, NamesAssumption DEF FannedOut, TypeOK, Worker
  <2>4. CASE Join(m)
    <3>1. disc'.outdated = disc.outdated /\ disc'.known = disc.known /\ disc'.stage = disc.stage
          /\ overtaken \subseteq overtaken'
      BY <2>4 DEF Join, TypeOK, Discovery
    <3>2. QED
      BY <2>1, <2>2, <2>3, <3>1 DEF FreshInv, InFlight
  <2>5. CASE Discover(m, Devices(job[m].list))
    <3>1. /\ disc'.outdated = (m \in overtaken) /\ disc'.known = Devices(job[m].list) /\ disc'.stage = "listing"
          /\ overtaken' = overtaken
      BY <2>5 DEF Discover, NoDiscovery
    <3>2. QED
      BY <2>1, <2>2, <3>1, KnewAll DEF FreshInv
  <2>6. CASE RateLimited
    BY <2>1, <2>2, <2>3, <2>6, FreshStays DEF RateLimited
  <2>7. QED
    BY <2>1, <2>4, <2>5, <2>6 DEF maybeKickOffDiscovery
<1>7. CASE Claimed
  <2>1. PICK B \in SUBSET Bundle :
          /\ CacheBecomes(B) /\ disc' = Outdated(B)
          /\ stage' = [m \in Text |-> IF m \in Waiting THEN "sending" ELSE stage[m]]
          /\ job' = [w \in Worker |-> IF w \in Waiting THEN Given(B) ELSE job[w]]
    BY <1>7 DEF Claimed
  <2>2. job'[Catcher] = job[Catcher]
    BY <2>1, NamesAssumption DEF Waiting, Worker
  <2>3. \A m \in Text : stage'[m] = "sending" => job'[m].list = B \/ (stage[m] = "sending" /\ job'[m] = job[m])
    BY <2>1 DEF Given, Worker
  <2>4. QED
    BY <2>1, <2>2, <2>3, FreshCache
<1>8. CASE ClaimFails
  <2>1. UNCHANGED <<bundles, overtaken, disc, job>>
    BY <1>8 DEF ClaimFails
  <2>2. \A m \in Text : stage'[m] = "sending" => stage[m] = "sending"
    BY <1>8 DEF ClaimFails
  <2>3. QED
    BY <2>1, <2>2, FreshStays
<1>9. CASE \E w \in Worker : Enter(w)
  BY <1>1, <1>9 DEF Enter
<1>10. ASSUME NEW w \in Worker, NEW d \in Device, Encrypted(w, d) \/ EncryptFails(w, d) PROVE FreshInv'
  <2>1. UNCHANGED <<bundles, overtaken, disc>>
    BY <1>10 DEF Encrypted, EncryptFails
  <2>2. \A x \in Worker \ {w} : job'[x] = job[x] /\ (x # Catcher => stage'[x] = stage[x])
    BY <1>10 DEF Encrypted, EncryptFails, TypeOK, Worker
  <2>3. \/ stage' = stage /\ job' = [job EXCEPT ![w] = [job[w] EXCEPT !.done = @ \cup {d}]]
        \/ w # Catcher /\ stage' = [stage EXCEPT ![w] = "failed"]
    BY <1>10 DEF Encrypted, EncryptFails
  <2>4. \/ w # Catcher /\ stage'[w] # "sending"
        \/ stage' = stage /\ job'[w].list = job[w].list
    BY <2>3 DEF TypeOK, Worker
  <2>5. \A m \in Text : m \in Worker /\ m # Catcher
    BY NamesAssumption DEF Worker
  <2>6. Catcher \in Worker
    BY DEF Worker
  <2>7. QED
    BY <2>1, <2>2, <2>4, <2>5, <2>6, FreshStays
<1>11. CASE Listed
  <2>1. UNCHANGED <<bundles, overtaken, stage, job>> /\ disc'.outdated = disc.outdated /\ disc'.known = disc.known
        /\ disc.stage = "listing" /\ disc'.stage = "listed"
    BY <1>11 DEF Listed, TypeOK, Discovery
  <2>2. QED
    BY <2>1, FreshStays
<1>12. CASE CompareDevices
  <2>1. UNCHANGED <<bundles, overtaken, stage, job>> /\ disc.stage = "listed"
    BY <1>12 DEF CompareDevices
  <2>2. CASE disc' = NoDiscovery
    BY <2>1, <2>2, FreshWithout
  <2>3. CASE disc' = [disc EXCEPT !.stage = "claiming"]
    <3>1. disc'.outdated = disc.outdated /\ disc'.known = disc.known /\ disc'.stage = "claiming"
      BY <2>3 DEF TypeOK, Discovery
    <3>2. QED
      BY <2>1, <3>1, FreshStays
  <2>4. QED
    BY <1>12, <2>2, <2>3 DEF CompareDevices, DiscoveryEnds
<1>13. CASE Refreshed
  <2>1. PICK B \in SUBSET Bundle :
          /\ CacheBecomes(B) /\ stage' = stage
          /\ disc' = [disc EXCEPT !.stage = "draining", !.batch = disc.queue, !.queue = <<>>]
          /\ job' = [job EXCEPT ![Catcher] = Given({b \in B : b.dev \in NewDevices})]
    BY <1>13 DEF Refreshed
  <2>2. disc'.stage = "draining" /\ disc'.known = disc.known
    BY <2>1 DEF TypeOK, Discovery
  <2>3. job'[Catcher].list = {b \in B : b.dev \in NewDevices} /\ \A m \in Text : job'[m] = job[m]
    BY <2>1, NamesAssumption DEF Given, TypeOK, Worker
  <2>4. \A m \in Text : stage'[m] = "sending" /\ m \notin overtaken' => job'[m].list = bundles'
    BY <2>1, <2>3 DEF CacheBecomes, Sending, FreshInv
  <2>5. bundles' # NoEntry /\ job'[Catcher].list \subseteq bundles'
    BY <2>1, <2>3, NoneAssumption DEF CacheBecomes
  <2>6. Devices(job'[Catcher].list) \cap disc'.known = {}
    BY <2>2, <2>3 DEF Devices, NewDevices
  <2>7. QED
    BY <2>2, <2>4, <2>5, <2>6 DEF FreshInv
<1>14. CASE DiscoveryFails
  BY <1>14, FreshWithout DEF DiscoveryFails, DiscoveryEnds
<1>15. CASE CaughtUp
  <2>1. UNCHANGED <<bundles, overtaken, stage>>
    BY <1>15 DEF CaughtUp
  <2>2. CASE disc' = NoDiscovery /\ job' = [job EXCEPT ![Catcher] = NoJob]
    <3>1. \A m \in Text : job'[m] = job[m]
      BY <2>2, NamesAssumption DEF TypeOK, Worker
    <3>2. QED
      BY <2>1, <2>2, <3>1, FreshWithout
  <2>3. CASE /\ disc' = [disc EXCEPT !.batch = Tail(@)]
             /\ job' = [job EXCEPT ![Catcher] = [job[Catcher] EXCEPT !.done = {}]]
    <3>1. \A w \in Worker : job'[w].list = job[w].list
      BY <2>3 DEF TypeOK, Worker
    <3>2. disc'.outdated = disc.outdated /\ disc'.known = disc.known /\ disc'.stage = disc.stage
      BY <2>3 DEF TypeOK, Discovery
    <3>3. QED
      BY <2>1, <3>1, <3>2, FreshStays DEF Worker
  <2>4. QED
    BY <1>15, <2>2, <2>3 DEF CaughtUp, DiscoveryEnds
<1>16. CASE \E f \in Frame, d \in Device : Hear(f, d)
  BY <1>1, <1>16 DEF Hear
<1>17. ASSUME NEW f \in Frame, NEW d \in Device, HearBroken(f, d) PROVE FreshInv'
  BY <1>17, FreshCache DEF HearBroken
<1>18. CASE \E h \in handlers : Retry(h) \/ LookUp(h)
  BY <1>1, <1>18 DEF Retry, LookUp
<1>19. ASSUME NEW h \in handlers, Announced(h) PROVE FreshInv'
  <2>1. UNCHANGED <<stage, job>>
    BY <1>19 DEF Announced
  <2>2. CASE UNCHANGED <<bundles, overtaken, disc>>
    BY <1>1, <2>1, <2>2
  <2>3. ASSUME NEW B \in SUBSET Bundle, CacheBecomes(B), disc' = Outdated(B) PROVE FreshInv'
    BY <2>1, <2>3, FreshCache
  <2>4. QED
    BY <1>19, <2>2, <2>3 DEF Announced
<1>20. CASE UNCHANGED vars
  BY <1>1, <1>20 DEF vars
<1>21. QED
  BY <1>2, <1>3, <1>4, <1>5, <1>6, <1>7, <1>8, <1>9, <1>10, <1>11, <1>12, <1>13, <1>14, <1>15, <1>16,
     <1>17, <1>18, <1>19, <1>20 DEF Next

-----------------------------------------------------------------------------
\* What went out

\* The steps that neither hand anything on nor move the discovery's queue.
Aside ==
  /\ UNCHANGED <<out, twice, owed, joined>> /\ overtaken \subseteq overtaken'
  /\ disc'.queue = disc.queue /\ disc'.batch = disc.batch /\ disc'.known = disc.known
  /\ (disc'.stage = "draining" <=> disc.stage = "draining") /\ (disc'.stage = "none" <=> disc.stage = "none")
  /\ job'[Catcher] = job[Catcher]
  /\ \A m \in Text : Past(m) => Past(m)'

\* And those that do.
Moves ==
  \/ \E m \in Text : FannedOut(m)
  \/ \E d \in Device : Encrypted(Catcher, d) \/ EncryptFails(Catcher, d)
  \/ CompareDevices \/ Refreshed \/ DiscoveryFails \/ CaughtUp

\* An outdated discovery stands where it stood.
LEMMA OutdatedAside ==
  ASSUME TypeOK, NEW B, CacheBecomes(B), disc' = Outdated(B)
  PROVE /\ disc'.queue = disc.queue /\ disc'.batch = disc.batch /\ disc'.known = disc.known
        /\ disc'.stage = disc.stage /\ overtaken \subseteq overtaken'
BY DEF CacheBecomes, Outdated, TypeOK, Discovery

\* Every other step stays aside.
LEMMA AsideStep == ASSUME TypeOK, LockInv, [Next]_vars, ~Moves PROVE Aside
<1> USE DEF backend, cache, discovery, fanout, olm, inbound, emitted, waited, used, history
<1>1. ASSUME UNCHANGED <<out, twice, owed, joined, overtaken, disc, stage, job>> PROVE Aside
  BY <1>1 DEF Aside, Past
<1>2. CASE \E d \in Device : Enroll(d) \/ Leave(d)
  BY <1>1, <1>2 DEF Enroll, Leave
<1>3. CASE \E r \in requests : Serve(r)
  BY <1>1, <1>3 DEF Serve
<1>4. CASE FloorPasses \/ CooldownEnds
  BY <1>1, <1>4 DEF FloorPasses, CooldownEnds
<1>5. ASSUME NEW m \in Text, ensurePeerBundles(m) PROVE Aside
  <2>1. UNCHANGED <<out, twice, owed, joined, overtaken, disc>> /\ stage[m] = "new"
    BY <1>5 DEF ensurePeerBundles
  <2>2. job'[Catcher] = job[Catcher] /\ \A x \in Text \ {m} : stage'[x] = stage[x]
    BY <1>5, NamesAssumption DEF ensurePeerBundles, TypeOK, Worker
  <2>3. QED
    BY <2>1, <2>2 DEF Aside, Past
<1>6. CASE Claimed
  <2>1. PICK B \in SUBSET Bundle :
          /\ CacheBecomes(B) /\ disc' = Outdated(B)
          /\ stage' = [m \in Text |-> IF m \in Waiting THEN "sending" ELSE stage[m]]
          /\ job' = [w \in Worker |-> IF w \in Waiting THEN Given(B) ELSE job[w]]
          /\ UNCHANGED <<out, twice, owed, joined>>
    BY <1>6 DEF Claimed
  <2>2. job'[Catcher] = job[Catcher]
    BY <2>1, NamesAssumption DEF Waiting, Worker
  <2>3. \A m \in Text : Past(m) => Past(m)'
    BY <2>1 DEF Past, Waiting
  <2>4. QED
    BY <2>1, <2>2, <2>3, OutdatedAside DEF Aside
<1>7. CASE ClaimFails
  BY <1>7 DEF ClaimFails, Aside, Past, Waiting
<1>8. CASE \E w \in Worker : Enter(w)
  BY <1>1, <1>8 DEF Enter
<1>9. ASSUME NEW w \in Worker \ {Catcher}, NEW d \in Device, Encrypted(w, d) PROVE Aside
  <2>1. UNCHANGED <<out, twice, owed, joined, overtaken, disc, stage>>
    BY <1>9 DEF Encrypted
  <2>2. job'[Catcher] = job[Catcher]
    BY <1>9 DEF Encrypted, TypeOK, Worker
  <2>3. QED
    BY <2>1, <2>2 DEF Aside, Past
<1>10. ASSUME NEW w \in Worker \ {Catcher}, NEW d \in Device, EncryptFails(w, d) PROVE Aside
  <2>1. UNCHANGED <<out, twice, owed, joined, overtaken, disc>>
    BY <1>10 DEF EncryptFails
  <2>2. job'[Catcher] = job[Catcher] /\ stage' = [stage EXCEPT ![w] = "failed"] /\ w \in Text
    BY <1>10 DEF EncryptFails, TypeOK, Worker
  <2>3. stage[w] = "sending"
    BY <1>10, HolderWorks DEF EncryptFails, Encrypts, Holds, Busy
  <2>4. \A m \in Text : Past(m) => Past(m)'
    BY <2>2, <2>3 DEF TypeOK, Past
  <2>5. QED
    BY <2>1, <2>2, <2>4 DEF Aside
<1>11. CASE Listed
  BY <1>11 DEF Listed, Aside, Past, TypeOK, Discovery
<1>12. CASE \E f \in Frame, d \in Device : Hear(f, d)
  BY <1>1, <1>12 DEF Hear
<1>13. ASSUME NEW f \in Frame, NEW d \in Device, HearBroken(f, d) PROVE Aside
  BY <1>13, OutdatedAside DEF HearBroken, Aside, Past
<1>14. CASE \E h \in handlers : Retry(h) \/ LookUp(h)
  BY <1>1, <1>14 DEF Retry, LookUp
<1>15. ASSUME NEW h \in handlers, Announced(h) PROVE Aside
  <2>1. UNCHANGED <<out, twice, owed, joined, stage, job>>
    BY <1>15 DEF Announced
  <2>2. CASE UNCHANGED <<bundles, overtaken, disc>>
    BY <1>1, <2>1, <2>2
  <2>3. ASSUME NEW B \in SUBSET Bundle, CacheBecomes(B), disc' = Outdated(B) PROVE Aside
    BY <2>1, <2>3, OutdatedAside DEF Aside, Past
  <2>4. QED
    BY <1>15, <2>2, <2>3 DEF Announced
<1>16. CASE UNCHANGED vars
  BY <1>1, <1>16 DEF vars
<1>17. QED
  BY <1>2, <1>3, <1>4, <1>5, <1>6, <1>7, <1>8, <1>9, <1>10, <1>11, <1>12, <1>13, <1>14, <1>15, <1>16
     DEF Next, Moves

\* What the end of a fan-out hands on: the text was not past, and is now; it
\* went to the devices its bundles are for.
LEMMA FannedOutFacts ==
  ASSUME TypeOK, JobInv, TwiceInv, NEW m \in Text, FannedOut(m)
  PROVE /\ \A p \in out' : (p \in out /\ p[1] # m) \/ (p[1] = m /\ p[2] \in Devices(job[m].list))
        /\ \A d \in Devices(job[m].list) : <<m, d>> \in out'
        /\ out \subseteq out' /\ twice' = twice
        /\ Past(m)' /\ \A x \in Text : Past(x) => x # m /\ Past(x)'
        /\ \A i \in 1..Len(disc.queue) : disc.queue[i] # m
        /\ \A i \in 1..Len(disc.batch) : disc.batch[i] # m
        /\ stage[m] = "sending" /\ job'[Catcher] = job[Catcher]
<1>1. stage[m] = "sending" /\ job'[Catcher] = job[Catcher]
  BY NamesAssumption DEF FannedOut, Busy, TypeOK, Worker
<1>2. job[m].done = Devices(job[m].list)
  BY DEF FannedOut, Left, Devices, JobInv, Worker
<1>3. out' = out \cup ({m} \X job[m].done) /\ twice' = twice \cup (({m} \X job[m].done) \cap out)
  BY DEF FannedOut, Emit
<1>4. \A p \in out : p[1] # m
  BY <1>1 DEF TwiceInv, Past
<1>5. twice' = twice
  BY <1>3, <1>4
<1>6. stage' = [stage EXCEPT ![m] = IF job[m].list = {} THEN "refused" ELSE "sent"]
  BY DEF FannedOut
<1>7. Past(m)' /\ \A x \in Text : Past(x) => x # m /\ Past(x)'
  BY <1>1, <1>6 DEF Past, TypeOK
<1>8. /\ \A i \in 1..Len(disc.queue) : disc.queue[i] # m
      /\ \A i \in 1..Len(disc.batch) : disc.batch[i] # m
  BY <1>1 DEF TwiceInv, Past
<1>9. QED
  BY <1>1, <1>2, <1>3, <1>4, <1>5, <1>7, <1>8

\* A text that joins is behind those that joined before, if there is room.
LEMMA QueueFacts ==
  ASSUME TypeOK, NEW m \in Text
  PROVE /\ \A i \in 1..Len(Queue(m)) :
             \/ i \in 1..Len(disc.queue) /\ Queue(m)[i] = disc.queue[i]
             \/ i = Len(disc.queue) + 1 /\ Queue(m)[i] = m
        /\ \A i \in 1..Len(disc.queue) : i \in 1..Len(Queue(m)) /\ Queue(m)[i] = disc.queue[i]
        /\ Len(disc.queue) < Cap => Len(disc.queue) + 1 \in 1..Len(Queue(m)) /\ Queue(m)[Len(disc.queue) + 1] = m
<1>1. disc.queue \in Seq(Text) /\ Len(disc.queue) \in Nat
  BY DEF TypeOK, Discovery
<1>2. CASE Len(disc.queue) < Cap
  <2>1. Queue(m) = Append(disc.queue, m)
    BY <1>2 DEF Queue
  <2>2. /\ Len(Append(disc.queue, m)) = Len(disc.queue) + 1
        /\ Append(disc.queue, m)[Len(disc.queue) + 1] = m
        /\ \A i \in 1..Len(disc.queue) : Append(disc.queue, m)[i] = disc.queue[i]
    BY <1>1, AppendProperties
  <2>3. \A i \in 1..(Len(disc.queue) + 1) : i \in 1..Len(disc.queue) \/ i = Len(disc.queue) + 1
    BY <1>1
  <2>4. Len(disc.queue) + 1 \in 1..(Len(disc.queue) + 1) /\ \A i \in 1..Len(disc.queue) : i \in 1..(Len(disc.queue) + 1)
    BY <1>1
  <2>5. QED
    BY <2>1, <2>2, <2>3, <2>4
<1>3. CASE ~(Len(disc.queue) < Cap)
  BY <1>3 DEF Queue
<1>4. QED
  BY <1>2, <1>3

\* What a batch without its first text is.
LEMMA BatchFacts ==
  ASSUME TypeOK, disc.batch # <<>>
  PROVE /\ 1 \in 1..Len(disc.batch) /\ Head(disc.batch) = disc.batch[1] /\ Head(disc.batch) \in Text
        /\ Len(disc.batch) \in Nat
        /\ \A i \in 1..Len(Tail(disc.batch)) :
             i \in Int /\ i + 1 \in 1..Len(disc.batch) /\ i + 1 # 1 /\ Tail(disc.batch)[i] = disc.batch[i + 1]
        /\ \A i \in 1..Len(disc.batch) :
             i # 1 => i - 1 \in 1..Len(Tail(disc.batch)) /\ Tail(disc.batch)[i - 1] = disc.batch[i]
<1>1. disc.batch \in Seq(Text) /\ Len(disc.batch) \in Nat /\ 1 \in 1..Len(disc.batch)
      /\ Head(disc.batch) = disc.batch[1] /\ Head(disc.batch) \in Text
  BY DEF TypeOK, Discovery
<1>2. /\ Len(Tail(disc.batch)) = Len(disc.batch) - 1
      /\ \A i \in 1..Len(Tail(disc.batch)) : Tail(disc.batch)[i] = disc.batch[i + 1]
  BY <1>1, HeadTailProperties
<1>3. \A i \in 1..Len(Tail(disc.batch)) : i \in Int /\ i + 1 \in 1..Len(disc.batch) /\ i + 1 # 1
  BY <1>1, <1>2
<1>4. \A i \in 1..Len(disc.batch) : i # 1 => i - 1 \in 1..Len(Tail(disc.batch)) /\ (i - 1) + 1 = i
  BY <1>1, <1>2
<1>5. QED
  BY <1>1, <1>2, <1>3, <1>4

\* A text that joins a discovery went to every device the discovery knew, or
\* was overtaken.
LEMMA JoinKnows ==
  ASSUME TypeOK, FreshInv, NEW m \in Text, stage[m] = "sending", Join(m), m \notin overtaken'
  PROVE /\ disc.stage # "draining" => disc.known = Devices(job[m].list)
        /\ disc.stage = "draining" => job[Catcher].list \subseteq job[m].list
<1>1. InFlight /\ ~disc.outdated /\ m \notin overtaken
  BY DEF Join
<1>2. QED
  BY <1>1, KnewAll DEF FreshInv

\* Every step keeps what went out accounted for.
LEMMA TwiceStep == ASSUME TypeOK, LockInv, JobInv, FreshInv, TwiceInv, [Next]_vars PROVE TwiceInv'
<1> USE DEF backend, cache, discovery, fanout, olm, inbound, emitted, waited, used, history
<1>0. /\ \A p \in out : p[1] \in Text
      /\ \A i \in 1..Len(disc.queue) : disc.queue[i] \in Text
      /\ \A i \in 1..Len(disc.batch) : disc.batch[i] \in Text
  BY DEF TypeOK, Discovery
<1>1. CASE ~Moves
  <2>1. Aside
    BY <1>1, AsideStep
  <2>2. QED
    BY <1>0, <2>1 DEF Aside, TwiceInv, NotTwice, Distinct
<1>2. ASSUME NEW m \in Text, FannedOut(m) PROVE TwiceInv'
  <2>1. /\ \A p \in out' : (p \in out /\ p[1] # m) \/ (p[1] = m /\ p[2] \in Devices(job[m].list))
        /\ twice' = twice
        /\ Past(m)' /\ \A x \in Text : Past(x) => x # m /\ Past(x)'
        /\ \A i \in 1..Len(disc.queue) : disc.queue[i] # m
        /\ \A i \in 1..Len(disc.batch) : disc.batch[i] # m
        /\ stage[m] = "sending" /\ job'[Catcher] = job[Catcher]
    BY <1>2, FannedOutFacts
  <2>2. \A p \in out' : Past(p[1])'
    BY <1>0, <2>1 DEF TwiceInv
  <2>3. CASE Join(m)
    <3>1. /\ disc'.stage = disc.stage /\ disc'.known = disc.known /\ disc'.queue = Queue(m)
          /\ disc'.batch = disc.batch /\ overtaken \subseteq overtaken'
      BY <2>3 DEF Join, TypeOK, Discovery
    <3>2. ASSUME NEW i \in 1..Len(disc'.queue)
          PROVE \/ i \in 1..Len(disc.queue) /\ disc'.queue[i] = disc.queue[i]
                \/ i = Len(disc.queue) + 1 /\ disc'.queue[i] = m
      BY <3>1, QueueFacts
    <3>3. Distinct(disc'.queue)
      BY <2>1, <3>2 DEF TwiceInv, Distinct
    <3>4. \A i \in 1..Len(disc'.queue) : Past(disc.queue[i])'
      BY <1>0, <2>1, <3>2 DEF TwiceInv, Past
    <3>5. ASSUME NEW i \in 1..Len(disc'.queue), NEW p \in out', disc'.stage # "draining", p[1] = disc'.queue[i]
          PROVE p[1] \in overtaken' \/ p[2] \in disc'.known
      <4>1. CASE p[1] = m
        BY <2>1, <2>3, <3>1, <3>5, <4>1, JoinKnows
      <4>2. CASE p[1] # m
        BY <2>1, <3>1, <3>2, <3>5, <4>2 DEF TwiceInv
      <4>3. QED
        BY <4>1, <4>2
    <3>6. ASSUME NEW i \in 1..Len(disc'.batch), NEW p \in out', p[1] = disc'.batch[i]
          PROVE p[1] \in overtaken' \/ p[2] \in disc'.known \/ (i = 1 /\ p[2] \in job'[Catcher].done)
      BY <2>1, <3>1, <3>6 DEF TwiceInv
    <3>7. \A i \in 1..Len(disc'.batch) : Past(disc.batch[i])'
      BY <1>0, <2>1, <3>1 DEF TwiceInv, Past
    <3>8. NotTwice' /\ Distinct(disc'.batch)
      BY <2>1, <3>1 DEF TwiceInv, NotTwice
    <3>9. QED
      BY <2>2, <3>3, <3>4, <3>5, <3>6, <3>7, <3>8 DEF TwiceInv, Distinct
  <2>4. CASE Discover(m, Devices(job[m].list))
    <3>1. /\ disc'.stage = "listing" /\ disc'.known = Devices(job[m].list) /\ disc'.queue = <<m>>
          /\ disc'.batch = <<>> /\ overtaken' = overtaken
      BY <2>4 DEF Discover, NoDiscovery
    <3>2. \A i \in 1..Len(<<m>>) : i = 1 /\ <<m>>[i] = m
      OBVIOUS
    <3>3. 1..Len(<<>>) = {}
      OBVIOUS
    <3>4. /\ \A i \in 1..Len(disc'.queue) : disc'.queue[i] = m /\ i = 1
          /\ 1..Len(disc'.batch) = {}
      BY <3>1, <3>2, <3>3
    <3>5. \A i \in 1..Len(disc'.queue) : Past(disc.queue[i])'
      BY <2>1, <3>4 DEF Past
    <3>6. \A i \in 1..Len(disc'.queue), p \in out' :
            p[1] = disc'.queue[i] => p[2] \in disc'.known
      BY <2>1, <3>1, <3>4
    <3>7. QED
      BY <2>1, <2>2, <3>1, <3>4, <3>5, <3>6 DEF TwiceInv, NotTwice, Distinct
  <2>5. CASE RateLimited
    <3>1. disc' = disc /\ overtaken' = overtaken
      BY <2>5 DEF RateLimited
    <3>2. /\ \A i \in 1..Len(disc.queue) : stage'[disc.queue[i]] \in {"sent", "refused"}
          /\ \A i \in 1..Len(disc.batch) : stage'[disc.batch[i]] \in {"sent", "refused"}
      BY <1>0, <2>1 DEF TwiceInv, Past
    <3>3. QED
      BY <2>1, <2>2, <3>1, <3>2 DEF TwiceInv, NotTwice, Past
  <2>6. QED
    BY <1>2, <2>3, <2>4, <2>5 DEF FannedOut, maybeKickOffDiscovery
<1>3. ASSUME NEW d \in Device, Encrypted(Catcher, d) PROVE TwiceInv'
  <2> DEFINE h == Head(disc.batch)
  <2>1. disc.batch # <<>> /\ d \in Devices(Left(Catcher))
    BY <1>3, HolderWorks DEF Encrypted, Encrypts, Holds, Busy, Worker
  <2>2. disc.stage = "draining" /\ d \notin job[Catcher].done /\ d \notin disc.known
    BY <2>1 DEF JobInv, FreshInv, Left, Devices
  <2>3. 1 \in 1..Len(disc.batch) /\ h = disc.batch[1]
    BY <2>1, BatchFacts
  <2>4. /\ UNCHANGED <<disc, stage, overtaken>>
        /\ job' = [job EXCEPT ![Catcher] = [job[Catcher] EXCEPT !.done = @ \cup {d}]]
        /\ out' = out \cup ({h} \X {d}) /\ twice' = twice \cup (({h} \X {d}) \cap out)
    BY <1>3 DEF Encrypted, Emit
  <2>5. job'[Catcher].done = job[Catcher].done \cup {d}
    BY <2>4 DEF TypeOK, Worker
  <2> HIDE DEF h
  <2>6. \A p \in out' : p \in out \/ (p[1] = h /\ p[2] = d)
    BY <2>4
  <2>7. \A p \in twice' : p \in twice \/ (p \in out /\ p[1] = h /\ p[2] = d)
    BY <2>4
  <2>8. NotTwice'
    BY <2>2, <2>3, <2>4, <2>7 DEF TwiceInv, NotTwice
  <2>9. \A p \in out' : Past(p[1])'
    BY <2>3, <2>4, <2>6 DEF TwiceInv, Past
  <2>10. ASSUME NEW i \in 1..Len(disc.batch), NEW p \in out', p[1] = disc.batch[i]
         PROVE p[1] \in overtaken \/ p[2] \in disc.known \/ (i = 1 /\ p[2] \in job'[Catcher].done)
    <3>1. CASE p \in out
      BY <2>5, <2>10, <3>1 DEF TwiceInv
    <3>2. CASE p[1] = h /\ p[2] = d
      BY <2>3, <2>5, <2>10, <3>2 DEF TwiceInv, Distinct
    <3>3. QED
      BY <2>6, <3>1, <3>2
  <2>11. QED
    BY <2>2, <2>4, <2>8, <2>9, <2>10 DEF TwiceInv, Past
<1>4. ASSUME NEW d \in Device, EncryptFails(Catcher, d) PROVE TwiceInv'
  <2>1. /\ UNCHANGED <<disc, stage, overtaken, out, twice>>
        /\ job' = [job EXCEPT ![Catcher] = [job[Catcher] EXCEPT !.done = @ \cup {d}]]
    BY <1>4 DEF EncryptFails
  <2>2. job[Catcher].done \subseteq job'[Catcher].done
    BY <2>1 DEF TypeOK, Worker
  <2>3. QED
    BY <2>1, <2>2 DEF TwiceInv, NotTwice, Past
<1>5. ASSUME UNCHANGED <<out, twice, stage>>, overtaken' = overtaken, disc' = NoDiscovery PROVE TwiceInv'
  <2>1. disc'.queue = <<>> /\ disc'.batch = <<>> /\ 1..Len(<<>>) = {}
    BY <1>5 DEF NoDiscovery
  <2>2. QED
    BY <1>5, <2>1 DEF TwiceInv, NotTwice, Distinct, Past
<1>6. CASE CompareDevices
  <2>1. UNCHANGED <<out, twice, stage, overtaken, job>> /\ disc.stage = "listed"
    BY <1>6 DEF CompareDevices
  <2>2. CASE disc' = [disc EXCEPT !.stage = "claiming"]
    <3>1. /\ disc'.queue = disc.queue /\ disc'.batch = disc.batch /\ disc'.known = disc.known
      BY <2>2 DEF TypeOK, Discovery
    <3>2. QED
      BY <2>1, <3>1 DEF TwiceInv, NotTwice, Distinct, Past
  <2>3. QED
    BY <1>5, <1>6, <2>1, <2>2 DEF CompareDevices, DiscoveryEnds
<1>7. CASE Refreshed
  <2>1. UNCHANGED <<out, twice, stage>> /\ overtaken \subseteq overtaken'
        /\ disc' = [disc EXCEPT !.stage = "draining", !.batch = disc.queue, !.queue = <<>>]
    BY <1>7 DEF Refreshed, CacheBecomes
  <2>2. disc'.stage = "draining" /\ disc'.batch = disc.queue /\ disc'.queue = <<>> /\ disc'.known = disc.known
        /\ 1..Len(<<>>) = {}
    BY <2>1 DEF TypeOK, Discovery
  <2>3. disc.stage # "draining"
    BY <1>7 DEF Refreshed, Answered, Asked, JobInv
  <2>4. QED
    BY <2>1, <2>2, <2>3 DEF TwiceInv, NotTwice, Distinct, Past
<1>8. CASE DiscoveryFails
  BY <1>5, <1>8 DEF DiscoveryFails, DiscoveryEnds
<1>9. CASE CaughtUp
  <2>1. UNCHANGED <<out, twice, stage, overtaken>> /\ disc.batch # <<>>
    BY <1>9 DEF CaughtUp, Busy
  <2>2. CASE disc' = [disc EXCEPT !.batch = Tail(@)]
    <3>1. disc'.batch = Tail(disc.batch) /\ disc'.queue = disc.queue /\ disc'.known = disc.known
          /\ disc'.stage = disc.stage
      BY <2>2 DEF TypeOK, Discovery
    <3>2. \A i \in 1..Len(disc'.batch) :
            i \in Int /\ i + 1 \in 1..Len(disc.batch) /\ i + 1 # 1 /\ disc'.batch[i] = disc.batch[i + 1]
      BY <2>1, <3>1, BatchFacts
    <3>3. Distinct(disc'.batch)
      <4> SUFFICES ASSUME NEW i \in 1..Len(disc'.batch), NEW k \in 1..Len(disc'.batch), disc'.batch[i] = disc'.batch[k]
                   PROVE i = k
        BY DEF Distinct
      <4>1. i + 1 = k + 1
        BY <3>2 DEF TwiceInv, Distinct
      <4>2. QED
        BY <3>2, <4>1
    <3>4. \A i \in 1..Len(disc'.batch), p \in out :
            p[1] = disc'.batch[i] => p[1] \in overtaken \/ p[2] \in disc.known
      BY <3>2 DEF TwiceInv
    <3>5. \A i \in 1..Len(disc'.batch) : Past(disc'.batch[i])
      BY <3>2 DEF TwiceInv
    <3>6. QED
      BY <2>1, <3>1, <3>3, <3>4, <3>5 DEF TwiceInv, NotTwice, Distinct, Past
  <2>3. QED
    BY <1>5, <1>9, <2>1, <2>2 DEF CaughtUp, DiscoveryEnds
<1>10. QED
  BY <1>1, <1>2, <1>3, <1>4, <1>6, <1>7, <1>8, <1>9 DEF Moves

-----------------------------------------------------------------------------
\* What is owed

\* Nothing comes while no batch is worked off.
LEMMA NothingComes ==
  ASSUME JobInv, MissedInv, disc.stage # "draining"
  PROVE \A p \in owed \ out : p[1] \in overtaken
<1>1. disc.batch = <<>> /\ 1..Len(<<>>) = {}
  BY DEF JobInv
<1>2. QED
  BY <1>1 DEF MissedInv, Coming

\* A discovery that ends before it drains leaves nothing owed but what it
\* found covered.
LEMMA MissedEnds ==
  ASSUME TypeOK, JobInv, MissedInv, disc.stage # "draining", disc' = NoDiscovery, joined' = {},
         UNCHANGED <<out, overtaken>>,
         \A p \in owed' : p \in owed \/ p \in out \/ p[1] \in overtaken
  PROVE MissedInv'
<1>1. disc'.stage = "none" /\ disc'.batch = <<>>
  BY DEF NoDiscovery
<1>2. \A p \in owed' \ out' : p[1] \in overtaken'
  BY NothingComes
<1>3. QED
  BY <1>1, <1>2 DEF MissedInv, InFlight

\* The catch-up of a device.
LEMMA MissedCatch ==
  ASSUME TypeOK, LockInv, JobInv, MissedInv, NEW d \in Device, Encrypts(Catcher, d), UNCHANGED <<disc, joined, overtaken>>,
         job' = [job EXCEPT ![Catcher] = [job[Catcher] EXCEPT !.done = @ \cup {d}]],
         out \subseteq out', owed' \subseteq owed,
         <<Head(disc.batch), d>> \in owed' => <<Head(disc.batch), d>> \in out'
  PROVE MissedInv'
<1>1. disc.batch # <<>>
  BY HolderWorks DEF Encrypts, Holds, Busy, Worker
<1>2. disc.stage = "draining"
  BY <1>1 DEF JobInv
<1>3. job'[Catcher].list = job[Catcher].list /\ job'[Catcher].done = job[Catcher].done \cup {d}
  BY DEF TypeOK, Worker
<1>4. Head(disc.batch) = disc.batch[1]
  BY <1>1, BatchFacts
<1>5. ASSUME NEW p \in owed' \ out' PROVE p[1] \in overtaken' \/ Coming(p)'
  <2>1. p \in owed \ out /\ p = <<p[1], p[2]>>
    BY DEF TypeOK
  <2>2. CASE p[1] \in overtaken
    BY <2>2
  <2>3. CASE Coming(p)
    <3>1. PICK i \in 1..Len(disc.batch) :
            p[1] = disc.batch[i] /\ p[2] \in Devices(job[Catcher].list) /\ (i = 1 => p[2] \notin job[Catcher].done)
      BY <2>3 DEF Coming
    <3>2. i = 1 => p[2] # d
      BY <1>4, <1>5, <2>1, <3>1
    <3>3. QED
      BY <1>3, <3>1, <3>2 DEF Coming
  <2>4. QED
    BY <2>1, <2>2, <2>3 DEF MissedInv
<1>6. QED
  BY <1>1, <1>2, <1>5 DEF MissedInv, InFlight, JobInv, TypeOK, NoDiscovery

\* Every step keeps what is owed on its way.
LEMMA MissedStep == ASSUME TypeOK, LockInv, JobInv, FreshInv, TwiceInv, MissedInv, [Next]_vars PROVE MissedInv'
<1> USE DEF backend, cache, discovery, fanout, olm, inbound, emitted, waited, used, history
<1>1. CASE ~Moves
  <2>1. Aside
    BY <1>1, AsideStep
  <2>2. \A p \in owed : Coming(p) => Coming(p)'
    BY <2>1 DEF Aside, Coming
  <2>3. QED
    BY <2>1, <2>2 DEF Aside, MissedInv, InFlight
<1>2. ASSUME NEW m \in Text, FannedOut(m) PROVE MissedInv'
  <2>1. /\ \A d \in Devices(job[m].list) : <<m, d>> \in out'
        /\ out \subseteq out'
        /\ stage[m] = "sending" /\ job'[Catcher] = job[Catcher]
    BY <1>2, FannedOutFacts
  <2>2. CASE Join(m)
    <3>1. /\ disc'.stage = disc.stage /\ disc'.known = disc.known /\ disc'.queue = Queue(m)
          /\ disc'.batch = disc.batch /\ overtaken \subseteq overtaken' /\ InFlight
      BY <2>2 DEF Join, TypeOK, Discovery
    <3>2. ASSUME NEW x \in joined', disc.stage # "draining"
          PROVE /\ \E i \in 1..Len(Queue(m)) : Queue(m)[i] = x
                /\ x \in overtaken' \/ \A d \in disc.known : <<x, d>> \in out'
      <4>1. CASE x \in joined
        <5>1. PICK i \in 1..Len(disc.queue) : disc.queue[i] = x
          BY <3>2, <4>1 DEF MissedInv
        <5>2. i \in 1..Len(Queue(m)) /\ Queue(m)[i] = x
          BY <5>1, QueueFacts
        <5>3. QED
          BY <2>1, <3>1, <3>2, <4>1, <5>2 DEF MissedInv
      <4>2. CASE x \notin joined
        <5>1. x = m /\ Len(disc.queue) < Cap
          BY <2>2, <3>2, <4>2 DEF Join
        <5>2. \E i \in 1..Len(Queue(m)) : Queue(m)[i] = m
          BY <5>1, QueueFacts
        <5>3. QED
          BY <2>1, <2>2, <3>2, <5>1, <5>2, JoinKnows
      <4>3. QED
        BY <4>1, <4>2
    <3>3. ASSUME NEW p \in owed' \ out' PROVE p[1] \in overtaken' \/ Coming(p)'
      <4>1. CASE p \in owed
        <5>1. Coming(p) => Coming(p)'
          BY <2>1, <3>1 DEF Coming
        <5>2. QED
          BY <2>1, <3>1, <3>3, <4>1, <5>1 DEF MissedInv
      <4>2. CASE p \notin owed
        <5>1. disc.stage = "draining" /\ p \in {m} \X Devices(job[Catcher].list)
          BY <2>2, <3>3, <4>2 DEF Join, Covered
        <5>2. p = <<m, p[2]>> /\ p[1] = m /\ p[2] \in Devices(job[Catcher].list)
          BY <5>1
        <5>3. m \notin overtaken' => p[2] \in Devices(job[m].list)
          BY <2>1, <2>2, <5>1, <5>2, JoinKnows DEF Devices
        <5>4. QED
          BY <2>1, <3>3, <5>2, <5>3
      <4>3. QED
        BY <4>1, <4>2
    <3>4. QED
      BY <3>1, <3>2, <3>3 DEF MissedInv, InFlight
  <2>3. CASE Discover(m, Devices(job[m].list))
    <3>1. /\ disc'.stage = "listing" /\ disc'.known = Devices(job[m].list) /\ disc'.queue = <<m>>
          /\ overtaken' = overtaken /\ owed' = owed /\ joined' = {m}
      BY <2>3 DEF Discover, NoDiscovery
    <3>2. 1 \in 1..Len(<<m>>) /\ <<m>>[1] = m
      OBVIOUS
    <3>3. \A p \in owed' \ out' : p[1] \in overtaken'
      BY <2>1, <2>3, <3>1, NothingComes DEF Discover, InFlight
    <3>4. QED
      BY <2>1, <3>1, <3>2, <3>3 DEF MissedInv, InFlight
  <2>4. CASE RateLimited
    <3>1. disc' = disc /\ overtaken' = overtaken /\ owed' = owed /\ joined' = joined /\ ~InFlight
      BY <2>4 DEF RateLimited
    <3>2. \A p \in owed' \ out' : p[1] \in overtaken'
      BY <2>1, <3>1, NothingComes DEF InFlight
    <3>3. QED
      BY <3>1, <3>2 DEF MissedInv, InFlight
  <2>5. QED
    BY <1>2, <2>2, <2>3, <2>4 DEF FannedOut, maybeKickOffDiscovery
<1>3. ASSUME NEW d \in Device, Encrypted(Catcher, d) PROVE MissedInv'
  <2>1. /\ Encrypts(Catcher, d) /\ UNCHANGED <<disc, joined, owed, overtaken>>
        /\ job' = [job EXCEPT ![Catcher] = [job[Catcher] EXCEPT !.done = @ \cup {d}]]
        /\ out' = out \cup ({Head(disc.batch)} \X {d})
    BY <1>3 DEF Encrypted, Emit
  <2>2. out \subseteq out' /\ <<Head(disc.batch), d>> \in out'
    BY <2>1
  <2>3. QED
    BY <2>1, <2>2, MissedCatch
<1>4. ASSUME NEW d \in Device, EncryptFails(Catcher, d) PROVE MissedInv'
  <2>1. /\ Encrypts(Catcher, d) /\ UNCHANGED <<disc, joined, out, overtaken>>
        /\ job' = [job EXCEPT ![Catcher] = [job[Catcher] EXCEPT !.done = @ \cup {d}]]
        /\ owed' = owed \ {<<Head(disc.batch), d>>}
    BY <1>4 DEF EncryptFails
  <2>2. QED
    BY <2>1, MissedCatch
<1>5. CASE CompareDevices
  <2>1. UNCHANGED <<out, overtaken, job>> /\ disc.stage = "listed"
    BY <1>5 DEF CompareDevices
  <2>2. CASE NewDevices = {}
    <3>1. disc' = NoDiscovery /\ joined' = {} /\ owed' = owed \cup (joined \X disc.live)
      BY <1>5, <2>2 DEF CompareDevices, DiscoveryEnds
    <3>2. disc.live \subseteq disc.known
      BY <2>2 DEF NewDevices
    <3>3. ASSUME NEW p \in joined \X disc.live PROVE p \in out \/ p[1] \in overtaken
      <4>1. p = <<p[1], p[2]>> /\ p[1] \in joined /\ p[2] \in disc.known
        BY <3>2
      <4>2. QED
        BY <2>1, <4>1 DEF MissedInv
    <3>4. QED
      BY <2>1, <3>1, <3>3, MissedEnds
  <2>3. CASE NewDevices # {}
    <3>1. disc' = [disc EXCEPT !.stage = "claiming"] /\ UNCHANGED <<joined, owed>>
      BY <1>5, <2>3 DEF CompareDevices
    <3>2. disc'.stage = "claiming" /\ disc'.queue = disc.queue /\ disc'.known = disc.known /\ disc'.batch = disc.batch
      BY <3>1 DEF TypeOK, Discovery
    <3>3. \A p \in owed' \ out' : p[1] \in overtaken'
      BY <2>1, <3>1, NothingComes
    <3>4. QED
      BY <2>1, <3>1, <3>2, <3>3 DEF MissedInv, InFlight
  <2>4. QED
    BY <2>2, <2>3
<1>6. CASE Refreshed
  <2>1. PICK B \in SUBSET Bundle :
          /\ Answered(Finder, B) /\ CacheBecomes(B)
          /\ disc' = [disc EXCEPT !.stage = "draining", !.batch = disc.queue, !.queue = <<>>]
          /\ job' = [job EXCEPT ![Catcher] = Given({b \in B : b.dev \in NewDevices})]
          /\ owed' = owed \cup (joined \X (disc.live \cap Devices(B)))
          /\ UNCHANGED <<out, joined>>
    BY <1>6 DEF Refreshed
  <2>2. disc'.stage = "draining" /\ disc'.batch = disc.queue /\ overtaken \subseteq overtaken'
    BY <2>1 DEF CacheBecomes, TypeOK, Discovery
  <2>3. job'[Catcher].list = {b \in B : b.dev \in NewDevices} /\ job'[Catcher].done = {}
    BY <2>1 DEF Given, TypeOK, Worker
  <2>4. disc.stage # "draining"
    BY <2>1 DEF Answered, Asked, JobInv
  <2>5. ASSUME NEW p \in owed' \ out' PROVE p[1] \in overtaken' \/ Coming(p)'
    <3>1. CASE p \in owed
      BY <2>1, <2>2, <2>4, <2>5, <3>1, NothingComes
    <3>2. CASE p \notin owed
      <4>1. p \in joined \X (disc.live \cap Devices(B))
        BY <2>1, <2>5, <3>2
      <4>2. p = <<p[1], p[2]>> /\ p[1] \in joined /\ p[2] \in disc.live /\ p[2] \in Devices(B)
        BY <4>1
      <4>3. CASE p[2] \in disc.known
        BY <2>1, <2>2, <2>4, <2>5, <4>2, <4>3 DEF MissedInv
      <4>4. CASE p[2] \notin disc.known
        <5>1. p[2] \in Devices(job'[Catcher].list)
          BY <2>3, <4>2, <4>4 DEF Devices, NewDevices
        <5>2. PICK i \in 1..Len(disc.queue) : disc.queue[i] = p[1]
          BY <2>4, <4>2 DEF MissedInv
        <5>3. Coming(p)'
          BY <2>2, <2>3, <5>1, <5>2 DEF Coming
        <5>4. QED
          BY <5>3
      <4>5. QED
        BY <4>3, <4>4
    <3>3. QED
      BY <3>1, <3>2
  <2>6. QED
    BY <2>2, <2>5 DEF MissedInv, InFlight
<1>7. CASE DiscoveryFails
  <2>1. disc.stage # "draining" /\ disc' = NoDiscovery /\ joined' = {} /\ UNCHANGED <<out, owed, overtaken>>
    BY <1>7 DEF DiscoveryFails, DiscoveryEnds, Rejected, JobInv
  <2>2. QED
    BY <2>1, MissedEnds
<1>8. CASE CaughtUp
  <2>1. /\ UNCHANGED <<out, owed, overtaken>> /\ disc.batch # <<>>
        /\ Devices(job[Catcher].list) \subseteq job[Catcher].done
    BY <1>8 DEF CaughtUp, Busy, Left, Devices
  <2>2. disc.stage = "draining"
    BY <2>1 DEF JobInv
  <2>3. CASE Len(disc.batch) = 1
    <3>1. disc' = NoDiscovery /\ joined' = {}
      BY <1>8, <2>3 DEF CaughtUp, DiscoveryEnds
    <3>2. disc'.stage = "none" /\ disc'.batch = <<>>
      BY <3>1 DEF NoDiscovery
    <3>3. \A i \in 1..Len(disc.batch) : i = 1
      BY <2>3
    <3>4. \A p \in owed : ~Coming(p)
      BY <2>1, <3>3 DEF Coming
    <3>5. QED
      BY <2>1, <3>1, <3>2, <3>4 DEF MissedInv, InFlight
  <2>4. CASE Len(disc.batch) # 1
    <3>1. /\ disc' = [disc EXCEPT !.batch = Tail(@)] /\ joined' = joined
          /\ job' = [job EXCEPT ![Catcher] = [job[Catcher] EXCEPT !.done = {}]]
      BY <1>8, <2>4 DEF CaughtUp
    <3>2. disc'.batch = Tail(disc.batch) /\ disc'.stage = "draining"
      BY <2>2, <3>1 DEF TypeOK, Discovery
    <3>3. job'[Catcher].list = job[Catcher].list /\ job'[Catcher].done = {}
      BY <3>1 DEF TypeOK, Worker
    <3>4. ASSUME NEW p \in owed, Coming(p) PROVE Coming(p)'
      <4>1. PICK i \in 1..Len(disc.batch) :
              p[1] = disc.batch[i] /\ p[2] \in Devices(job[Catcher].list) /\ (i = 1 => p[2] \notin job[Catcher].done)
        BY <3>4 DEF Coming
      <4>2. i # 1
        BY <2>1, <4>1
      <4>3. i - 1 \in 1..Len(disc'.batch) /\ disc'.batch[i - 1] = p[1]
        BY <2>1, <3>2, <4>1, <4>2, BatchFacts
      <4>4. QED
        BY <3>3, <4>1, <4>3 DEF Coming
    <3>5. QED
      BY <2>1, <3>2, <3>4 DEF MissedInv, InFlight
  <2>5. QED
    BY <2>3, <2>4
<1>9. QED
  BY <1>1, <1>2, <1>3, <1>4, <1>5, <1>6, <1>7, <1>8 DEF Moves

-----------------------------------------------------------------------------
\* The theorems

\* The invariant holds at the start.
LEMMA SessionInit == Init => SessionInv
<1> SUFFICES ASSUME Init PROVE SessionInv
  OBVIOUS
<1>1. TypeOK
  <2>1. /\ job \in [Worker -> [list : SUBSET Bundle, done : SUBSET Device]]
        /\ locks \in [Device -> Seq(Worker)]
        /\ stage \in [Text -> {"new", "waiting", "sending", "sent", "refused", "failed"}]
        /\ saw \in [Worker -> {"nothing", "absent", "present"}]
    BY DEF Init, NoJob
  <2>2. keys \in 0..MaxClaims
    BY BoundsAssumption DEF Init
  <2>3. QED
    BY <2>1, <2>2, NoDiscoveryTypes DEF Init, TypeOK
<1>2. \A d \in Device : locks[d] = <<>> /\ 1..Len(locks[d]) = {}
  BY DEF Init
<1>3. \A w \in Worker : job[w] = NoJob /\ job[w].list = {} /\ job[w].done = {} /\ saw[w] = "nothing"
  BY DEF Init, NoJob
<1>4. /\ disc.stage = "none" /\ disc.queue = <<>> /\ disc.batch = <<>>
      /\ 1..Len(disc.queue) = {} /\ 1..Len(disc.batch) = {}
  BY DEF Init, NoDiscovery
<1>5. LockInv
  BY <1>2, <1>3 DEF LockInv, InLine
<1>6. JobInv
  BY <1>3, <1>4 DEF Init, JobInv, Asked, Devices
<1>7. KeyInv
  BY <1>3 DEF Init, KeyInv, Reachable, Cached
<1>8. SpentInv
  BY <1>3 DEF Init, SpentInv, KeySpentOnce
<1>9. FreshInv
  BY <1>4 DEF Init, FreshInv, InFlight
<1>10. TwiceInv
  BY <1>4 DEF Init, TwiceInv, Distinct, NotTwice
<1>11. MissedInv
  BY <1>4 DEF Init, MissedInv
<1>12. QED
  BY <1>1, <1>5, <1>6, <1>7, <1>8, <1>9, <1>10, <1>11 DEF SessionInv

\* And every step keeps it.
LEMMA SessionStep == SessionInv /\ [Next]_vars => SessionInv'
BY TypesStep, LocksStep, JobsStep, KeysStep, SpentStep, FreshStep, TwiceStep, MissedStep DEF SessionInv

\* So it always holds.
THEOREM SessionHolds == Spec => []SessionInv
BY SessionInit, SessionStep, PTL DEF Spec

\* The state is always well-typed.
THEOREM SessionTypes == Spec => []TypeOK
<1>1. SessionInv => TypeOK
  BY DEF SessionInv
<1>2. QED
  BY <1>1, SessionHolds, PTL

\* No one-time key starts two sessions: the keys of a claim are new until it
\* is delivered, a used one has its session, and who finds none at the head of
\* a device's line has an unused key, unless the device was forgotten while
\* somebody held its bundle.
THEOREM KeysAreSpentOnce == Spec => []KeySpentOnce
<1>1. SessionInv => KeySpentOnce
  BY DEF SessionInv, SpentInv
<1>2. QED
  BY <1>1, SessionHolds, PTL

\* A text goes to each device at most once, by its fan-out or by the catch-up:
\* the discovery knows the devices of the bundles its texts went by, unless the
\* bundles changed under them.
THEOREM NothingIsSentTwice == Spec => []NotTwice
<1>1. SessionInv => NotTwice
  BY DEF SessionInv, TwiceInv
<1>2. QED
  BY <1>1, SessionHolds, PTL

\* A discovery that is over left no text it took up behind: what a text is
\* owed was sent by its fan-out, or waits in the batch that is worked off,
\* unless the bundles changed under it.
THEOREM NobodyIsMissed == Spec => []NoneMissed
<1>1. SessionInv => NoneMissed
  <2>1. SUFFICES ASSUME SessionInv, ~InFlight PROVE \A p \in owed \ out : p[1] \in overtaken
    BY DEF NoneMissed
  <2>2. QED
    BY <2>1, NothingComes DEF SessionInv, InFlight
<1>2. QED
  BY <1>1, SessionHolds, PTL
-----------------------------------------------------------------------------
\* The inductive invariant of OlmStore

\* An object is used by the call that loaded it until it is stored, and holds a
\* session as long as anybody has it; a first message starts a session.
ObjectInv ==
  /\ \A p \in Proc : proc[p].obj # None => At(p, "using") /\ heap[proc[p].obj] # None
  /\ sessionCache # None => heap[sessionCache] # None
  /\ \A p \in Proc : At(p, "accounting") => p \in Prekey

\* The chains in use were started, and the keys they were started with are used
\* up, in memory as in the store.
Gone(c) == c \in Chain => KeyOf[c] \notin account \ {Fallback}

ChainInv ==
  /\ otk = account
  /\ \A o \in Object : heap[o] # None => heap[o].chain \in met /\ Gone(heap[o].chain)
  /\ stored # None => stored.chain \in met /\ Gone(stored.chain)
  /\ \A f \in Inbound : At(f, "accounting") => Gone(ChainOf[f])

\* While no two calls collided: who has no cached session is alone, and there is
\* none; the others share the cached object; the store follows it, and what it
\* will send next was not sent.
Alone == \A p \in Cold, q \in Active : p = q
Shared == \A p \in Active : proc[p].obj # None => proc[p].obj = sessionCache
Missing == \A p \in Cold : sessionCache = None /\ (At(p, "loading") \/ stored = None)
Ahead ==
  /\ \A u \in usedKeys : u[1] <= ratchets
  /\ stored # None => stored.ratchet <= ratchets /\ \A u \in usedKeys : u[1] = stored.ratchet => u[2] <= stored.sent

Orderly == Alone /\ Shared /\ Missing /\ StoredIsCurrent /\ Ahead /\ ~reused

RaceInv == ~raced => Orderly

\* A key of ours that is gone started a session, or is about to; and as long as
\* all that came belongs to one chain, its session is not dropped again.
SpentFor(c) ==
  \E d \in Chain : KeyOf[d] = KeyOf[c] /\ (d \in met \/ \E g \in Inbound : At(g, "accounting") /\ ChainOf[g] = d)
OnlyOf(c) == met = {c} /\ \A g \in Inbound : At(g, "idle") \/ ChainOf[g] = c

FailureInv ==
  crashes = 0 =>
    /\ \A c \in Chain : KeyOf[c] \in otk \cup {Fallback} \/ SpentFor(c)
    /\ ~raced => \A c \in met : OnlyOf(c) => stored # None

OlmInv == OlmTypeOK /\ ObjectInv /\ ChainInv /\ RaceInv /\ FailureInv

-----------------------------------------------------------------------------
\* Objects and types

LEMMA ProcIsFinite == IsFiniteSet(Proc) /\ Cardinality(Proc) \in Nat
BY OlmAssumption, FS_Union, FS_CardinalityType DEF Proc

LEMMA ObjectsAreNumbers == Object \subseteq Nat /\ None \notin Object
BY ProcIsFinite, OlmAssumption DEF Object

\* There is an object nobody refers to for a call that has none.
LEMMA FreshIsFree ==
  ASSUME OlmTypeOK, NEW p \in Proc, proc[p].obj = None
  PROVE  Fresh \in Object /\ Fresh \notin Referred /\ Fresh # None
<1> DEFINE others == {proc[q].obj : q \in Proc \ {p}}
           held == others \cup {sessionCache}
<1>1. IsFiniteSet(Proc \ {p}) /\ Cardinality(Proc \ {p}) = Cardinality(Proc) - 1
  BY ProcIsFinite, FS_RemoveElement
<1>2. IsFiniteSet(others) /\ Cardinality(others) <= Cardinality(Proc \ {p})
  <2> DEFINE m == [q \in Proc \ {p} |-> proc[q].obj]
  <2>1. m \in Surjection(Proc \ {p}, others)
    BY DEF Surjection
  <2> QED BY <1>1, <2>1, FS_Surjection
<1> HIDE DEF others
<1>3. IsFiniteSet(held) /\ Cardinality(held) <= Cardinality(others) + 1
  <2>1. Cardinality(others) \in Nat
    BY <1>2, FS_CardinalityType
  <2>2. IsFiniteSet(held)
        /\ Cardinality(held) = IF sessionCache \in others THEN Cardinality(others) ELSE Cardinality(others) + 1
    BY <1>2, FS_AddElement
  <2> QED BY <2>1, <2>2
<1>4. Cardinality(held) <= Cardinality(Proc)
  <2>1. Cardinality(Proc) \in Nat /\ Cardinality(others) \in Nat /\ Cardinality(held) \in Nat
    BY <1>2, <1>3, ProcIsFinite, FS_CardinalityType
  <2> QED BY <1>1, <1>2, <1>3, <2>1
<1>5. IsFiniteSet(Object) /\ Cardinality(Object) = Cardinality(Proc) + 1
  <2>1. Cardinality(Proc) + 1 \in Nat
    BY ProcIsFinite
  <2> QED BY <2>1, FS_Interval, ProcIsFinite DEF Object
<1>6. ~(Object \subseteq held)
  <2>1. Object \subseteq held => Cardinality(Object) <= Cardinality(held)
    BY <1>3, FS_Subset
  <2>2. Cardinality(Proc) \in Nat /\ Cardinality(held) \in Nat
    BY <1>3, ProcIsFinite, FS_CardinalityType
  <2> QED BY <1>4, <1>5, <2>1, <2>2
<1>7. Referred \subseteq held \cup {None}
  BY DEF Referred, others
<1>8. \E o \in Object : o \notin Referred
  BY <1>6, <1>7, ObjectsAreNumbers
<1>9. Fresh \in Object /\ Fresh \notin Referred
  BY <1>8 DEF Fresh
<1> QED BY <1>9, ObjectsAreNumbers

\* What a step leaves of the objects.
LEMMA HeapType ==
  ASSUME NEW h \in [Object -> Session \cup {None}], HeapIs(h)
  PROVE  heap' \in [Object -> Session \cup {None}]
BY DEF HeapIs

LEMMA KeepTypes ==
  ASSUME OlmTypeOK, NEW p \in Proc, NEW o \in Object, NEW s \in Session,
         NEW cached \in Object \cup {None}, Keep(p, o, s, cached)
  PROVE  /\ heap' \in [Object -> Session \cup {None}] /\ sessionCache' \in Object \cup {None}
         /\ stored' \in Session \cup {None}
         /\ proc' \in [Proc -> [at : Stage, obj : Object \cup {None}, again : BOOLEAN]]
<1>1. [heap EXCEPT ![o] = s] \in [Object -> Session \cup {None}]
  BY DEF OlmTypeOK
<1>2. heap' \in [Object -> Session \cup {None}]
  BY <1>1, HeapType DEF Keep
<1> QED BY <1>2 DEF Keep, OlmTypeOK, Rest, Stage, Working

\* The object of a call that uses one holds a session.
LEMMA InUse ==
  ASSUME OlmTypeOK, ObjectInv, NEW p \in Proc, proc[p].obj # None
  PROVE  proc[p].obj \in Object /\ heap[proc[p].obj] \in Session
BY DEF OlmTypeOK, ObjectInv

\* Where a call can be, and where it goes.
Place == [at : Stage, obj : Object \cup {None}, again : BOOLEAN]

LEMMA MovesInPlace ==
  ASSUME OlmTypeOK, NEW p \in Proc
  PROVE  /\ \A r \in Place : [proc EXCEPT ![p] = r] \in [Proc -> Place]
         /\ \A a \in Stage, o \in Object \cup {None} : [proc EXCEPT ![p].at = a, ![p].obj = o] \in [Proc -> Place]
         /\ \A a \in Stage : [proc EXCEPT ![p].at = a] \in [Proc -> Place]
<1>1. proc \in [Proc -> Place]
  BY DEF OlmTypeOK, Place
<1>2. \A a \in Stage, o \in Object \cup {None} : [proc[p] EXCEPT !.at = a, !.obj = o] \in Place
  BY <1>1 DEF Place
<1>3. \A a \in Stage : [proc[p] EXCEPT !.at = a] \in Place
  BY <1>1 DEF Place
<1>4. \A a \in Stage, o \in Object \cup {None} :
        [proc EXCEPT ![p].at = a, ![p].obj = o] = [proc EXCEPT ![p] = [proc[p] EXCEPT !.at = a, !.obj = o]]
  BY <1>1
<1> QED BY <1>1, <1>2, <1>3, <1>4

LEMMA PlaceWith ==
  ASSUME NEW r \in Place, NEW a, NEW o
  PROVE  /\ [r EXCEPT !.at = a, !.obj = o] = [at |-> a, obj |-> o, again |-> r.again]
         /\ [r EXCEPT !.at = a] = [at |-> a, obj |-> r.obj, again |-> r.again]
<1>1. r = [at |-> r.at, obj |-> r.obj, again |-> r.again]
  BY DEF Place
<1>2. \A x, y, z : [[at |-> x, obj |-> y, again |-> z] EXCEPT !.at = a] = [at |-> a, obj |-> y, again |-> z]
  OBVIOUS
<1>3. [r EXCEPT !.at = a] = [at |-> a, obj |-> r.obj, again |-> r.again]
  BY <1>1, <1>2
<1>4. [r EXCEPT !.at = a, !.obj = o] = [[r EXCEPT !.at = a] EXCEPT !.obj = o]
  OBVIOUS
<1>5. [[at |-> a, obj |-> r.obj, again |-> r.again] EXCEPT !.obj = o] = [at |-> a, obj |-> o, again |-> r.again]
  OBVIOUS
<1> QED BY <1>3, <1>4, <1>5

LEMMA MovesTo ==
  ASSUME OlmTypeOK, NEW p \in Proc, NEW a, NEW o
  PROVE  /\ [proc EXCEPT ![p].at = a, ![p].obj = o] = [proc EXCEPT ![p] = [at |-> a, obj |-> o, again |-> proc[p].again]]
         /\ [proc EXCEPT ![p].at = a] = [proc EXCEPT ![p] = [at |-> a, obj |-> proc[p].obj, again |-> proc[p].again]]
         /\ proc[p].again \in BOOLEAN
<1>1. proc \in [Proc -> Place] /\ proc[p] \in Place
  BY DEF OlmTypeOK, Place
<1>2. /\ [proc EXCEPT ![p].at = a, ![p].obj = o] = [proc EXCEPT ![p] = [proc[p] EXCEPT !.at = a, !.obj = o]]
      /\ [proc EXCEPT ![p].at = a] = [proc EXCEPT ![p] = [proc[p] EXCEPT !.at = a]]
  BY <1>1
<1>3. proc[p].again \in BOOLEAN
  BY <1>1 DEF Place
<1> QED BY <1>1, <1>2, <1>3, PlaceWith

LEMMA LoadsTo ==
  ASSUME OlmTypeOK, NEW p \in Proc, NEW a, proc' = [proc EXCEPT ![p].at = a, ![p].obj = sessionCache]
  PROVE  proc' = [proc EXCEPT ![p] = [at |-> a, obj |-> sessionCache, again |-> proc[p].again]]
<1>1. \A o : [proc EXCEPT ![p].at = a, ![p].obj = o] = [proc EXCEPT ![p] = [at |-> a, obj |-> o, again |-> proc[p].again]]
  BY MovesTo
<1> QED BY <1>1

LEMMA RestIsPlace == \A a \in Stage : [Rest EXCEPT !.at = a] \in Place /\ Rest \in Place
BY DEF Rest, Place, Stage, Working

\* An answer leaves a session that will send under a new key.
LEMMA AnsweredType ==
  ASSUME NEW s \in Session PROVE [s EXCEPT !.ratchet = 0, !.sent = 0] \in Session
<1>1. s.chain \in Chain \cup 1..MaxRatchet /\ 0 \in 0..MaxRatchet /\ 0 \in 0..MaxSent
  BY OlmAssumption DEF Session
<1> QED BY <1>1 DEF Session

\* What an encryption makes of the session.
RatchetTo(e, o, r, n, c) ==
  /\ Keep(e, o, [chain |-> c, ratchet |-> r, sent |-> n],
          IF proc[e].obj = None THEN o ELSE sessionCache)
  /\ proc[e].obj = None => o = Fresh /\ c = r /\ r = ratchets + 1 /\ n = 1
  /\ proc[e].obj # None => o = proc[e].obj /\ c = heap[o].chain /\ heap[o] \in Session
  /\ \/ r = ratchets + 1 /\ n = 1 /\ ratchets' = r /\ (proc[e].obj # None => heap[o].ratchet = 0)
     \/ proc[e].obj # None /\ r # 0 /\ r = heap[o].ratchet /\ n = heap[o].sent + 1 /\ ratchets' = ratchets
  /\ usedKeys' = usedKeys \cup {<<r, n>>}
  /\ reused' = (reused \/ <<r, n>> \in usedKeys)
  /\ met' = met \cup {c}

LEMMA RatchetFacts ==
  ASSUME OlmTypeOK, ObjectInv, NEW e \in Enc, Ratchet(e)
  PROVE  \E o \in Object, r \in 1..MaxRatchet, n \in 1..MaxSent, c \in Chain \cup 1..MaxRatchet : RatchetTo(e, o, r, n, c)
<1> DEFINE o == IF proc[e].obj = None THEN Fresh ELSE proc[e].obj
           new == proc[e].obj = None \/ heap[o].ratchet = 0
           r == IF new THEN ratchets + 1 ELSE heap[o].ratchet
           n == IF new THEN 1 ELSE heap[o].sent + 1
           c == IF proc[e].obj = None THEN r ELSE heap[o].chain
<1>1. e \in Proc
  BY DEF Proc
<1>2. o \in Object /\ (proc[e].obj # None => heap[o] \in Session)
  BY <1>1, FreshIsFree, InUse
<1>3. r <= MaxRatchet /\ n <= MaxSent
  BY DEF Ratchet
<1>4. r \in 1..MaxRatchet /\ n \in 1..MaxSent
  <2>1. CASE new
    BY <1>3, <2>1, OlmAssumption DEF OlmTypeOK
  <2>2. CASE ~new
    <3>1. heap[o].ratchet \in 0..MaxRatchet /\ heap[o].sent \in 0..MaxSent /\ heap[o].ratchet # 0
      BY <1>2, <2>2 DEF Session
    <3> QED BY <1>3, <2>2, <3>1, OlmAssumption
  <2> QED BY <2>1, <2>2
<1>5. c \in Chain \cup 1..MaxRatchet
  BY <1>2, <1>4 DEF Session
<1>6. /\ Keep(e, o, [chain |-> c, ratchet |-> r, sent |-> n], IF proc[e].obj = None THEN o ELSE sessionCache)
      /\ usedKeys' = usedKeys \cup {<<r, n>>}
      /\ reused' = (reused \/ <<r, n>> \in usedKeys)
      /\ met' = met \cup {c}
      /\ ratchets' = IF new THEN r ELSE ratchets
  BY DEF Ratchet
<1>7. \/ r = ratchets + 1 /\ n = 1 /\ ratchets' = r /\ (proc[e].obj # None => heap[o].ratchet = 0)
      \/ proc[e].obj # None /\ r # 0 /\ r = heap[o].ratchet /\ n = heap[o].sent + 1 /\ ratchets' = ratchets
  BY <1>6
<1>8. /\ proc[e].obj = None => o = Fresh /\ c = r /\ r = ratchets + 1 /\ n = 1
      /\ proc[e].obj # None => o = proc[e].obj /\ c = heap[o].chain
  OBVIOUS
<1> HIDE DEF o, r, n, c, new
<1>9. RatchetTo(e, o, r, n, c)
  BY <1>2, <1>6, <1>7, <1>8 DEF RatchetTo
<1> QED BY <1>2, <1>4, <1>5, <1>9

\* Every step keeps the types.
LEMMA OlmTypesStep == ASSUME OlmTypeOK, ObjectInv, [OlmNext]_olmVars PROVE OlmTypeOK'
<1> USE DEF ourKeys, sessions, olmHistory
<1> DEFINE Procs == [Proc -> Place]
           Heaps == [Object -> Session \cup {None}]
<1>1. heap \in Heaps /\ proc \in Procs
  BY DEF OlmTypeOK, Place
<1>2. ASSUME NEW p \in Proc, Loaded(p) PROVE OlmTypeOK'
  <2>1. CASE stored = None
    <3>1. heap' \in Heaps /\ proc' \in Procs
      BY <1>1, <1>2, <2>1, HeapType, MovesInPlace DEF Loaded, Stage, Working
    <3> QED BY <1>2, <2>1, <3>1 DEF Loaded, Watch, OlmTypeOK, Place
  <2>2. CASE stored # None
    <3>1. Fresh \in Object /\ Fresh # None
      BY <1>2, FreshIsFree, ObjectsAreNumbers DEF Loaded, ObjectInv, At
    <3>2. HeapIs([heap EXCEPT ![Fresh] = stored]) /\ proc' = [proc EXCEPT ![p].at = "using", ![p].obj = Fresh]
          /\ sessionCache' = Fresh
      BY <1>2, <2>2, <3>1 DEF Loaded
    <3>3. [heap EXCEPT ![Fresh] = stored] \in Heaps
      BY <1>1, <2>2 DEF OlmTypeOK
    <3>4. heap' \in Heaps
      BY <3>2, <3>3, HeapType
    <3>5. proc' \in Procs
      BY <3>1, <3>2, MovesInPlace DEF Stage, Working
    <3> QED BY <1>2, <3>1, <3>2, <3>4, <3>5 DEF Loaded, Watch, OlmTypeOK, Place
  <2> QED BY <2>1, <2>2
<1>3. ASSUME NEW e \in Enc, Ratchet(e) PROVE OlmTypeOK'
  <2>1. PICK o \in Object, r \in 1..MaxRatchet, n \in 1..MaxSent, c \in Chain \cup 1..MaxRatchet : RatchetTo(e, o, r, n, c)
    BY <1>3, RatchetFacts
  <2>2. [chain |-> c, ratchet |-> r, sent |-> n] \in Session /\ r \in 0..MaxRatchet
    BY OlmAssumption DEF Session
  <2>3. (IF proc[e].obj = None THEN o ELSE sessionCache) \in Object \cup {None} /\ e \in Proc
    BY DEF OlmTypeOK, Proc
  <2>4. heap' \in Heaps /\ proc' \in Procs /\ sessionCache' \in Object \cup {None} /\ stored' \in Session \cup {None}
    BY <2>1, <2>2, <2>3, KeepTypes DEF RatchetTo, Place
  <2>5. usedKeys' \subseteq (1..MaxRatchet) \X (1..MaxSent) /\ met' \subseteq Chain \cup 1..MaxRatchet /\ ratchets' \in 0..MaxRatchet
    BY <2>1, <2>2 DEF RatchetTo, OlmTypeOK
  <2>6. reused' \in BOOLEAN /\ raced' \in BOOLEAN /\ UNCHANGED <<otk, account, crashes>>
    BY <1>3 DEF Ratchet, Watch
  <2> QED BY <2>4, <2>5, <2>6 DEF OlmTypeOK, Place
<1>4. ASSUME NEW f \in Inbound, DecryptOk(f) PROVE OlmTypeOK'
  <2> DEFINE o == proc[f].obj
             s == IF ChainOf[f] \in Chain THEN heap[o] ELSE [heap[o] EXCEPT !.ratchet = 0, !.sent = 0]
  <2>1. f \in Proc /\ o \in Object /\ heap[o] \in Session /\ sessionCache \in Object \cup {None}
    BY <1>4, InUse DEF DecryptOk, Proc, OlmTypeOK
  <2>2. s \in Session
    <3>1. [heap[o] EXCEPT !.ratchet = 0, !.sent = 0] \in Session
      BY <2>1, AnsweredType
    <3> QED BY <2>1, <3>1
  <2>3. Keep(f, o, s, sessionCache)
    BY <1>4 DEF DecryptOk
  <2> HIDE DEF s, o
  <2>4. heap' \in Heaps /\ proc' \in Procs /\ sessionCache' \in Object \cup {None} /\ stored' \in Session \cup {None}
    BY <2>1, <2>2, <2>3, KeepTypes DEF Place
  <2> QED BY <1>4, <2>4 DEF DecryptOk, Watch, OlmTypeOK, Place
<1>5. ASSUME NEW f \in Inbound, Bootstrapped(f) PROVE OlmTypeOK'
  <2>1. f \in Proc /\ proc[f].obj = None /\ ChainOf[f] \in Chain
    BY <1>5, OlmAssumption DEF Bootstrapped, Proc, ObjectInv, At
  <2>2. Fresh \in Object
    BY <2>1, FreshIsFree
  <2>3. [chain |-> ChainOf[f], ratchet |-> 0, sent |-> 0] \in Session
    BY <2>1, OlmAssumption DEF Session
  <2>4. Keep(f, Fresh, [chain |-> ChainOf[f], ratchet |-> 0, sent |-> 0], Fresh)
    BY <1>5 DEF Bootstrapped
  <2>5. heap' \in Heaps /\ proc' \in Procs /\ sessionCache' \in Object \cup {None} /\ stored' \in Session \cup {None}
    BY <2>1, <2>2, <2>3, <2>4, KeepTypes DEF Place
  <2> QED BY <1>5, <2>1, <2>5 DEF Bootstrapped, Watch, OlmTypeOK, Place
<1>6. ASSUME NEW p \in Proc, Encrypt(p) \/ Arrive(p) \/ TryAgain(p) PROVE OlmTypeOK'
  <2>1. heap' \in Heaps
    BY <1>1, <1>6, HeapType DEF Encrypt, Arrive, TryAgain
  <2>2. proc' \in Procs
    <3>1. CASE Arrive(p)
      <4>1. [at |-> IF sessionCache # None THEN "using" ELSE "loading", obj |-> sessionCache, again |-> FALSE] \in Place
        BY DEF OlmTypeOK, Place, Stage, Working
      <4> QED BY <3>1, <4>1, MovesInPlace DEF Arrive
    <3>2. CASE Load(p)
      <4>1. (IF sessionCache # None THEN "using" ELSE "loading") \in Stage /\ sessionCache \in Object \cup {None}
        BY DEF OlmTypeOK, Stage, Working
      <4> QED BY <3>2, <4>1, MovesInPlace DEF Load
    <3> QED BY <1>6, <3>1, <3>2 DEF Encrypt, TryAgain
  <2> QED BY <1>6, <2>1, <2>2 DEF Encrypt, Arrive, TryAgain, Watch, OlmTypeOK, Place
<1>7. ASSUME NEW p \in Proc, EncryptReturns(p) \/ DecryptReturns(p) PROVE OlmTypeOK'
  <2>1. heap' \in Heaps
    BY <1>1, <1>7, HeapType DEF EncryptReturns, DecryptReturns
  <2>2. proc' \in Procs
    <3>1. Rest \in Place /\ [Rest EXCEPT !.at = "read"] \in Place
      BY RestIsPlace DEF Stage, Working
    <3> QED BY <1>7, <3>1, MovesInPlace DEF EncryptReturns, DecryptReturns
  <2> QED BY <1>7, <2>1, <2>2 DEF EncryptReturns, DecryptReturns, OlmTypeOK, Place
<1>8. ASSUME NEW f \in Inbound, Bootstrap(f) PROVE OlmTypeOK'
  <2>1. heap' \in Heaps
    BY <1>1, <1>8, HeapType DEF Bootstrap
  <2>2. proc' \in Procs
    BY <1>8, MovesInPlace DEF Bootstrap, Go, Stage, Working, Proc
  <2> QED BY <1>8, <2>1, <2>2 DEF Bootstrap, Watch, OlmTypeOK, Place
<1>9. ASSUME NEW f \in Inbound, DecryptFails(f) PROVE OlmTypeOK'
  <2>1. heap' \in Heaps
    BY <1>1, <1>9, HeapType DEF DecryptFails
  <2>2. proc' \in Procs
    <3>1. [Rest EXCEPT !.at = "failed"] \in Place /\ [at |-> "forgetting", obj |-> None, again |-> TRUE] \in Place
      BY RestIsPlace DEF Place, Stage, Working
    <3>2. f \in Proc
      BY DEF Proc
    <3> HIDE DEF Procs
    <3>3. proc' \in {[proc EXCEPT ![f] = [Rest EXCEPT !.at = "failed"]],
                     [proc EXCEPT ![f] = [at |-> "forgetting", obj |-> None, again |-> TRUE]]}
      BY <1>9 DEF DecryptFails
    <3>4. \A r \in Place : [proc EXCEPT ![f] = r] \in Procs
      BY <3>2, MovesInPlace DEF Procs
    <3> QED BY <3>1, <3>3, <3>4
  <2>3. sessionCache' \in Object \cup {None} /\ stored' \in Session \cup {None} /\ raced' \in BOOLEAN
    BY <1>9 DEF DecryptFails, WatchDrop, OlmTypeOK
  <2> QED BY <1>9, <2>1, <2>2, <2>3 DEF DecryptFails, OlmTypeOK, Place
<1>10. CASE ClearCaches
  <2>1. heap' \in Heaps
    BY <1>1, <1>10, HeapType DEF ClearCaches
  <2> QED BY <1>10, <2>1 DEF ClearCaches, WatchDrop, OlmTypeOK, Place
<1>11. CASE Crash
  <2>1. heap' \in Heaps
    BY <1>1, <1>11, HeapType DEF Crash
  <2>2. proc' \in Procs
    BY <1>1, <1>11, RestIsPlace DEF Crash, Stage, Working
  <2>3. crashes' \in 0..MaxCrashes
    BY <1>11, OlmAssumption DEF Crash, OlmTypeOK
  <2> QED BY <1>11, <2>1, <2>2, <2>3 DEF Crash, OlmTypeOK, Place
<1>12. CASE UNCHANGED olmVars
  BY <1>12 DEF olmVars, OlmTypeOK
<1> QED
  BY <1>2, <1>3, <1>4, <1>5, <1>6, <1>7, <1>8, <1>9, <1>10, <1>11, <1>12 DEF OlmNext, Step, Proc

-----------------------------------------------------------------------------
\* Objects

\* An object somebody has holds a session, and keeps what a step leaves there.
LEMMA HasSession ==
  ASSUME OlmTypeOK, ObjectInv, NEW o \in Referred, o # None
  PROVE  o \in Object /\ heap[o] \in Session
BY DEF OlmTypeOK, ObjectInv, Referred

LEMMA HeapAfter ==
  ASSUME NEW h, HeapIs(h), NEW o \in Object
  PROVE  /\ o \in Referred' => heap'[o] = h[o]
         /\ heap'[o] # None => heap'[o] = h[o]
BY DEF HeapIs

LEMMA ObjectsKept ==
  ASSUME OlmTypeOK, OlmTypeOK', ObjectInv, NEW h, HeapIs(h),
         \A o \in Object : heap[o] # None => h[o] # None,
         \A o \in Referred' : o \in Referred \/ o = None \/ h[o] # None
  PROVE  /\ \A p \in Proc : proc'[p].obj # None => heap'[proc'[p].obj] # None
         /\ sessionCache' # None => heap'[sessionCache'] # None
<1>1. ASSUME NEW o \in Referred', o # None PROVE heap'[o] # None
  <2>1. o \in Object
    BY <1>1 DEF OlmTypeOK, Referred
  <2>2. o \in Referred => heap[o] # None
    BY <1>1 DEF ObjectInv, Referred
  <2>3. h[o] # None
    BY <1>1, <2>1, <2>2
  <2> QED BY <1>1, <2>1, <2>3, HeapAfter
<1>2. sessionCache' \in Referred' /\ \A p \in Proc : proc'[p].obj \in Referred'
  BY DEF Referred
<1> QED BY <1>1, <1>2

\* What a call that is done with its session leaves behind.
LEMMA ObjectsStored ==
  ASSUME OlmTypeOK, OlmTypeOK', ObjectInv, NEW p \in Proc, NEW o \in Object, NEW s, s # None,
         NEW cached \in {o, sessionCache}, Keep(p, o, s, cached)
  PROVE  ObjectInv'
<1> DEFINE h == [heap EXCEPT ![o] = s]
<1>1. heap \in [Object -> Session \cup {None}] /\ proc \in [Proc -> Place]
  BY DEF OlmTypeOK, Place
<1>2. h[o] = s /\ \A q \in Object : heap[q] # None => h[q] # None
  BY <1>1
<1>3. proc'[p].at = "storing" /\ proc'[p].obj = None /\ \A q \in Proc : q # p => proc'[q] = proc[q]
  BY <1>1 DEF Keep, Rest
<1>4. HeapIs(h) /\ sessionCache' = cached
  BY DEF Keep
<1>5. \A q \in Referred' : q \in Referred \/ q = None \/ h[q] # None
  BY <1>2, <1>3, <1>4 DEF Referred
<1> HIDE DEF h
<1>6. /\ \A q \in Proc : proc'[q].obj # None => heap'[proc'[q].obj] # None
      /\ sessionCache' # None => heap'[sessionCache'] # None
  BY <1>2, <1>4, <1>5, ObjectsKept
<1> QED BY <1>3, <1>6 DEF ObjectInv, At

\* Every step keeps the objects.
LEMMA ObjectStep == ASSUME OlmTypeOK, OlmTypeOK', ObjectInv, [OlmNext]_olmVars PROVE ObjectInv'
<1> USE DEF sessions
<1>1. heap \in [Object -> Session \cup {None}] /\ proc \in [Proc -> Place] /\ None \notin Session
  BY SessionAssumption DEF OlmTypeOK, Place
<1>2. ASSUME NEW p \in Proc, Loaded(p) PROVE ObjectInv'
  <2> DEFINE h == IF stored = None THEN heap ELSE [heap EXCEPT ![Fresh] = stored]
  <2>1. proc[p].obj = None /\ proc[p].at = "loading"
    BY <1>2 DEF Loaded, ObjectInv, At
  <2>2. Fresh \in Object /\ Fresh \notin Referred /\ Fresh # None
    BY <2>1, FreshIsFree
  <2>3. HeapIs(h) /\ (stored # None => h[Fresh] # None) /\ \A q \in Object : heap[q] # None => h[q] # None
    BY <1>1, <1>2, <2>2 DEF Loaded
  <2>4. /\ proc'[p].at = "using" /\ proc'[p].obj = IF stored = None THEN None ELSE Fresh
        /\ \A q \in Proc : q # p => proc'[q] = proc[q]
        /\ sessionCache' = IF stored = None THEN sessionCache ELSE Fresh
    BY <1>1, <1>2, <2>2 DEF Loaded
  <2>5. \A q \in Referred' : q \in Referred \/ q = None \/ h[q] # None
    BY <2>3, <2>4 DEF Referred
  <2> HIDE DEF h
  <2>6. /\ \A q \in Proc : proc'[q].obj # None => heap'[proc'[q].obj] # None
        /\ sessionCache' # None => heap'[sessionCache'] # None
    BY <2>3, <2>5, ObjectsKept
  <2> QED BY <2>4, <2>6 DEF ObjectInv, At
<1>3. ASSUME NEW e \in Enc, Ratchet(e) PROVE ObjectInv'
  <2>1. PICK o \in Object, r \in 1..MaxRatchet, n \in 1..MaxSent, c \in Chain \cup 1..MaxRatchet : RatchetTo(e, o, r, n, c)
    BY <1>3, RatchetFacts
  <2>2. [chain |-> c, ratchet |-> r, sent |-> n] \in Session
    BY OlmAssumption DEF Session
  <2>3. (IF proc[e].obj = None THEN o ELSE sessionCache) \in {o, sessionCache} /\ e \in Proc
    BY DEF Proc
  <2>4. Keep(e, o, [chain |-> c, ratchet |-> r, sent |-> n], IF proc[e].obj = None THEN o ELSE sessionCache)
    BY <2>1 DEF RatchetTo
  <2> QED BY <2>2, <2>3, <2>4, ObjectsStored, SessionAssumption
<1>4. ASSUME NEW f \in Inbound, DecryptOk(f) PROVE ObjectInv'
  <2> DEFINE o == proc[f].obj
             s == IF ChainOf[f] \in Chain THEN heap[o] ELSE [heap[o] EXCEPT !.ratchet = 0, !.sent = 0]
  <2>1. f \in Proc /\ o \in Object /\ heap[o] \in Session
    BY <1>4, InUse DEF DecryptOk, Proc
  <2>2. s # None
    <3>1. [heap[o] EXCEPT !.ratchet = 0, !.sent = 0] \in Session
      BY <2>1, AnsweredType
    <3> QED BY <2>1, <3>1, SessionAssumption
  <2>3. Keep(f, o, s, sessionCache)
    BY <1>4 DEF DecryptOk
  <2> HIDE DEF s, o
  <2> QED BY <2>1, <2>2, <2>3, ObjectsStored
<1>5. ASSUME NEW f \in Inbound, Bootstrapped(f) PROVE ObjectInv'
  <2> DEFINE s == [chain |-> ChainOf[f], ratchet |-> 0, sent |-> 0]
  <2>1. f \in Proc /\ proc[f].obj = None /\ ChainOf[f] \in Chain
    BY <1>5, OlmAssumption DEF Bootstrapped, Proc, ObjectInv, At
  <2>2. Fresh \in Object
    BY <2>1, FreshIsFree
  <2>3. s # None
    BY <2>1, OlmAssumption, SessionAssumption DEF Session
  <2>4. Keep(f, Fresh, s, Fresh)
    BY <1>5 DEF Bootstrapped
  <2> HIDE DEF s
  <2> QED BY <2>1, <2>2, <2>3, <2>4, ObjectsStored
<1>6. ASSUME HeapIs(heap), sessionCache' \in {sessionCache, None},
             NEW p \in Proc, NEW a \in Stage, NEW o \in {sessionCache, None}, NEW b,
             proc' = [proc EXCEPT ![p] = [at |-> a, obj |-> o, again |-> b]],
             o # None => a = "using", a = "accounting" => p \in Prekey
      PROVE  ObjectInv'
  <2>1. /\ proc'[p].at = a /\ proc'[p].obj = o
        /\ \A q \in Proc : q # p => proc'[q] = proc[q]
    BY <1>1, <1>6
  <2>2. \A q \in Referred' : q \in Referred \/ q = None
    BY <1>6, <2>1 DEF Referred
  <2>3. /\ \A q \in Proc : proc'[q].obj # None => heap'[proc'[q].obj] # None
        /\ sessionCache' # None => heap'[sessionCache'] # None
    BY <1>6, <2>2, ObjectsKept
  <2> QED BY <1>6, <2>1, <2>3 DEF ObjectInv, At
<1>7. ASSUME NEW p \in Proc, Encrypt(p) \/ Arrive(p) \/ TryAgain(p) PROVE ObjectInv'
  <2> DEFINE a == IF sessionCache # None THEN "using" ELSE "loading"
  <2>1. a \in Stage
    BY DEF Stage, Working
  <2>2. \E b \in BOOLEAN : proc' = [proc EXCEPT ![p] = [at |-> a, obj |-> sessionCache, again |-> b]]
    <3>1. CASE Arrive(p)
      BY <3>1 DEF Arrive
    <3>2. CASE Load(p)
      <4>1. proc' = [proc EXCEPT ![p].at = a, ![p].obj = sessionCache]
        BY <3>2 DEF Load
      <4> HIDE DEF a
      <4>2. proc' = [proc EXCEPT ![p] = [at |-> a, obj |-> sessionCache, again |-> proc[p].again]]
        BY <4>1, LoadsTo
      <4>3. proc[p].again \in BOOLEAN
        BY MovesTo
      <4> QED BY <4>2, <4>3
    <3> QED BY <1>7, <3>1, <3>2 DEF Encrypt, TryAgain
  <2>3. HeapIs(heap) /\ sessionCache' = sessionCache
    BY <1>7 DEF Encrypt, Arrive, TryAgain
  <2>4. a = "accounting" => p \in Prekey
    OBVIOUS
  <2>5. sessionCache # None => a = "using"
    OBVIOUS
  <2> HIDE DEF a
  <2> QED BY <1>6, <2>1, <2>2, <2>3, <2>4, <2>5
<1>8. ASSUME NEW p \in Proc, EncryptReturns(p) \/ DecryptReturns(p) PROVE ObjectInv'
  <2>1. \E a \in {"idle", "read"} : proc' = [proc EXCEPT ![p] = [at |-> a, obj |-> None, again |-> FALSE]]
    BY <1>8 DEF EncryptReturns, DecryptReturns, Rest
  <2>2. HeapIs(heap) /\ sessionCache' = sessionCache
    BY <1>8 DEF EncryptReturns, DecryptReturns
  <2>3. "idle" \in Stage /\ "read" \in Stage
    BY DEF Stage
  <2> QED BY <1>6, <2>1, <2>2, <2>3
<1>9. ASSUME NEW f \in Inbound, Bootstrap(f) PROVE ObjectInv'
  <2>1. f \in Proc /\ proc[f].obj = None /\ f \in Prekey
    BY <1>9 DEF Bootstrap, Proc, Startable
  <2>2. proc' = [proc EXCEPT ![f] = [at |-> "accounting", obj |-> None, again |-> proc[f].again]]
    <3>1. proc' = [proc EXCEPT ![f].at = "accounting"]
      BY <1>9 DEF Bootstrap, Go
    <3> QED BY <2>1, <3>1, MovesTo
  <2>3. HeapIs(heap) /\ sessionCache' = sessionCache /\ "accounting" \in Stage
    BY <1>9 DEF Bootstrap, Stage, Working
  <2> QED BY <1>6, <2>1, <2>2, <2>3
<1>10. ASSUME NEW f \in Inbound, DecryptFails(f) PROVE ObjectInv'
  <2>1. \E a \in {"failed", "forgetting"}, b \in BOOLEAN : proc' = [proc EXCEPT ![f] = [at |-> a, obj |-> None, again |-> b]]
    <3>1. [Rest EXCEPT !.at = "failed"] = [at |-> "failed", obj |-> None, again |-> FALSE]
      <4>1. Rest \in Place
        BY RestIsPlace DEF Stage
      <4>2. [Rest EXCEPT !.at = "failed"] = [at |-> "failed", obj |-> Rest.obj, again |-> Rest.again]
        BY <4>1, PlaceWith
      <4> QED BY <4>2 DEF Rest
    <3>2. \/ proc' = [proc EXCEPT ![f] = [at |-> "failed", obj |-> None, again |-> FALSE]]
          \/ proc' = [proc EXCEPT ![f] = [at |-> "forgetting", obj |-> None, again |-> TRUE]]
      BY <1>10, <3>1 DEF DecryptFails
    <3> QED BY <3>2
  <2>2. HeapIs(heap) /\ sessionCache' \in {sessionCache, None} /\ f \in Proc
    BY <1>10 DEF DecryptFails, Proc
  <2>3. "failed" \in Stage /\ "forgetting" \in Stage
    BY DEF Stage, Working
  <2> QED BY <1>6, <2>1, <2>2, <2>3
<1>11. CASE ClearCaches
  <2>1. proc' = proc /\ HeapIs(heap) /\ sessionCache' = None
    BY <1>11 DEF ClearCaches
  <2>2. \A q \in Referred' : q \in Referred \/ q = None
    BY <2>1 DEF Referred
  <2>3. \A q \in Proc : proc'[q].obj # None => heap'[proc'[q].obj] # None
    BY <2>1, <2>2, ObjectsKept
  <2> QED BY <2>1, <2>3 DEF ObjectInv, At
<1>12. CASE Crash
  <2>1. HeapIs(heap) /\ sessionCache' = None
    BY <1>12 DEF Crash
  <2>2. \A q \in Proc : proc'[q].obj = None /\ proc'[q].at # "accounting"
    <3>1. ASSUME NEW q \in Proc PROVE proc'[q].obj = None /\ proc'[q].at # "accounting"
      <4>1. proc'[q] = IF q \in Active /\ q \in Inbound THEN [Rest EXCEPT !.at = "cut"]
                       ELSE IF q \in Enc THEN Rest ELSE proc[q]
        BY <1>12 DEF Crash
      <4>2. q \notin Active => proc[q].obj = None /\ proc[q].at # "accounting"
        BY DEF ObjectInv, At, Active, Working
      <4> QED BY <4>1, <4>2 DEF Rest, Proc
    <3> QED BY <3>1
  <2> QED BY <2>1, <2>2 DEF ObjectInv, At
<1>13. CASE UNCHANGED olmVars
  BY <1>13 DEF olmVars, ObjectInv, At
<1> QED
  BY <1>2, <1>3, <1>4, <1>5, <1>7, <1>8, <1>9, <1>10, <1>11, <1>12, <1>13 DEF OlmNext, Step, Proc

-----------------------------------------------------------------------------
\* Chains

\* A key that is gone is never back, and a chain that was started stays so.
LEMMA StaysGone ==
  ASSUME account' \subseteq account, NEW c, Gone(c) PROVE c \in Chain => KeyOf[c] \notin account' \ {Fallback}
BY DEF Gone

\* A step that stores a session of a chain that was started.
LEMMA ChainKept ==
  ASSUME OlmTypeOK, OlmTypeOK', ChainInv, NEW p \in Proc, NEW o \in Object, NEW s \in Session, NEW cached,
         Keep(p, o, s, cached), UNCHANGED ourKeys, met \subseteq met',
         s.chain \in met', Gone(s.chain)
  PROVE  ChainInv'
<1> DEFINE h == [heap EXCEPT ![o] = s]
<1>1. account' = account /\ otk' = otk /\ HeapIs(h) /\ stored' = s
  BY DEF Keep, ourKeys
<1>2. ASSUME NEW q \in Object, heap'[q] # None PROVE heap'[q].chain \in met' /\ (Gone(heap[q].chain))'
  <2>1. heap'[q] = h[q]
    BY <1>1, <1>2, HeapAfter
  <2>2. h[q] = IF q = o THEN s ELSE heap[q]
    BY DEF OlmTypeOK
  <2>3. q # o => heap[q].chain \in met /\ Gone(heap[q].chain)
    BY <1>2, <2>1, <2>2 DEF ChainInv
  <2>4. h[q].chain \in met' /\ Gone(h[q].chain)
    BY <2>2, <2>3
  <2> QED BY <1>1, <2>1, <2>4 DEF Gone
<1>3. \A f \in Inbound : At(f, "accounting")' => At(f, "accounting")
  <2>1. \A f \in Inbound : f \in Proc /\ (f # p => proc'[f] = proc[f])
    BY DEF Keep, Proc, OlmTypeOK
  <2>2. proc'[p].at = "storing"
    BY DEF Keep, Rest, OlmTypeOK
  <2> QED BY <2>1, <2>2 DEF At
<1>4. otk' = account'
  BY <1>1 DEF ChainInv
<1>5. stored'.chain \in met' /\ (Gone(stored.chain))'
  BY <1>1 DEF Gone
<1>6. \A f \in Inbound : At(f, "accounting")' => (Gone(ChainOf[f]))'
  BY <1>1, <1>3 DEF ChainInv, Gone
<1> QED BY <1>2, <1>4, <1>5, <1>6 DEF ChainInv

\* A step that starts no session.
LEMMA ChainQuiet ==
  ASSUME OlmTypeOK, OlmTypeOK', ChainInv, NEW h, HeapIs(h),
         \A o \in Object : h[o] # None => h[o] = heap[o] \/ (h[o] = stored /\ stored # None),
         stored' \in {stored, None}, account' \subseteq account, otk' = account', met' = met,
         \A f \in Inbound : At(f, "accounting")' => At(f, "accounting") \/ (Gone(ChainOf[f]))'
  PROVE  ChainInv'
<1>1. ASSUME NEW q \in Object, heap'[q] # None PROVE heap'[q].chain \in met' /\ (Gone(heap[q].chain))'
  <2>1. heap'[q] = h[q]
    BY <1>1, HeapAfter
  <2>2. h[q].chain \in met /\ Gone(h[q].chain)
    BY <1>1, <2>1 DEF ChainInv
  <2> QED BY <2>1, <2>2 DEF Gone
<1>2. stored' # None => stored'.chain \in met' /\ (Gone(stored.chain))'
  BY DEF ChainInv, Gone
<1>3. \A f \in Inbound : At(f, "accounting")' => (Gone(ChainOf[f]))'
  BY DEF ChainInv, Gone
<1> QED BY <1>1, <1>2, <1>3 DEF ChainInv

\* Every step keeps what is said of chains and keys.
LEMMA ChainStep == ASSUME OlmTypeOK, OlmTypeOK', ObjectInv, ChainInv, [OlmNext]_olmVars PROVE ChainInv'
<1> USE DEF sessions, ourKeys
<1>1. proc \in [Proc -> Place] /\ Inbound \subseteq Proc /\ otk = account
  BY DEF OlmTypeOK, Place, Proc, ChainInv
<1>2. ASSUME NEW p \in Proc, Loaded(p) PROVE ChainInv'
  <2> DEFINE h == IF stored = None THEN heap ELSE [heap EXCEPT ![Fresh] = stored]
  <2>1. proc[p].obj = None
    BY <1>2 DEF Loaded, ObjectInv, At
  <2>2. Fresh \in Object /\ Fresh # None
    BY <2>1, FreshIsFree
  <2>3. HeapIs(h)
    BY <1>2, <2>2 DEF Loaded
  <2>4. \A o \in Object : h[o] # None => h[o] = heap[o] \/ (h[o] = stored /\ stored # None)
    BY <2>2 DEF OlmTypeOK
  <2>5. \A f \in Inbound : At(f, "accounting")' => At(f, "accounting")
    BY <1>1, <1>2 DEF Loaded, At
  <2> HIDE DEF h
  <2> QED BY <1>1, <1>2, <2>3, <2>4, <2>5, ChainQuiet DEF Loaded
<1>3. ASSUME NEW e \in Enc, Ratchet(e) PROVE ChainInv'
  <2>1. PICK o \in Object, r \in 1..MaxRatchet, n \in 1..MaxSent, c \in Chain \cup 1..MaxRatchet : RatchetTo(e, o, r, n, c)
    BY <1>3, RatchetFacts
  <2> DEFINE s == [chain |-> c, ratchet |-> r, sent |-> n]
             cached == IF proc[e].obj = None THEN o ELSE sessionCache
  <2>2. s \in Session /\ s.chain = c
    BY OlmAssumption DEF Session
  <2>3. Keep(e, o, s, cached) /\ met' = met \cup {c} /\ e \in Proc
    BY <2>1 DEF RatchetTo, Proc
  <2>4. Gone(c)
    <3>1. CASE proc[e].obj = None
      BY <2>1, <3>1, OlmAssumption DEF RatchetTo, Gone
    <3>2. CASE proc[e].obj # None
      BY <2>1, <3>2, SessionAssumption DEF RatchetTo, ChainInv
    <3> QED BY <3>1, <3>2
  <2>5. UNCHANGED ourKeys
    BY <1>3 DEF Ratchet
  <2> HIDE DEF s, cached
  <2> QED BY <2>2, <2>3, <2>4, <2>5, ChainKept
<1>4. ASSUME NEW f \in Inbound, DecryptOk(f) PROVE ChainInv'
  <2> DEFINE o == proc[f].obj
             s == IF ChainOf[f] \in Chain THEN heap[o] ELSE [heap[o] EXCEPT !.ratchet = 0, !.sent = 0]
  <2>1. f \in Proc /\ o \in Object /\ heap[o] \in Session
    BY <1>4, InUse DEF DecryptOk, Proc
  <2>2. s \in Session /\ s.chain = heap[o].chain
    BY <2>1, AnsweredType DEF Session
  <2>3. Keep(f, o, s, sessionCache) /\ UNCHANGED ourKeys /\ met' = met
    BY <1>4 DEF DecryptOk
  <2>4. heap[o].chain \in met /\ Gone(heap[o].chain)
    BY <2>1, SessionAssumption DEF ChainInv
  <2> HIDE DEF s, o
  <2> QED BY <2>1, <2>2, <2>3, <2>4, ChainKept
<1>5. ASSUME NEW f \in Inbound, Bootstrapped(f) PROVE ChainInv'
  <2> DEFINE s == [chain |-> ChainOf[f], ratchet |-> 0, sent |-> 0]
  <2>1. f \in Proc /\ proc[f].obj = None /\ ChainOf[f] \in Chain /\ Gone(ChainOf[f])
    BY <1>5, OlmAssumption DEF Bootstrapped, Proc, ObjectInv, ChainInv, At
  <2>2. Fresh \in Object
    BY <2>1, FreshIsFree
  <2>3. s \in Session /\ s.chain = ChainOf[f]
    BY <2>1, OlmAssumption DEF Session
  <2>4. Keep(f, Fresh, s, Fresh) /\ UNCHANGED ourKeys /\ met' = met \cup {ChainOf[f]}
    BY <1>5 DEF Bootstrapped
  <2> HIDE DEF s
  <2> QED BY <2>1, <2>2, <2>3, <2>4, ChainKept
<1>6. ASSUME HeapIs(heap), stored' \in {stored, None}, account' = account, otk' \in {otk, account}, met' = met,
             \A f \in Inbound : At(f, "accounting")' => At(f, "accounting")
      PROVE  ChainInv'
  BY <1>1, <1>6, ChainQuiet
<1>7. ASSUME NEW p \in Proc, Encrypt(p) \/ Arrive(p) \/ TryAgain(p) \/ EncryptReturns(p) \/ DecryptReturns(p) PROVE ChainInv'
  <2>1. proc'[p].at # "accounting" /\ \A q \in Proc : q # p => proc'[q] = proc[q]
    BY <1>1, <1>7 DEF Encrypt, Arrive, TryAgain, Load, EncryptReturns, DecryptReturns, Rest, Place
  <2>2. HeapIs(heap) /\ UNCHANGED <<stored, account, otk, met>>
    BY <1>7 DEF Encrypt, Arrive, TryAgain, EncryptReturns, DecryptReturns, olmHistory
  <2> QED BY <1>1, <1>6, <2>1, <2>2 DEF At
<1>8. ASSUME NEW f \in Inbound, Bootstrap(f) PROVE ChainInv'
  <2>1. HeapIs(heap) /\ stored' = stored /\ met' = met /\ account' \subseteq account /\ otk' = account'
        /\ account' = otk \ ({KeyOf[ChainOf[f]]} \ {Fallback})
    BY <1>1, <1>8 DEF Bootstrap
  <2>2. (Gone(ChainOf[f]))'
    BY <2>1 DEF Gone
  <2>3. \A g \in Inbound : At(g, "accounting")' => At(g, "accounting") \/ g = f
    BY <1>1, <1>8 DEF Bootstrap, Go, At
  <2>4. \A g \in Inbound : At(g, "accounting")' => At(g, "accounting") \/ (Gone(ChainOf[g]))'
    BY <2>2, <2>3
  <2> QED BY <2>1, <2>4, ChainQuiet
<1>9. ASSUME NEW f \in Inbound, DecryptFails(f) PROVE ChainInv'
  <2>1. \A g \in Inbound : At(g, "accounting")' => At(g, "accounting")
    BY <1>1, <1>9 DEF DecryptFails, Rest, At
  <2> QED BY <1>6, <1>9, <2>1 DEF DecryptFails
<1>10. CASE ClearCaches
  BY <1>6, <1>10 DEF ClearCaches, At
<1>11. CASE Crash
  <2>1. \A g \in Inbound : At(g, "accounting")' => At(g, "accounting")
    BY <1>1, <1>11 DEF Crash, Rest, At
  <2> QED BY <1>6, <1>11, <2>1 DEF Crash, olmHistory
<1>12. CASE UNCHANGED olmVars
  BY <1>12 DEF olmVars, olmHistory, ChainInv, Gone, At
<1> QED
  BY <1>2, <1>3, <1>4, <1>5, <1>7, <1>8, <1>9, <1>10, <1>11, <1>12 DEF OlmNext, Step, Proc

-----------------------------------------------------------------------------
\* Races

\* Who has no cached session is at work.
LEMMA ColdIsActive == Cold \subseteq Active
BY DEF Cold

\* What `raced' has to say of a step that did not set it.
LEMMA NotRaced ==
  ASSUME OlmTypeOK', Watch, ~raced' PROVE ~raced /\ Alone'
<1>1. ~raced /\ (Cold' = {} \/ ~(Cardinality(Active') > 1))
  BY DEF Watch
<1>2. ASSUME ~(Cardinality(Active') > 1), NEW p \in Active', NEW q \in Active' PROVE p = q
  <2>1. SUFFICES ASSUME p # q PROVE FALSE
    OBVIOUS
  <2>2. IsFiniteSet(Active') /\ Cardinality(Active') \in Nat
    BY ProcIsFinite, FS_Subset, FS_CardinalityType DEF Active
  <2>3. {p, q} \subseteq Active'
    OBVIOUS
  <2>4. Cardinality({p, q}) <= Cardinality(Active')
    BY <2>2, <2>3, FS_Subset
  <2>5. Cardinality({p, q}) = 2
    <3>1. IsFiniteSet({p}) /\ Cardinality({p}) = 1
      BY FS_Singleton
    <3>2. Cardinality({p} \cup {q}) = 2
      BY <2>1, <3>1, FS_AddElement
    <3>3. {p} \cup {q} = {p, q}
      OBVIOUS
    <3> QED BY <3>2, <3>3
  <2> QED BY <1>2, <2>2, <2>4, <2>5
<1>3. Cold' \subseteq Active'
  BY ColdIsActive DEF Cold
<1> QED BY <1>1, <1>2, <1>3 DEF Alone

\* A step after which the sessions are as they were.
LEMMA OrderlyStays ==
  ASSUME OlmTypeOK, OlmTypeOK', ObjectInv, Orderly, ~raced, HeapIs(heap), UNCHANGED <<sessionCache, stored, usedKeys, reused, ratchets>>,
         Alone',
         \A p \in Active' : (p \in Active /\ proc'[p].obj = proc[p].obj) \/ proc'[p].obj \in {sessionCache, None},
         \A p \in Cold' : sessionCache = None /\ (At(p, "loading")' \/ stored = None)
  PROVE  Orderly'
<1>1. Shared'
  BY DEF Orderly, Shared
<1>2. Missing'
  BY DEF Missing
<1>3. StoredIsCurrent'
  <2>1. sessionCache # None => sessionCache \in Object /\ sessionCache \in Referred'
    BY DEF OlmTypeOK, Referred
  <2>2. sessionCache # None => heap'[sessionCache] = heap[sessionCache]
    BY <2>1, HeapAfter
  <2> QED BY <2>2 DEF Orderly, StoredIsCurrent
<1>4. Ahead' /\ ~reused'
  BY DEF Orderly, Ahead
<1> QED BY <1>1, <1>2, <1>3, <1>4 DEF Orderly

\* A step that stores a session, as a call with the cached object or alone.
LEMMA OrderlyStored ==
  ASSUME OlmTypeOK, OlmTypeOK', ObjectInv, Orderly, ~raced, NEW p \in Active, NEW o \in Object, NEW s \in Session, NEW cached,
         Keep(p, o, s, cached), cached = o,
         o = sessionCache \/ p \in Cold, p \in Cold => Active = {p},
         \A u \in usedKeys' : u[1] <= ratchets' /\ (u[1] = s.ratchet => u[2] <= s.sent),
         s.ratchet <= ratchets', ~reused', Alone'
  PROVE  Orderly'
<1> DEFINE h == [heap EXCEPT ![o] = s]
<1>1. proc \in [Proc -> Place] /\ p \in Proc /\ o # None
  BY ObjectsAreNumbers DEF OlmTypeOK, Place, Active
<1>2. /\ proc'[p].at = "storing" /\ proc'[p].obj = None /\ \A q \in Proc : q # p => proc'[q] = proc[q]
      /\ sessionCache' = o /\ stored' = s /\ HeapIs(h)
  BY <1>1 DEF Keep, Rest
<1>3. \A q \in Active' : q = p \/ (q \in Active /\ proc'[q] = proc[q])
  BY <1>2 DEF Active
<1>4. Shared'
  <2>1. \A q \in Active' : proc'[q].obj # None => q \in Active /\ q # p /\ proc'[q] = proc[q]
    BY <1>2, <1>3
  <2>2. o = sessionCache \/ Active = {p}
    OBVIOUS
  <2> QED BY <1>2, <2>1, <2>2 DEF Orderly, Shared
<1>5. Missing'
  <2>1. ASSUME NEW q \in Cold' PROVE FALSE
    <3>1. q # p /\ proc'[q] = proc[q] /\ q \in Active
      BY <1>2, <1>3, <2>1 DEF Cold, At
    <3>2. q \in Cold
      BY <2>1, <3>1 DEF Cold, At
    <3> QED BY <3>1, <3>2 DEF Orderly, Alone
  <2> QED BY <2>1 DEF Missing
<1>6. StoredIsCurrent'
  <2>1. o \in Referred'
    BY <1>2 DEF Referred
  <2>2. heap'[o] = h[o] /\ h[o] = s
    BY <1>2, <2>1, HeapAfter DEF OlmTypeOK
  <2> QED BY <1>2, <2>2 DEF StoredIsCurrent
<1>7. Ahead'
  BY <1>2 DEF Ahead
<1> QED BY <1>4, <1>5, <1>6, <1>7 DEF Orderly

\* Every step keeps what holds while no two calls collided.
LEMMA RaceStep == ASSUME OlmTypeOK, OlmTypeOK', ObjectInv, RaceInv, [OlmNext]_olmVars PROVE RaceInv'
<1> USE DEF sessions
<1> SUFFICES ASSUME ~raced' PROVE Orderly'
  BY DEF RaceInv
<1>1. proc \in [Proc -> Place] /\ None \notin Session /\ Enc \subseteq Proc /\ Inbound \subseteq Proc
  BY SessionAssumption DEF OlmTypeOK, Place, Proc
<1>2. ASSUME NEW p \in Proc, Loaded(p) PROVE Orderly'
  <2>1. Watch
    BY <1>2 DEF Loaded
  <2>2. ~raced /\ Alone' /\ Orderly
    BY <2>1, NotRaced DEF RaceInv
  <2>3. p \in Cold /\ p \in Active /\ proc[p].obj = None
    BY <1>2 DEF Loaded, Cold, Active, Working, ObjectInv, At
  <2>4. sessionCache = None /\ Active = {p}
    BY <2>2, <2>3 DEF Orderly, Missing, Alone
  <2>5. Fresh \in Object /\ Fresh # None
    BY <2>3, FreshIsFree
  <2>6. \A q \in Proc : q # p => proc'[q] = proc[q]
    BY <1>1, <1>2 DEF Loaded
  <2>7. CASE stored = None
    <3>1. proc'[p].at = "using" /\ proc'[p].obj = None /\ HeapIs(heap)
          /\ UNCHANGED <<sessionCache, stored, usedKeys, reused, ratchets>>
      BY <1>1, <1>2, <2>7 DEF Loaded
    <3>2. \A q \in Active' : (q \in Active /\ proc'[q].obj = proc[q].obj) \/ proc'[q].obj \in {sessionCache, None}
      BY <2>6, <3>1 DEF Active
    <3> QED BY <2>2, <2>4, <2>7, <3>1, <3>2, OrderlyStays
  <2>8. CASE stored # None
    <3> DEFINE h == [heap EXCEPT ![Fresh] = stored]
    <3>1. proc'[p].at = "using" /\ proc'[p].obj = Fresh /\ sessionCache' = Fresh /\ HeapIs(h)
          /\ UNCHANGED <<stored, usedKeys, reused, ratchets>>
      BY <1>1, <1>2, <2>5, <2>8 DEF Loaded
    <3>2. Active' \subseteq {p}
      BY <2>4, <2>6 DEF Active
    <3>3. Shared' /\ Missing'
      BY <2>5, <3>1, <3>2 DEF Shared, Missing, Cold, At
    <3>4. heap'[Fresh] = stored
      <4>1. Fresh \in Object
        BY <2>5
      <4>2. Fresh \in Referred'
        BY <3>1 DEF Referred
      <4>3. h[Fresh] = stored
        BY <2>5 DEF OlmTypeOK
      <4> HIDE DEF h
      <4>4. \A o \in Object : o \in Referred' => heap'[o] = h[o]
        BY <3>1, HeapAfter
      <4> QED BY <2>5, <3>1, <4>2, <4>3, <4>4
    <3>5. StoredIsCurrent'
      BY <3>1, <3>4 DEF StoredIsCurrent
    <3>6. Ahead' /\ ~reused'
      BY <2>2, <3>1 DEF Orderly, Ahead
    <3> QED BY <2>2, <3>3, <3>5, <3>6 DEF Orderly
  <2> QED BY <2>7, <2>8
<1>3. ASSUME NEW e \in Enc, Ratchet(e) PROVE Orderly'
  <2>1. PICK o \in Object, r \in 1..MaxRatchet, n \in 1..MaxSent, c \in Chain \cup 1..MaxRatchet : RatchetTo(e, o, r, n, c)
    BY <1>3, RatchetFacts
  <2> DEFINE s == [chain |-> c, ratchet |-> r, sent |-> n]
             cached == IF proc[e].obj = None THEN o ELSE sessionCache
  <2>2. Watch
    BY <1>3 DEF Ratchet
  <2>3. ~raced /\ Alone' /\ Orderly
    BY <2>2, NotRaced DEF RaceInv
  <2>4. e \in Proc /\ e \in Active /\ At(e, "using")
    BY <1>1, <1>3 DEF Ratchet, Active, At, Working
  <2>5. s \in Session /\ s.ratchet = r /\ s.sent = n
    BY OlmAssumption DEF Session
  <2>6. Keep(e, o, s, cached)
    BY <2>1 DEF RatchetTo
  <2>7. cached = o /\ (o = sessionCache \/ e \in Cold)
    BY <2>1, <2>3, <2>4 DEF RatchetTo, Orderly, Shared, Cold
  <2>8. e \in Cold => Active = {e}
    BY <2>3, <2>4 DEF Orderly, Alone
  <2>9. \/ r = ratchets + 1 /\ ratchets' = r
        \/ stored # None /\ r = stored.ratchet /\ n = stored.sent + 1 /\ ratchets' = ratchets
    <3>1. proc[e].obj # None => sessionCache # None /\ o = sessionCache
      BY <2>1, <2>3, <2>4 DEF RatchetTo, Orderly, Shared
    <3>2. proc[e].obj # None => stored = heap[o] /\ stored # None
      BY <1>1, <2>1, <2>3, <3>1 DEF RatchetTo, Orderly, StoredIsCurrent
    <3> QED BY <2>1, <3>2 DEF RatchetTo
  <2>10. usedKeys \subseteq (1..MaxRatchet) \X (1..MaxSent) /\ ratchets \in Nat /\ MaxRatchet \in Nat /\ MaxSent \in Nat
    BY OlmAssumption DEF OlmTypeOK
  <2>11. stored # None => stored.sent \in Nat /\ stored.ratchet \in Nat
    BY OlmAssumption DEF OlmTypeOK, Session
  <2>12. Ahead
    BY <2>3 DEF Orderly
  <2>13. <<r, n>>[1] = r /\ <<r, n>>[2] = n
    OBVIOUS
  <2>14. /\ r <= ratchets' /\ ratchets <= ratchets'
         /\ \A u \in usedKeys : u[1] <= ratchets' /\ (u[1] = r => u[2] < n)
    <3>1. \A u \in usedKeys : u[1] \in Nat /\ u[2] \in Nat
      BY <2>10
    <3>2. CASE r = ratchets + 1 /\ ratchets' = r
      BY <2>10, <2>12, <3>1, <3>2 DEF Ahead
    <3>3. CASE stored # None /\ r = stored.ratchet /\ n = stored.sent + 1 /\ ratchets' = ratchets
      BY <2>10, <2>11, <2>12, <3>1, <3>3 DEF Ahead
    <3> QED BY <2>9, <3>2, <3>3
  <2>15. usedKeys' = usedKeys \cup {<<r, n>>} /\ reused' = (reused \/ <<r, n>> \in usedKeys)
    BY <2>1 DEF RatchetTo
  <2>16. <<r, n>> \notin usedKeys
    BY <2>13, <2>14
  <2>17. \A u \in usedKeys' : u[1] <= ratchets' /\ (u[1] = s.ratchet => u[2] <= s.sent)
    <3>1. \A u \in usedKeys : u[2] \in Nat
      BY <2>10
    <3> HIDE DEF s
    <3> QED BY <2>5, <2>13, <2>14, <2>15, <3>1
  <2>18. ~reused'
    BY <2>3, <2>15, <2>16 DEF Orderly
  <2> HIDE DEF s, cached
  <2> QED BY <2>3, <2>4, <2>5, <2>6, <2>7, <2>8, <2>14, <2>17, <2>18, OrderlyStored
<1>4. ASSUME NEW p \in Active, NEW o \in Object, NEW s \in Session, NEW cached, Keep(p, o, s, cached), cached = o,
             o = sessionCache \/ p \in Cold, Watch, UNCHANGED <<ratchets, usedKeys, reused>>,
             s.ratchet = 0 \/ (s = stored /\ p \notin Cold)
      PROVE  Orderly'
  <2>1. ~raced /\ Alone' /\ Orderly
    BY <1>4, NotRaced DEF RaceInv
  <2>2. p \in Cold => Active = {p}
    BY <2>1 DEF Orderly, Alone
  <2>3. Ahead /\ ~reused
    BY <2>1 DEF Orderly
  <2>4. \A u \in usedKeys : u[1] \in Nat \ {0}
    BY DEF OlmTypeOK
  <2>5. ratchets \in Nat
    BY OlmAssumption DEF OlmTypeOK
  <2>6. s.ratchet <= ratchets' /\ \A u \in usedKeys' : u[1] <= ratchets' /\ (u[1] = s.ratchet => u[2] <= s.sent)
    BY <1>1, <1>4, <2>3, <2>4, <2>5 DEF Ahead
  <2> QED BY <1>4, <2>1, <2>2, <2>3, <2>6, OrderlyStored
<1>5. ASSUME NEW f \in Inbound, DecryptOk(f) PROVE Orderly'
  <2> DEFINE o == proc[f].obj
             s == IF ChainOf[f] \in Chain THEN heap[o] ELSE [heap[o] EXCEPT !.ratchet = 0, !.sent = 0]
  <2>1. f \in Proc /\ o \in Object /\ o # None /\ heap[o] \in Session /\ Keep(f, o, s, sessionCache)
    BY <1>1, <1>5, InUse DEF DecryptOk
  <2>2. f \in Active /\ f \notin Cold
    BY <1>5, <2>1 DEF DecryptOk, Active, Cold, At, Working
  <2>3. Watch /\ UNCHANGED <<ratchets, usedKeys, reused>>
    BY <1>5 DEF DecryptOk
  <2>4. Orderly
    BY <2>3, NotRaced DEF RaceInv
  <2>5. o = sessionCache /\ stored = heap[o]
    BY <2>1, <2>2, <2>4, <2>3, NotRaced DEF Orderly, Shared, StoredIsCurrent
  <2>6. s \in Session /\ (s.ratchet = 0 \/ s = stored)
    <3>1. heap[o] \in [chain : Chain \cup 1..MaxRatchet, ratchet : 0..MaxRatchet, sent : 0..MaxSent]
      BY <2>1 DEF Session
    <3>2. [heap[o] EXCEPT !.ratchet = 0, !.sent = 0].ratchet = 0
      BY <3>1
    <3> QED BY <2>1, <2>5, <3>2, AnsweredType
  <2> HIDE DEF s, o
  <2> QED BY <1>4, <2>1, <2>2, <2>3, <2>5, <2>6
<1>6. ASSUME NEW f \in Inbound, Bootstrapped(f) PROVE Orderly'
  <2> DEFINE s == [chain |-> ChainOf[f], ratchet |-> 0, sent |-> 0]
  <2>1. f \in Proc /\ proc[f].obj = None /\ ChainOf[f] \in Chain
    BY <1>6, OlmAssumption DEF Bootstrapped, Proc, ObjectInv, At
  <2>2. Fresh \in Object
    BY <2>1, FreshIsFree
  <2>3. s \in Session /\ s.ratchet = 0
    BY <2>1, OlmAssumption DEF Session
  <2>4. Keep(f, Fresh, s, Fresh) /\ Watch /\ UNCHANGED <<ratchets, usedKeys, reused>>
    BY <1>6 DEF Bootstrapped
  <2>5. f \in Active /\ f \in Cold
    BY <1>6, <2>1 DEF Bootstrapped, Active, Cold, At, Working
  <2> HIDE DEF s
  <2> QED BY <1>4, <2>2, <2>3, <2>4, <2>5
<1>7. ASSUME NEW p \in Proc, Encrypt(p) \/ Arrive(p) \/ TryAgain(p) PROVE Orderly'
  <2> DEFINE a == IF sessionCache # None THEN "using" ELSE "loading"
  <2>1. Watch /\ HeapIs(heap) /\ UNCHANGED <<sessionCache, stored, usedKeys, reused, ratchets>>
    BY <1>7 DEF Encrypt, Arrive, TryAgain
  <2>2. ~raced /\ Alone' /\ Orderly
    BY <2>1, NotRaced DEF RaceInv
  <2>3. \E b \in BOOLEAN : proc' = [proc EXCEPT ![p] = [at |-> a, obj |-> sessionCache, again |-> b]]
    <3>1. CASE Arrive(p)
      BY <3>1 DEF Arrive
    <3>2. CASE Load(p)
      <4>1. proc' = [proc EXCEPT ![p].at = a, ![p].obj = sessionCache]
        BY <3>2 DEF Load
      <4> HIDE DEF a
      <4>2. proc' = [proc EXCEPT ![p] = [at |-> a, obj |-> sessionCache, again |-> proc[p].again]]
        BY <4>1, LoadsTo
      <4>3. proc[p].again \in BOOLEAN
        BY MovesTo
      <4> QED BY <4>2, <4>3
    <3> QED BY <1>7, <3>1, <3>2 DEF Encrypt, TryAgain
  <2>4. proc'[p].at = a /\ proc'[p].obj = sessionCache /\ \A q \in Proc : q # p => proc'[q] = proc[q]
    BY <1>1, <2>3
  <2>5. \A q \in Active' : (q \in Active /\ proc'[q].obj = proc[q].obj) \/ proc'[q].obj \in {sessionCache, None}
    BY <2>4 DEF Active
  <2>6. \A q \in Cold' : sessionCache = None /\ (At(q, "loading")' \/ stored = None)
    <3>1. ASSUME NEW q \in Cold', q = p PROVE sessionCache = None /\ At(q, "loading")'
      BY <2>4, <3>1 DEF Cold, At
    <3>2. ASSUME NEW q \in Cold', q # p PROVE sessionCache = None /\ (At(q, "loading")' \/ stored = None)
      <4>1. q \in Cold /\ proc'[q] = proc[q]
        BY <2>4, <3>2 DEF Cold, Active, At
      <4> QED BY <2>2, <4>1 DEF Orderly, Missing, At
    <3> QED BY <3>1, <3>2
  <2> QED BY <2>1, <2>2, <2>5, <2>6, OrderlyStays
<1>8. ASSUME NEW f \in Inbound, Bootstrap(f) PROVE Orderly'
  <2>1. Watch /\ HeapIs(heap) /\ UNCHANGED <<sessionCache, stored, usedKeys, reused, ratchets>>
    BY <1>8 DEF Bootstrap
  <2>2. ~raced /\ Alone' /\ Orderly
    BY <2>1, NotRaced DEF RaceInv
  <2>3. f \in Cold /\ At(f, "using") /\ proc[f].obj = None
    BY <1>1, <1>8 DEF Bootstrap, Cold, Active, At, Working
  <2>4. sessionCache = None /\ stored = None
    BY <2>2, <2>3 DEF Orderly, Missing, At
  <2>5. proc'[f].obj = None /\ \A q \in Proc : q # f => proc'[q] = proc[q]
    <3>1. proc' = [proc EXCEPT ![f].at = "accounting"]
      BY <1>8 DEF Bootstrap, Go
    <3>2. proc' = [proc EXCEPT ![f] = [at |-> "accounting", obj |-> proc[f].obj, again |-> proc[f].again]]
      BY <1>1, <3>1, MovesTo
    <3> QED BY <1>1, <2>3, <3>2
  <2>6. \A q \in Active' : (q \in Active /\ proc'[q].obj = proc[q].obj) \/ proc'[q].obj \in {sessionCache, None}
    BY <2>5 DEF Active
  <2> QED BY <2>1, <2>2, <2>4, <2>6, OrderlyStays
<1>9. ASSUME HeapIs(heap), UNCHANGED <<sessionCache, stored, usedKeys, reused, ratchets, raced>>,
             \A q \in Active' : q \in Active /\ proc'[q] = proc[q]
      PROVE  Orderly'
  <2>1. ~raced /\ Orderly
    BY <1>9 DEF RaceInv
  <2>2. \A q \in Cold' : q \in Cold
    BY <1>9 DEF Cold, At
  <2>3. Alone'
    BY <1>9, <2>1, <2>2 DEF Orderly, Alone
  <2>4. \A q \in Cold' : sessionCache = None /\ (At(q, "loading")' \/ stored = None)
    BY <1>9, <2>1, <2>2 DEF Orderly, Missing, Cold, At
  <2> QED BY <1>9, <2>1, <2>3, <2>4, OrderlyStays
<1>10. ASSUME NEW p \in Proc, EncryptReturns(p) \/ DecryptReturns(p) PROVE Orderly'
  <2>1. proc'[p].at \notin Working /\ \A q \in Proc : q # p => proc'[q] = proc[q]
    BY <1>1, <1>10 DEF EncryptReturns, DecryptReturns, Rest, Working
  <2>2. \A q \in Active' : q \in Active /\ proc'[q] = proc[q]
    BY <2>1 DEF Active
  <2> QED BY <1>9, <1>10, <2>2 DEF EncryptReturns, DecryptReturns, olmHistory
<1>11. ASSUME NEW f \in Inbound, DecryptFails(f) PROVE Orderly'
  <2>1. HeapIs(heap) /\ UNCHANGED <<ratchets, usedKeys, reused>> /\ f \in Proc
    BY <1>1, <1>11 DEF DecryptFails
  <2>2. CASE proc[f].again
    <3>1. proc'[f].at \notin Working /\ \A q \in Proc : q # f => proc'[q] = proc[q]
      BY <1>1, <1>11, <2>1, <2>2 DEF DecryptFails, Rest, Working
    <3>2. \A q \in Active' : q \in Active /\ proc'[q] = proc[q]
      BY <3>1 DEF Active
    <3>3. UNCHANGED <<sessionCache, stored, raced>>
      BY <1>11, <2>2 DEF DecryptFails
    <3> QED BY <1>9, <2>1, <3>2, <3>3
  <2>3. CASE ~proc[f].again
    <3>1. proc'[f].at = "forgetting" /\ proc'[f].obj = None /\ \A q \in Proc : q # f => proc'[q] = proc[q]
      BY <1>1, <1>11, <2>1, <2>3 DEF DecryptFails
    <3>2. sessionCache' = None /\ stored' = None /\ WatchDrop(f)
      BY <1>11, <2>3 DEF DecryptFails
    <3>3. ~raced /\ Active \subseteq {f} /\ Orderly
      BY <3>2 DEF WatchDrop, RaceInv
    <3>4. Active' \subseteq {f} /\ Cold' = {}
      BY <3>1, <3>3 DEF Active, Cold, At
    <3>5. Alone' /\ Shared' /\ Missing' /\ StoredIsCurrent'
      BY <3>1, <3>2, <3>4 DEF Alone, Shared, Missing, StoredIsCurrent
    <3>6. Ahead' /\ ~reused'
      BY <2>1, <3>2, <3>3 DEF Orderly, Ahead
    <3> QED BY <3>5, <3>6 DEF Orderly
  <2> QED BY <2>2, <2>3
<1>12. ASSUME ~raced, Active' = {}, sessionCache' = None, UNCHANGED <<stored, usedKeys, reused, ratchets>> PROVE Orderly'
  <2>1. Orderly /\ Cold' = {}
    BY <1>12 DEF RaceInv, Cold
  <2>2. Alone' /\ Shared' /\ Missing' /\ StoredIsCurrent'
    BY <1>12, <2>1 DEF Alone, Shared, Missing, StoredIsCurrent
  <2>3. Ahead' /\ ~reused'
    BY <1>12, <2>1 DEF Orderly, Ahead
  <2> QED BY <2>2, <2>3 DEF Orderly
<1>13. CASE ClearCaches
  <2>1. ~raced /\ Active \ {None} = {}
    BY <1>13 DEF ClearCaches, WatchDrop
  <2>2. None \notin Proc
    BY OlmAssumption DEF Proc
  <2>3. Active' = {}
    BY <1>13, <2>1, <2>2 DEF ClearCaches, Active
  <2> QED BY <1>12, <1>13, <2>1, <2>3 DEF ClearCaches
<1>14. CASE Crash
  <2>1. ASSUME NEW p \in Proc PROVE proc'[p].at \notin Working
    <3>1. proc'[p] = IF p \in Active /\ p \in Inbound THEN [Rest EXCEPT !.at = "cut"]
                     ELSE IF p \in Enc THEN Rest ELSE proc[p]
      BY <1>14 DEF Crash
    <3>2. [Rest EXCEPT !.at = "cut"].at = "cut" /\ Rest.at = "idle"
      BY DEF Rest
    <3>3. p \in Inbound \/ p \in Enc
      BY DEF Proc
    <3> QED BY <3>1, <3>2, <3>3 DEF Active, Working
  <2>2. Active' = {}
    BY <2>1 DEF Active
  <2> QED BY <1>12, <1>14, <2>2 DEF Crash, olmHistory
<1>15. CASE UNCHANGED olmVars
  <2>1. Orderly
    BY <1>15 DEF RaceInv, olmVars, olmHistory
  <2> QED BY <1>15, <2>1 DEF Orderly, Alone, Shared, Missing, StoredIsCurrent, Ahead, Cold, Active, At, olmVars, olmHistory
<1> QED
  BY <1>1, <1>2, <1>3, <1>5, <1>6, <1>7, <1>8, <1>10, <1>11, <1>13, <1>14, <1>15 DEF OlmNext, Step

-----------------------------------------------------------------------------
\* Failures

\* A step that drops no session and uses no key up.
LEMMA FailureQuiet ==
  ASSUME OlmTypeOK, OlmTypeOK', FailureInv, UNCHANGED <<crashes, otk>>, met \subseteq met', raced => raced',
         \A g \in Inbound : At(g, "accounting") => At(g, "accounting")' \/ ChainOf[g] \in met',
         \A g \in Inbound : At(g, "idle")' => At(g, "idle"),
         stored' # None \/ UNCHANGED <<stored, met>>
  PROVE  FailureInv'
<1> SUFFICES ASSUME crashes = 0
             PROVE  /\ \A c \in Chain : KeyOf[c] \in otk' \cup {Fallback} \/ SpentFor(c)'
                    /\ ~raced' => \A c \in met' : OnlyOf(c)' => stored' # None
  BY DEF FailureInv
<1>1. ASSUME NEW c \in Chain, SpentFor(c) PROVE SpentFor(c)'
  <2>1. PICK d \in Chain : KeyOf[d] = KeyOf[c] /\ (d \in met \/ \E g \in Inbound : At(g, "accounting") /\ ChainOf[g] = d)
    BY <1>1 DEF SpentFor
  <2>2. d \in met' \/ \E g \in Inbound : At(g, "accounting")' /\ ChainOf[g] = d
    BY <2>1
  <2> QED BY <2>1, <2>2 DEF SpentFor
<1>2. ASSUME ~raced', NEW c \in met', OnlyOf(c)', stored' = None PROVE FALSE
  <2>1. c \in met /\ OnlyOf(c)
    BY <1>2 DEF OnlyOf
  <2> QED BY <1>2, <2>1 DEF FailureInv
<1> QED BY <1>1, <1>2 DEF FailureInv

\* Every step keeps what is said of failures.
LEMMA FailureStep ==
  ASSUME OlmTypeOK, OlmTypeOK', ObjectInv, ChainInv, RaceInv, FailureInv, [OlmNext]_olmVars PROVE FailureInv'
<1> USE DEF sessions, ourKeys
<1>1. proc \in [Proc -> Place] /\ Enc \subseteq Proc /\ Inbound \subseteq Proc /\ Enc \cap Inbound = {} /\ None \notin Session
  BY OlmAssumption, SessionAssumption DEF OlmTypeOK, Place, Proc
<1>3. ASSUME NEW p \in Proc, Loaded(p) PROVE FailureInv'
  <2>1. proc'[p].at = "using" /\ proc[p].at = "loading" /\ \A q \in Proc : q # p => proc'[q] = proc[q]
    BY <1>1, <1>3 DEF Loaded, At
  <2>2. \A g \in Inbound : (At(g, "idle")' => At(g, "idle")) /\ (At(g, "accounting") => At(g, "accounting")')
    BY <1>1, <2>1 DEF At
  <2>3. UNCHANGED <<crashes, otk, stored, met>> /\ (raced => raced')
    BY <1>3 DEF Loaded, Watch
  <2> QED BY <2>2, <2>3, FailureQuiet
<1>4. ASSUME NEW p \in Proc, NEW o, NEW s \in Session, NEW cached, Keep(p, o, s, cached), Watch,
             UNCHANGED <<crashes, otk>>, met \subseteq met',
             At(p, "accounting") => ChainOf[p] \in met'
      PROVE  FailureInv'
  <2>1. proc'[p].at = "storing" /\ stored' = s /\ \A q \in Proc : q # p => proc'[q] = proc[q]
    BY <1>1, <1>4 DEF Keep, Rest
  <2>2. \A g \in Inbound : /\ At(g, "idle")' => At(g, "idle")
                           /\ At(g, "accounting") => At(g, "accounting")' \/ ChainOf[g] \in met'
    BY <1>1, <1>4, <2>1 DEF At
  <2>3. stored' # None /\ (raced => raced')
    BY <1>1, <1>4, <2>1 DEF Watch
  <2> QED BY <1>4, <2>2, <2>3, FailureQuiet
<1>5. ASSUME NEW e \in Enc, Ratchet(e) PROVE FailureInv'
  <2>1. PICK o \in Object, r \in 1..MaxRatchet, n \in 1..MaxSent, c \in Chain \cup 1..MaxRatchet : RatchetTo(e, o, r, n, c)
    BY <1>5, RatchetFacts
  <2>2. [chain |-> c, ratchet |-> r, sent |-> n] \in Session
    BY OlmAssumption DEF Session
  <2>3. Keep(e, o, [chain |-> c, ratchet |-> r, sent |-> n], IF proc[e].obj = None THEN o ELSE sessionCache)
        /\ met \subseteq met'
    BY <2>1 DEF RatchetTo
  <2>4. Watch /\ UNCHANGED <<crashes, otk>> /\ ~At(e, "accounting")
    BY <1>5 DEF Ratchet, At
  <2> QED BY <1>1, <1>4, <2>2, <2>3, <2>4
<1>6. ASSUME NEW f \in Inbound, DecryptOk(f) PROVE FailureInv'
  <2> DEFINE o == proc[f].obj
             s == IF ChainOf[f] \in Chain THEN heap[o] ELSE [heap[o] EXCEPT !.ratchet = 0, !.sent = 0]
  <2>1. f \in Proc /\ heap[o] \in Session /\ Keep(f, o, s, sessionCache)
    BY <1>1, <1>6, InUse DEF DecryptOk
  <2>2. s \in Session
    BY <2>1, AnsweredType
  <2>3. Watch /\ UNCHANGED <<crashes, otk, met>> /\ ~At(f, "accounting")
    BY <1>6 DEF DecryptOk, At
  <2> HIDE DEF s, o
  <2> QED BY <1>4, <2>1, <2>2, <2>3
<1>7. ASSUME NEW f \in Inbound, Bootstrapped(f) PROVE FailureInv'
  <2> DEFINE s == [chain |-> ChainOf[f], ratchet |-> 0, sent |-> 0]
  <2>1. f \in Proc /\ ChainOf[f] \in Chain
    BY <1>1, <1>7, OlmAssumption DEF Bootstrapped, ObjectInv, At
  <2>2. s \in Session
    BY <2>1, OlmAssumption DEF Session
  <2>3. Keep(f, Fresh, s, Fresh) /\ Watch /\ UNCHANGED <<crashes, otk>> /\ met' = met \cup {ChainOf[f]}
    BY <1>7 DEF Bootstrapped
  <2> HIDE DEF s
  <2> QED BY <1>4, <2>1, <2>2, <2>3
<1>8. ASSUME NEW p \in Proc, Encrypt(p) \/ Arrive(p) \/ TryAgain(p) PROVE FailureInv'
  <2>1. proc'[p].at \in {"using", "loading"} /\ proc[p].at # "accounting" /\ \A q \in Proc : q # p => proc'[q] = proc[q]
    <3>1. CASE Arrive(p)
      BY <1>1, <3>1 DEF Arrive, At
    <3>2. CASE Encrypt(p) \/ TryAgain(p)
      <4> DEFINE a == IF sessionCache # None THEN "using" ELSE "loading"
      <4>1. proc' = [proc EXCEPT ![p].at = a, ![p].obj = sessionCache] /\ proc[p].at # "accounting"
        BY <3>2 DEF Encrypt, TryAgain, Load, At
      <4>2. a \in {"using", "loading"}
        OBVIOUS
      <4> HIDE DEF a
      <4>3. proc' = [proc EXCEPT ![p] = [at |-> a, obj |-> sessionCache, again |-> proc[p].again]]
        BY <4>1, LoadsTo
      <4> QED BY <1>1, <4>1, <4>2, <4>3
    <3> QED BY <1>8, <3>1, <3>2
  <2>2. \A g \in Inbound : (At(g, "idle")' => At(g, "idle")) /\ (At(g, "accounting") => At(g, "accounting")')
    BY <1>1, <2>1 DEF At
  <2>3. UNCHANGED <<crashes, otk, stored, met>> /\ (raced => raced')
    BY <1>8 DEF Encrypt, Arrive, TryAgain, Watch
  <2> QED BY <2>2, <2>3, FailureQuiet
<1>9. ASSUME NEW p \in Proc, (p \in Enc /\ EncryptReturns(p)) \/ (p \in Inbound /\ DecryptReturns(p)) PROVE FailureInv'
  <2>1. (p \in Enc \/ proc'[p].at = "read") /\ proc[p].at = "storing" /\ \A q \in Proc : q # p => proc'[q] = proc[q]
    BY <1>1, <1>9 DEF EncryptReturns, DecryptReturns, Rest, At
  <2>2. \A g \in Inbound : (At(g, "idle")' => At(g, "idle")) /\ (At(g, "accounting") => At(g, "accounting")')
    BY <1>1, <2>1 DEF At
  <2>3. UNCHANGED <<crashes, otk, stored, met, raced>>
    BY <1>9 DEF EncryptReturns, DecryptReturns, olmHistory
  <2> QED BY <2>2, <2>3, FailureQuiet
<1>10. ASSUME NEW f \in Inbound, Bootstrap(f) PROVE FailureInv'
  <2>1. proc'[f].at = "accounting" /\ f \in Prekey /\ f \in Proc /\ \A q \in Proc : q # f => proc'[q] = proc[q]
    BY <1>1, <1>10 DEF Bootstrap, Startable, Go
  <2>2. UNCHANGED <<crashes, stored, met>> /\ (raced => raced') /\ otk' = otk \ ({KeyOf[ChainOf[f]]} \ {Fallback})
    BY <1>10 DEF Bootstrap, Watch
  <2>3. \A g \in Inbound : (At(g, "idle")' => At(g, "idle")) /\ (At(g, "accounting") => At(g, "accounting")')
    BY <1>1, <2>1 DEF At
  <2>4. ASSUME NEW c \in Chain, SpentFor(c) PROVE SpentFor(c)'
    <3>1. PICK d \in Chain : KeyOf[d] = KeyOf[c] /\ (d \in met \/ \E g \in Inbound : At(g, "accounting") /\ ChainOf[g] = d)
      BY <2>4 DEF SpentFor
    <3>2. d \in met' \/ \E g \in Inbound : At(g, "accounting")' /\ ChainOf[g] = d
      BY <2>2, <2>3, <3>1
    <3> QED BY <3>1, <3>2 DEF SpentFor
  <2>5. ASSUME NEW c \in Chain, KeyOf[c] = KeyOf[ChainOf[f]] PROVE SpentFor(c)'
    <3>1. ChainOf[f] \in Chain /\ At(f, "accounting")'
      BY <2>1, OlmAssumption DEF At
    <3> QED BY <2>5, <3>1 DEF SpentFor
  <2>6. ASSUME ~raced', NEW c \in met', OnlyOf(c)', crashes = 0 PROVE stored' # None
    <3>1. c \in met /\ OnlyOf(c)
      BY <2>2, <2>3, <2>6 DEF OnlyOf
    <3> QED BY <2>2, <2>6, <3>1 DEF FailureInv
  <2>7. ASSUME NEW c \in Chain, crashes = 0 PROVE KeyOf[c] \in otk' \cup {Fallback} \/ SpentFor(c)'
    <3>1. KeyOf[c] \in otk \cup {Fallback} \/ SpentFor(c)
      BY <2>7 DEF FailureInv
    <3> QED BY <2>2, <2>4, <2>5, <3>1
  <2> QED BY <2>2, <2>6, <2>7 DEF FailureInv
<1>11. ASSUME NEW f \in Inbound, DecryptFails(f) PROVE FailureInv'
  <2>1. UNCHANGED <<crashes, otk, met>> /\ proc[f].at = "using" /\ f \in Proc
    BY <1>1, <1>11 DEF DecryptFails, At
  <2>2. proc'[f].at \in {"failed", "forgetting"} /\ \A q \in Proc : q # f => proc'[q] = proc[q]
    BY <1>1, <1>11, <2>1 DEF DecryptFails, Rest
  <2>3. \A g \in Inbound : (At(g, "idle")' => At(g, "idle")) /\ (At(g, "accounting") => At(g, "accounting")')
    BY <1>1, <2>1, <2>2 DEF At
  <2>4. CASE proc[f].again
    <3>1. UNCHANGED <<stored, raced>>
      BY <1>11, <2>4 DEF DecryptFails
    <3> QED BY <2>1, <2>3, <3>1, FailureQuiet
  <2>5. CASE ~proc[f].again
    <3>1. raced => raced'
      BY <1>11, <2>5 DEF DecryptFails, WatchDrop
    <3>2. ASSUME ~raced', NEW c \in met', OnlyOf(c)', crashes = 0 PROVE FALSE
      <4>1. c \in met /\ OnlyOf(c) /\ ~raced /\ stored # None
        BY <2>1, <2>3, <3>1, <3>2 DEF OnlyOf, FailureInv
      <4>2. ChainOf[f] = c /\ met = {c}
        BY <2>1, <4>1 DEF OnlyOf, At
      <4>3. CASE proc[f].obj # None
        <5>1. heap[proc[f].obj].chain # c
          BY <1>11, <4>2, <4>3 DEF DecryptFails
        <5>2. heap[proc[f].obj].chain \in met
          BY <1>1, <2>1, <4>3, InUse DEF ChainInv
        <5> QED BY <4>2, <5>1, <5>2
      <4>4. CASE proc[f].obj = None
        <5>1. f \in Cold /\ ~At(f, "loading")
          BY <2>1, <4>4 DEF Cold, Active, At, Working
        <5> QED BY <4>1, <5>1 DEF RaceInv, Orderly, Missing
      <4> QED BY <4>3, <4>4
    <3>3. ASSUME NEW c \in Chain, SpentFor(c) PROVE SpentFor(c)'
      <4>1. PICK d \in Chain : KeyOf[d] = KeyOf[c] /\ (d \in met \/ \E g \in Inbound : At(g, "accounting") /\ ChainOf[g] = d)
        BY <3>3 DEF SpentFor
      <4>2. d \in met' \/ \E g \in Inbound : At(g, "accounting")' /\ ChainOf[g] = d
        BY <2>1, <2>3, <4>1
      <4> QED BY <4>1, <4>2 DEF SpentFor
    <3> QED BY <2>1, <3>2, <3>3 DEF FailureInv
  <2> QED BY <2>4, <2>5
<1>12. CASE ClearCaches
  <2>1. \A g \in Inbound : (At(g, "idle")' => At(g, "idle")) /\ (At(g, "accounting") => At(g, "accounting")')
    BY <1>12 DEF ClearCaches, At
  <2>2. UNCHANGED <<crashes, otk, stored, met>> /\ (raced => raced')
    BY <1>12 DEF ClearCaches, WatchDrop
  <2> QED BY <2>1, <2>2, FailureQuiet
<1>13. CASE Crash
  <2>1. crashes \in Nat /\ crashes' = crashes + 1
    BY <1>13, OlmAssumption DEF Crash, OlmTypeOK
  <2>2. crashes' # 0
    BY <2>1
  <2> QED BY <2>2 DEF FailureInv
<1>14. CASE UNCHANGED olmVars
  BY <1>14 DEF olmVars, olmHistory, FailureInv, SpentFor, OnlyOf, At
<1> QED
  BY <1>1, <1>3, <1>5, <1>6, <1>7, <1>8, <1>9, <1>10, <1>11, <1>12, <1>13, <1>14 DEF OlmNext, Step

-----------------------------------------------------------------------------
\* The theorems about the adapter

LEMMA OlmInitially == ASSUME OlmInit PROVE OlmInv
<1>1. /\ \A p \in Proc : proc[p].at = "idle" /\ proc[p].obj = None
      /\ Active = {} /\ Cold = {}
  BY DEF OlmInit, Rest, Active, Cold, Working
<1>2. OlmTypeOK
  <2>1. proc \in [Proc -> Place]
    <3>1. "idle" \in Stage
      BY DEF Stage
    <3> QED BY <3>1, RestIsPlace DEF OlmInit
  <2>2. MaxRatchet \in Nat /\ MaxCrashes \in Nat
    BY OlmAssumption
  <2>3. ratchets \in 0..MaxRatchet /\ crashes \in 0..MaxCrashes
    BY <2>2 DEF OlmInit
  <2> QED BY <2>1, <2>3 DEF OlmInit, OlmTypeOK, Place
<1>3. ObjectInv
  BY <1>1 DEF OlmInit, ObjectInv, At
<1>4. ChainInv
  BY <1>1 DEF OlmInit, ChainInv, At, Proc
<1>5. RaceInv
  BY <1>1, OlmAssumption DEF OlmInit, RaceInv, Orderly, Alone, Shared, Missing, StoredIsCurrent, Ahead
<1>6. FailureInv
  BY DEF OlmInit, FailureInv
<1> QED BY <1>2, <1>3, <1>4, <1>5, <1>6 DEF OlmInv

LEMMA OlmStep == ASSUME OlmInv, [OlmNext]_olmVars PROVE OlmInv'
<1> USE DEF OlmInv
<1>1. OlmTypeOK'
  BY OlmTypesStep
<1>2. ObjectInv' /\ ChainInv' /\ RaceInv' /\ FailureInv'
  BY <1>1, ObjectStep, ChainStep, RaceStep, FailureStep
<1> QED BY <1>1, <1>2

LEMMA OlmHolds == OlmSpec => []OlmInv
<1>1. OlmInit => OlmInv
  BY OlmInitially
<1>2. OlmInv /\ [OlmNext]_olmVars => OlmInv'
  BY OlmStep
<1> QED BY <1>1, <1>2, PTL DEF OlmSpec

\* The adapter's calls, objects, keys and pickles are of their types: an object
\* is always found for a pickle that was read (loadSession()).
THEOREM OlmTypes == OlmSpec => []OlmTypeOK
<1>1. OlmInv => OlmTypeOK
  BY DEF OlmInv
<1> QED BY <1>1, OlmHolds, PTL

\* However many calls, reloads, promotions and recoveries there are, no message
\* key is used twice unless two calls collided (encryptForPeer(), loadSession()).
THEOREM NoKeyIsReused == OlmSpec => []NoKeyReuse
<1>1. OlmInv => NoKeyReuse
  BY DEF OlmInv, RaceInv, Orderly, NoKeyReuse, OlmTypeOK
<1> QED BY <1>1, OlmHolds, PTL

\* With the same exception, the session in the cache is the one in the store
\* (encryptForPeer() and decryptFromPeer() store what they changed).
THEOREM StoreIsCurrent == OlmSpec => []StoredIsCurrent
<1>1. OlmInv => StoredIsCurrent
  BY DEF OlmInv, RaceInv, Orderly, StoredIsCurrent
<1> QED BY <1>1, OlmHolds, PTL

\* Collided or not, crashed or not: the account stored has no key that the
\* stored session was started with (bootstrapInbound()).
THEOREM KeysAreErased == OlmSpec => []KeyErased
<1>1. OlmInv => KeyErased
  BY DEF OlmInv, ChainInv, Gone, KeyErased
<1> QED BY <1>1, OlmHolds, PTL

\* A frame is only given up by its second failure.
LEMMA OnlyFailuresFail ==
  ASSUME OlmTypeOK, [OlmNext]_olmVars, NEW f \in Inbound, At(f, "using"), At(f, "failed")' PROVE DecryptFails(f)
<1>1. proc \in [Proc -> Place] /\ f \in Proc /\ Enc \subseteq Proc /\ Inbound \subseteq Proc /\ f \notin Enc
  BY OlmAssumption DEF OlmTypeOK, Place, Proc
<1>2. proc[f].at = "using" /\ proc'[f].at = "failed"
  BY DEF At
<1>3. ASSUME NEW p \in Proc, Loaded(p) PROVE FALSE
  BY <1>1, <1>2, <1>3 DEF Loaded
<1>4. ASSUME NEW e \in Proc, e # f, proc'[f] = proc[f] PROVE FALSE
  BY <1>2, <1>4
<1>5. ASSUME NEW e \in Enc, Ratchet(e) \/ EncryptReturns(e) \/ Encrypt(e) PROVE FALSE
  <2>1. proc'[f] = proc[f]
    BY <1>1, <1>5 DEF Ratchet, Keep, EncryptReturns, Encrypt, Load
  <2> QED BY <1>1, <1>4, <2>1
<1>6. ASSUME NEW g \in Inbound, DecryptOk(g) \/ Bootstrapped(g) PROVE FALSE
  BY <1>1, <1>2, <1>6 DEF DecryptOk, Bootstrapped, Keep, Rest
<1>7. ASSUME NEW g \in Inbound, Bootstrap(g) \/ DecryptReturns(g) \/ Arrive(g) \/ TryAgain(g) PROVE FALSE
  <2>1. CASE Bootstrap(g) \/ DecryptReturns(g)
    <3>1. proc'[g].at \in {"accounting", "read"}
      BY <1>1, <2>1 DEF Bootstrap, Go, DecryptReturns, Rest, Place
    <3>2. g # f => proc'[f] = proc[f]
      BY <1>1, <2>1 DEF Bootstrap, Go, DecryptReturns
    <3> QED BY <1>2, <3>1, <3>2
  <2>2. CASE Arrive(g)
    BY <1>1, <1>2, <2>2 DEF Arrive
  <2>3. CASE TryAgain(g)
    <3>1. g # f
      BY <1>2, <2>3 DEF TryAgain, At
    <3> QED BY <1>1, <1>2, <2>3, <3>1 DEF TryAgain, Load
  <2> QED BY <1>7, <2>1, <2>2, <2>3
<1>8. ASSUME NEW g \in Inbound, DecryptFails(g) PROVE g = f
  BY <1>1, <1>2, <1>8 DEF DecryptFails
<1>9. ASSUME ClearCaches \/ UNCHANGED olmVars PROVE FALSE
  BY <1>2, <1>9 DEF ClearCaches, olmVars
<1>10. ASSUME Crash PROVE FALSE
  BY <1>1, <1>2, <1>10 DEF Crash, Rest
<1> QED BY <1>3, <1>5, <1>6, <1>7, <1>8, <1>9, <1>10 DEF OlmNext, Step

\* A frame that two attempts did not decrypt met a collision, a reload, or
\* another session or frame of another, or it is not the first of a session this
\* device does not have (the recovery around decryptFromPeer()).
THEOREM FailuresHaveReasons == OlmSpec => FailureHasReason
<1> DEFINE Reason(f) == raced \/ crashes > 0 \/ Crossed(f) \/ (f \notin Prekey /\ ChainOf[f] \notin met)
           Explained == \A f \in Inbound : At(f, "using") /\ At(f, "failed")' => Reason(f)
<1>1. ASSUME OlmInv, [OlmNext]_olmVars, NEW f \in Inbound, At(f, "using"), At(f, "failed")', ~raced, crashes = 0, ~Crossed(f)
      PROVE  f \notin Prekey /\ ChainOf[f] \notin met
  <2> USE DEF OlmInv
  <2> DEFINE o == proc[f].obj
  <2>1. f \in Proc /\ f \in Active
    BY <1>1 DEF Proc, Active, At, Working
  <2>2. DecryptFails(f)
    BY <1>1, OnlyFailuresFail
  <2>3. met \subseteq {ChainOf[f]} /\ \A g \in Inbound : At(g, "idle") \/ ChainOf[g] = ChainOf[f]
    BY <1>1 DEF Crossed
  <2>4. o = None
    <3>1. SUFFICES ASSUME o # None PROVE FALSE
      OBVIOUS
    <3>2. o \in Object /\ heap[o] \in Session
      BY <1>1, <2>1, <3>1, InUse
    <3>3. heap[o].chain \in met
      BY <1>1, <3>2, SessionAssumption DEF ChainInv
    <3> QED BY <2>2, <2>3, <3>1, <3>3 DEF DecryptFails
  <2>5. ~Startable(f) /\ f \in Cold
    BY <1>1, <2>1, <2>2, <2>4 DEF DecryptFails, Cold
  <2>6. Orderly /\ ~At(f, "loading")
    BY <1>1 DEF RaceInv, At
  <2>7. stored = None
    BY <2>5, <2>6 DEF Orderly, Missing
  <2>8. ChainOf[f] \notin met
    BY <1>1, <2>3, <2>7 DEF FailureInv, OnlyOf
  <2>9. ASSUME f \in Prekey PROVE FALSE
    <3>1. ChainOf[f] \in Chain /\ KeyOf[ChainOf[f]] \notin otk \cup {Fallback}
      BY <2>5, <2>9, OlmAssumption DEF Startable
    <3>2. SpentFor(ChainOf[f])
      BY <1>1, <3>1 DEF FailureInv
    <3>3. PICK g \in Inbound : At(g, "accounting")
      BY <2>3, <2>8, <3>2 DEF SpentFor
    <3>4. g \in Cold
      BY <3>3 DEF Cold, Active, Proc, At, Working
    <3>5. g = f
      BY <2>1, <2>6, <3>4 DEF Orderly, Alone
    <3> QED BY <1>1, <3>3, <3>5 DEF At
  <2> QED BY <2>8, <2>9
<1>2. OlmInv /\ [OlmNext]_olmVars => Explained
  <2> SUFFICES ASSUME OlmInv, [OlmNext]_olmVars, NEW f \in Inbound, At(f, "using"), At(f, "failed")' PROVE Reason(f)
    OBVIOUS
  <2>1. crashes \in Nat
    BY OlmAssumption DEF OlmInv, OlmTypeOK
  <2>2. crashes > 0 \/ crashes = 0
    BY <2>1
  <2> QED BY <1>1, <2>2
<1>3. OlmInv /\ [OlmNext]_olmVars => [Explained]_olmVars
  BY <1>2
<1>4. OlmSpec => [][Explained]_olmVars
  BY <1>3, OlmHolds, PTL DEF OlmSpec
<1> QED BY <1>4 DEF FailureHasReason
-----------------------------------------------------------------------------
\* The refinement of AtomicSession

\* A key that is ahead of those used was not used.
LEMMA AheadIsUnused ==
  ASSUME OlmTypeOK, Ahead, NEW r \in Nat, NEW n \in Nat,
         r = ratchets + 1 \/ (stored # None /\ r = stored.ratchet /\ n = stored.sent + 1)
  PROVE  <<r, n>> \notin usedKeys
<1>1. SUFFICES ASSUME <<r, n>> \in usedKeys PROVE FALSE
  OBVIOUS
<1>2. ratchets \in Nat /\ (stored # None => stored.sent \in Nat)
  BY OlmAssumption DEF OlmTypeOK, Session
<1>3. <<r, n>>[1] = r /\ <<r, n>>[2] = n
  OBVIOUS
<1>4. r <= ratchets
  BY <1>1, <1>3 DEF Ahead
<1>5. stored # None /\ r = stored.ratchet => n <= stored.sent
  BY <1>1, <1>3 DEF Ahead
<1> QED BY <1>2, <1>4, <1>5

\* An encryption starts the session, or goes on from the stored one.
LEMMA RatchetIsAtomic ==
  ASSUME OlmTypeOK, ObjectInv, Orderly, ~raced, NEW e \in Enc, Ratchet(e)
  PROVE  OneByOne!Start \/ OneByOne!Turn \/ OneByOne!Send
<1>1. PICK o \in Object, r \in 1..MaxRatchet, n \in 1..MaxSent, c \in Chain \cup 1..MaxRatchet : RatchetTo(e, o, r, n, c)
  BY RatchetFacts
<1>2. e \in Proc /\ e \in Active /\ At(e, "using")
  BY DEF Ratchet, Active, At, Working, Proc
<1>3. stored' = [chain |-> c, ratchet |-> r, sent |-> n] /\ usedKeys' = usedKeys \cup {<<r, n>>}
  BY <1>1 DEF RatchetTo, Keep
<1>4. r \in Nat /\ n \in Nat /\ Ahead
  BY OlmAssumption DEF Orderly
<1>5. CASE proc[e].obj = None
  <2>1. e \in Cold
    BY <1>2, <1>5 DEF Cold
  <2>2. stored = None
    BY <1>2, <2>1 DEF Orderly, Missing, At
  <2>3. c = r /\ r = ratchets + 1 /\ n = 1 /\ ratchets' = r
    BY <1>1, <1>5 DEF RatchetTo
  <2>4. <<r, n>> \notin usedKeys
    BY <1>4, <2>3, AheadIsUnused
  <2>5. OneByOne!Sends(ratchets + 1, 1)
    BY <1>3, <2>3, <2>4 DEF OneByOne!Sends
  <2> QED BY <1>3, <2>2, <2>3, <2>5 DEF OneByOne!Start
<1>6. CASE proc[e].obj # None
  <2>1. o = proc[e].obj /\ c = heap[o].chain /\ heap[o] \in Session
    BY <1>1, <1>6 DEF RatchetTo
  <2>2. o = sessionCache /\ o # None
    BY <1>2, <1>6, <2>1 DEF Orderly, Shared
  <2>3. stored = heap[o] /\ stored # None
    BY <2>1, <2>2, SessionAssumption DEF Orderly, StoredIsCurrent
  <2>4. CASE r = ratchets + 1 /\ n = 1 /\ ratchets' = r /\ heap[o].ratchet = 0
    <3>1. <<r, n>> \notin usedKeys
      BY <1>4, <2>4, AheadIsUnused
    <3>2. OneByOne!Sends(ratchets + 1, 1)
      BY <1>3, <2>4, <3>1 DEF OneByOne!Sends
    <3> QED BY <1>3, <2>1, <2>3, <2>4, <3>2 DEF OneByOne!Turn
  <2>5. CASE r # 0 /\ r = heap[o].ratchet /\ n = heap[o].sent + 1 /\ ratchets' = ratchets
    <3>1. <<r, n>> \notin usedKeys
      BY <1>4, <2>3, <2>5, AheadIsUnused
    <3>2. OneByOne!Sends(stored.ratchet, stored.sent + 1)
      BY <1>3, <2>3, <2>5, <3>1 DEF OneByOne!Sends
    <3> QED BY <1>3, <2>1, <2>3, <2>5, <3>2 DEF OneByOne!Send
  <2> QED BY <1>1, <1>6, <2>4, <2>5 DEF RatchetTo
<1> QED BY <1>5, <1>6

LEMMA AnsweredIs ==
  ASSUME NEW s \in Session
  PROVE  [s EXCEPT !.ratchet = 0, !.sent = 0] = [chain |-> s.chain, ratchet |-> 0, sent |-> 0]
<1>1. s = [chain |-> s.chain, ratchet |-> s.ratchet, sent |-> s.sent]
  BY DEF Session
<1>2. \A x, y, z : [[chain |-> x, ratchet |-> y, sent |-> z] EXCEPT !.ratchet = 0] = [chain |-> x, ratchet |-> 0, sent |-> z]
  OBVIOUS
<1>3. \A x, y, z : [[chain |-> x, ratchet |-> y, sent |-> z] EXCEPT !.sent = 0] = [chain |-> x, ratchet |-> y, sent |-> 0]
  OBVIOUS
<1>4. [s EXCEPT !.ratchet = 0] = [chain |-> s.chain, ratchet |-> 0, sent |-> s.sent]
  BY <1>1, <1>2
<1>5. [[s EXCEPT !.ratchet = 0] EXCEPT !.sent = 0]
        = [[chain |-> s.chain, ratchet |-> 0, sent |-> s.sent] EXCEPT !.sent = 0]
  BY <1>4
<1>6. [[chain |-> s.chain, ratchet |-> 0, sent |-> s.sent] EXCEPT !.sent = 0] = [chain |-> s.chain, ratchet |-> 0, sent |-> 0]
  BY <1>3
<1>7. [s EXCEPT !.ratchet = 0, !.sent = 0] = [[s EXCEPT !.ratchet = 0] EXCEPT !.sent = 0]
  OBVIOUS
<1> QED BY <1>5, <1>6, <1>7

\* A decryption leaves the stored session, or turns it.
LEMMA DecryptIsAtomic ==
  ASSUME OlmTypeOK, ObjectInv, Orderly, ~raced, NEW f \in Inbound, DecryptOk(f)
  PROVE  OneByOne!Answer \/ UNCHANGED <<stored, ratchets, usedKeys>>
<1> DEFINE o == proc[f].obj
<1>1. f \in Proc /\ f \in Active
  BY DEF DecryptOk, Active, At, Working, Proc
<1>2. o # None /\ heap[o].chain = ChainOf[f] /\ heap[o] \in Session
  BY <1>1, InUse DEF DecryptOk
<1>3. o = sessionCache /\ stored = heap[o] /\ stored # None
  BY <1>1, <1>2, SessionAssumption DEF Orderly, Shared, StoredIsCurrent
<1>4. stored' = IF ChainOf[f] \in Chain THEN heap[o] ELSE [heap[o] EXCEPT !.ratchet = 0, !.sent = 0]
  BY DEF DecryptOk, Keep
<1>5. UNCHANGED <<ratchets, usedKeys>>
  BY DEF DecryptOk
<1>6. CASE ChainOf[f] \in Chain
  BY <1>3, <1>4, <1>5, <1>6
<1>7. CASE ChainOf[f] \notin Chain
  <2>1. [heap[o] EXCEPT !.ratchet = 0, !.sent = 0] = [chain |-> heap[o].chain, ratchet |-> 0, sent |-> 0]
    BY <1>2, AnsweredIs
  <2>2. stored.chain \notin Chain
    BY <1>2, <1>3, <1>7
  <2>3. stored' = [chain |-> stored.chain, ratchet |-> 0, sent |-> 0]
    BY <1>3, <1>4, <1>7, <2>1
  <2> QED BY <1>3, <1>5, <2>2, <2>3 DEF OneByOne!Answer
<1> QED BY <1>6, <1>7

\* A step with a collision behind it is one of the abstract specification; so is
\* any other, or it leaves the stored session, the keys and the flag alone.
LEMMA AtomicStep ==
  ASSUME OlmInv, [OlmNext]_olmVars
  PROVE  OneByOne!Next \/ UNCHANGED <<stored, ratchets, usedKeys, raced>>
<1> USE DEF sessions
<1>1. CASE raced'
  BY <1>1 DEF OneByOne!Next, OneByOne!Collide
<1> DEFINE Fine == OneByOne!Next \/ UNCHANGED <<stored, ratchets, usedKeys, raced>>
<1>2. CASE ~raced'
  <2>1. OlmTypeOK /\ OlmTypeOK' /\ ObjectInv /\ RaceInv
    BY OlmStep DEF OlmInv
  <2>2. raced \in BOOLEAN /\ raced' \in BOOLEAN
    BY <2>1 DEF OlmTypeOK
  <2>3. ASSUME Watch PROVE ~raced /\ Orderly /\ UNCHANGED raced
    BY <1>2, <2>1, <2>2, <2>3, NotRaced DEF RaceInv
  <2>4. ASSUME NEW e \in Enc, Ratchet(e) PROVE Fine
    <3>1. ~raced /\ Orderly /\ UNCHANGED raced
      BY <2>3, <2>4 DEF Ratchet
    <3> QED BY <2>1, <2>4, <3>1, RatchetIsAtomic DEF OneByOne!Next
  <2>5. ASSUME NEW f \in Inbound, DecryptOk(f) PROVE Fine
    <3>1. ~raced /\ Orderly /\ UNCHANGED raced
      BY <2>3, <2>5 DEF DecryptOk
    <3> QED BY <2>1, <2>5, <3>1, DecryptIsAtomic DEF OneByOne!Next
  <2>6. ASSUME NEW f \in Inbound, Bootstrapped(f) PROVE Fine
    <3>1. Orderly /\ UNCHANGED raced
      BY <2>3, <2>6 DEF Bootstrapped
    <3>2. f \in Cold /\ At(f, "accounting") /\ ChainOf[f] \in Chain
      BY <2>1, <2>6, OlmAssumption DEF Bootstrapped, Cold, Active, At, Working, Proc, ObjectInv
    <3>3. stored = None
      BY <3>1, <3>2 DEF Orderly, Missing, At
    <3>4. stored' = [chain |-> ChainOf[f], ratchet |-> 0, sent |-> 0] /\ UNCHANGED <<ratchets, usedKeys>>
      BY <2>6 DEF Bootstrapped, Keep
    <3>5. OneByOne!Accept
      BY <3>2, <3>3, <3>4 DEF OneByOne!Accept
    <3> QED BY <3>1, <3>5 DEF OneByOne!Next
  <2>7. ASSUME NEW f \in Inbound, DecryptFails(f) PROVE Fine
    <3>1. UNCHANGED <<ratchets, usedKeys>>
      BY <2>7 DEF DecryptFails
    <3>2. CASE proc[f].again
      BY <2>7, <3>1, <3>2 DEF DecryptFails
    <3>3. CASE ~proc[f].again
      <4>1. stored' = None /\ WatchDrop(f)
        BY <2>7, <3>3 DEF DecryptFails
      <4>2. UNCHANGED raced
        BY <1>2, <2>2, <4>1 DEF WatchDrop
      <4>3. OneByOne!Forget \/ UNCHANGED stored
        BY <3>1, <4>1 DEF OneByOne!Forget
      <4> QED BY <3>1, <4>2, <4>3 DEF OneByOne!Next
    <3> QED BY <3>2, <3>3
  <2>8. ASSUME NEW p \in Proc, Loaded(p) \/ Encrypt(p) \/ Arrive(p) \/ TryAgain(p) \/ Bootstrap(p) PROVE Fine
    <3>1. Watch /\ UNCHANGED <<stored, ratchets, usedKeys>>
      BY <2>8 DEF Loaded, Encrypt, Arrive, TryAgain, Bootstrap
    <3> QED BY <2>3, <3>1
  <2>9. ASSUME NEW p \in Proc, EncryptReturns(p) \/ DecryptReturns(p) PROVE Fine
    BY <2>9 DEF EncryptReturns, DecryptReturns, olmHistory
  <2>10. ASSUME ClearCaches PROVE Fine
    BY <1>2, <2>2, <2>10 DEF ClearCaches, WatchDrop
  <2>11. ASSUME Crash PROVE Fine
    BY <2>11 DEF Crash, olmHistory
  <2>12. ASSUME UNCHANGED olmVars PROVE Fine
    BY <2>12 DEF olmVars, olmHistory
  <2>13. Enc \subseteq Proc /\ Inbound \subseteq Proc
    BY DEF Proc
  <2> HIDE DEF Fine
  <2>14. ASSUME NEW p \in Proc, Step(p) PROVE Fine
    BY <2>4, <2>5, <2>6, <2>7, <2>8, <2>9, <2>14 DEF Step
  <2>15. Fine
    BY <2>8, <2>10, <2>11, <2>12, <2>13, <2>14 DEF OlmNext
  <2> QED BY <2>15 DEF Fine
<1> QED BY <1>1, <1>2

\* As long as no two calls collide, the adapter works on the stored session as
\* one call at a time would: it implements AtomicSession (encryptForPeer(),
\* decryptFromPeer(), loadSession(), persistSession(), forgetPeerDevice()).
THEOREM ImplementsAtomicSession == OlmSpec => CallsAreAtomic
<1>1. OlmInit => OneByOne!Init
  BY DEF OlmInit, OneByOne!Init
<1>2. OlmInv /\ [OlmNext]_olmVars => [OneByOne!Next]_<<stored, ratchets, usedKeys, raced>>
  BY AtomicStep
<1> QED BY <1>1, <1>2, OlmHolds, PTL DEF OlmSpec, CallsAreAtomic, OneByOne!Spec
=============================================================================
