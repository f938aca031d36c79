------------------------------ MODULE Sessions ------------------------------
(***************************************************************************)
(* SessionManager (src/sessions.ts) for one peer: the cached bundles of    *)
(* the peer's devices, the fan-out of a text over them under a lock per    *)
(* device, and the background discovery that catches up on devices the     *)
(* fan-out did not know; with what src/index.ts does to the same cache     *)
(* when a frame of the peer arrives (recovery and announcement) and the    *)
(* start of an Olm session (src/crypto/olm-adapter.ts).                    *)
(*                                                                         *)
(* A claim pops one one-time key of each device: a bundle is a device and  *)
(* the number of the claim.  Sessions are there or not; the ratchet, the   *)
(* fallback key of a device without one-time keys, the fan-out to the      *)
(* user's own devices and clearCache() are left out.                       *)
(***************************************************************************)
EXTENDS Naturals, Sequences, FiniteSets, SequencesExt

CONSTANTS
  Text,      \* calls of encryptForPeer()
  Device,    \* the devices the peer may have
  Frame,     \* frames of the peer, each handled once
  Catcher,   \* the discovery, as a user of the locks
  Sender, Finder, \* who asked for bundles: ensurePeerBundles(), discovery
  NoEntry,   \* bundleCache has no entry
  NoAnswer,  \* a request the backend has not served
  Cap,       \* DISCOVERY_QUEUE_CAP
  MaxClaims, \* bound: claims the backend serves
  MaxGone    \* bound: devices the peer drops

ASSUME BoundsAssumption == Cap \in Nat \ {0} /\ MaxClaims \in Nat /\ MaxGone \in Nat
ASSUME NamesAssumption ==
  /\ Catcher \notin Text
  /\ {Sender, Finder} \cap Frame = {} /\ Sender # Finder

Bundle == [dev : Device, key : 1..MaxClaims]

ASSUME NoneAssumption == \A B \in SUBSET Bundle : B # NoEntry /\ B # NoAnswer

Worker == Text \cup {Catcher}
Devices(B) == {b.dev : b \in B}

VARIABLES
  registered, \* the devices the backend has for the peer
  gone,       \* those the peer has dropped
  keys,       \* claims served
  bundles,    \* bundleCache
  cooling,    \* now < emptyCacheUntil
  due,        \* the floor has passed since lastDiscoveryAt
  requests,   \* claims under way
  stage,      \* of each send
  disc,       \* the discovery in flight, and pendingCatchUp
  job,        \* the bundles a worker goes through, and how far it is
  locks,      \* the chain of each device: the holder and those behind it
  saw,        \* what a worker found when it loaded the session
  session,    \* devices with an Olm session
  handlers,   \* frames of the peer being handled
  announced,  \* announcedNewDevices
  \* history
  out,        \* <<text, device>> encrypted and handed on
  twice,      \* the same, for the second time
  joined,     \* texts that joined the discovery in flight
  owed,       \* <<text, device>>: the device was listed when the text waited
  overtaken,  \* texts under whose hands the bundles changed
  spent,      \* bundles a session was started from
  respent,    \* the same, for the second time
  exposed     \* devices forgotten while a worker held their bundle

backend == <<registered, gone, keys>>
cache == <<bundles, cooling>>
discovery == <<due, disc>>
fanout == <<stage, job>>
olm == <<locks, saw, session>>
inbound == <<handlers, announced>>
emitted == <<out, twice>>
waited == <<joined, owed>>
used == <<spent, respent, exposed>>
history == <<out, twice, joined, owed, overtaken, spent, respent, exposed>>
vars == <<registered, gone, keys, bundles, cooling, due, requests, stage, disc, job, locks, saw,
          session, handlers, announced, history>>

Discovery == [stage : {"none", "listing", "listed", "claiming", "draining"},
              known : SUBSET Device, live : SUBSET Device, queue : Seq(Text), batch : Seq(Text),
              outdated : BOOLEAN]
NoDiscovery == [stage |-> "none", known |-> {}, live |-> {}, queue |-> <<>>, batch |-> <<>>, outdated |-> FALSE]

NoJob == [list |-> {}, done |-> {}]

TypeOK ==
  /\ registered \subseteq Device /\ gone \subseteq Device
  /\ keys \in 0..MaxClaims
  /\ bundles = NoEntry \/ bundles \subseteq Bundle
  /\ cooling \in BOOLEAN /\ due \in BOOLEAN
  /\ requests \subseteq [by : {Sender, Finder} \cup Frame, got : {NoAnswer} \cup SUBSET Bundle]
  /\ stage \in [Text -> {"new", "waiting", "sending", "sent", "refused", "failed"}]
  /\ disc \in Discovery
  /\ Len(disc.queue) <= Cap /\ Len(disc.batch) <= Cap
  /\ (disc.stage = "none" => disc = NoDiscovery)
  /\ job \in [Worker -> [list : SUBSET Bundle, done : SUBSET Device]]
  /\ locks \in [Device -> Seq(Worker)]
  /\ saw \in [Worker -> {"nothing", "absent", "present"}]
  /\ session \subseteq Device
  /\ handlers \subseteq [of : Frame, dev : Device, at : {"retry", "look", "claim", "done"}]
  /\ announced \subseteq Device
  /\ out \subseteq Text \X Device /\ twice \subseteq out /\ owed \subseteq Text \X Device
  /\ joined \subseteq Text /\ overtaken \subseteq Text
  /\ respent \subseteq spent /\ spent \subseteq Bundle
  /\ exposed \subseteq Device

Init ==
  /\ registered \in SUBSET Device /\ gone = {}
  /\ keys = 0
  /\ bundles = NoEntry
  /\ cooling = FALSE /\ due = TRUE
  /\ requests = {}
  /\ stage = [m \in Text |-> "new"]
  /\ disc = NoDiscovery
  /\ job = [w \in Worker |-> NoJob]
  /\ locks = [d \in Device |-> <<>>]
  /\ saw = [w \in Worker |-> "nothing"]
  /\ session = {}
  /\ handlers = {}
  /\ announced = {}
  /\ out = {} /\ twice = {} /\ joined = {} /\ owed = {} /\ overtaken = {}
  /\ spent = {} /\ respent = {} /\ exposed = {}

-----------------------------------------------------------------------------
\* The backend and the clocks.

Enroll(d) ==
  /\ d \notin registered \cup gone
  /\ registered' = registered \cup {d}
  /\ UNCHANGED <<cache, discovery, fanout, olm, inbound, history, gone, keys, requests>>

\* The peer drops a device; one that comes back has another name.
Leave(d) ==
  /\ d \in registered
  /\ Cardinality(gone) < MaxGone
  /\ registered' = registered \ {d}
  /\ gone' = gone \cup {d}
  /\ UNCHANGED <<cache, discovery, fanout, olm, inbound, history, keys, requests>>

Asked(x) == \E r \in requests : r.by = x
Ask(x) == requests' = requests \cup {[by |-> x, got |-> NoAnswer]}

Serve(r) ==
  /\ r.got = NoAnswer
  /\ keys < MaxClaims
  /\ keys' = keys + 1
  /\ requests' = (requests \ {r}) \cup
                 {[r EXCEPT !.got = {[dev |-> d, key |-> keys + 1] : d \in registered}]}
  /\ UNCHANGED <<cache, discovery, fanout, olm, inbound, history, registered, gone>>

Answered(x, B) ==
  /\ [by |-> x, got |-> B] \in requests
  /\ B # NoAnswer
  /\ requests' = {r \in requests : r.by # x}

\* The request fails, before the backend served it or after.
Rejected(x) ==
  /\ Asked(x)
  /\ requests' = {r \in requests : r.by # x}

FloorPasses ==
  /\ ~due /\ due' = TRUE
  /\ UNCHANGED <<backend, cache, fanout, olm, inbound, history, requests, disc>>

CooldownEnds ==
  /\ cooling /\ cooling' = FALSE
  /\ UNCHANGED <<backend, discovery, fanout, olm, inbound, history, bundles, requests>>

-----------------------------------------------------------------------------
\* The fan-out of a text.

Sending == {m \in Text : stage[m] = "sending"}
InFlight == disc.stage # "none"

\* The cache entry changes behind the sends that hold the old list.
CacheBecomes(B) ==
  /\ bundles' = B
  /\ overtaken' = IF B = bundles THEN overtaken ELSE overtaken \cup Sending

Outdated(B) == [disc EXCEPT !.outdated = @ \/ (InFlight /\ B # bundles)]

CacheHit == bundles # NoEntry /\ (bundles = {} => cooling)
Given(B) == [list |-> B, done |-> {}]

ensurePeerBundles(m) ==
  /\ stage[m] = "new"
  /\ \/ /\ CacheHit
        /\ stage' = [stage EXCEPT ![m] = "sending"]
        /\ job' = [job EXCEPT ![m] = Given(bundles)]
        /\ UNCHANGED requests
     \/ /\ ~CacheHit
        /\ stage' = [stage EXCEPT ![m] = "waiting"]
        /\ IF Asked(Sender) THEN UNCHANGED requests ELSE Ask(Sender)
        /\ UNCHANGED job
  /\ UNCHANGED <<backend, cache, discovery, olm, inbound, history>>

Waiting == {m \in Text : stage[m] = "waiting"}

\* refreshPeerBundles() of the coalesced claim: every send that waits gets it.
Claimed ==
  \E B \in SUBSET Bundle :
    /\ Answered(Sender, B)
    /\ CacheBecomes(B)
    /\ disc' = Outdated(B)
    /\ cooling' = (B = {})
    /\ stage' = [m \in Text |-> IF m \in Waiting THEN "sending" ELSE stage[m]]
    /\ job' = [w \in Worker |-> IF w \in Waiting THEN Given(B) ELSE job[w]]
    /\ UNCHANGED <<backend, olm, inbound, emitted, waited, used, due>>

ClaimFails ==
  /\ Rejected(Sender)
  /\ stage' = [m \in Text |-> IF m \in Waiting THEN "failed" ELSE stage[m]]
  /\ UNCHANGED <<backend, cache, discovery, olm, inbound, history, job>>

Busy(w) == IF w = Catcher THEN disc.batch # <<>> ELSE stage[w] = "sending"
Left(w) == {b \in job[w].list : b.dev \notin job[w].done}
Queued(w) == \E d \in Device : Contains(locks[d], w)

\* loadSession(), as it is asked for; the answer is used later.
Found(S, d) == IF d \in S THEN "present" ELSE "absent"

\* Mutant: no lock.
FreeAlways(d) == TRUE

\* Whether one who gets in line need not wait.
Free(d) == locks[d] = <<>>

\* encryptForOneDevice(): get in line for the next device.
Enter(w) ==
  /\ Busy(w) /\ ~Queued(w)
  /\ \E d \in Devices(Left(w)) :
       /\ locks' = [locks EXCEPT ![d] = Append(@, w)]
       /\ saw' = IF Free(d) THEN [saw EXCEPT ![w] = Found(session, d)] ELSE saw
  /\ UNCHANGED <<backend, cache, discovery, fanout, inbound, history, requests, session>>

\* The holder has its session, or starts one from the bundle in hand,
\* whatever came up since; then the next in line goes on.
Encrypts(w, d) ==
  LET start == IF saw[w] = "absent" THEN {b \in job[w].list : b.dev = d} ELSE {}
      line  == Tail(locks[d])
  IN  /\ locks[d] # <<>> /\ w = Head(locks[d])
      /\ saw[w] # "nothing"
      /\ session' = session \cup {d}
      /\ spent' = spent \cup start
      /\ respent' = respent \cup (start \cap spent)
      /\ locks' = [locks EXCEPT ![d] = line]
      /\ saw' = [x \in Worker |-> IF x = w THEN "nothing"
                                  ELSE IF saw[x] = "nothing" /\ line # <<>> /\ x = Head(line) THEN Found(session', d)
                                  ELSE saw[x]]

Emit(m, D) ==
  /\ out' = out \cup ({m} \X D)
  /\ twice' = twice \cup (({m} \X D) \cap out)

Encrypted(w, d) ==
  /\ Encrypts(w, d)
  /\ job' = [job EXCEPT ![w].done = @ \cup {d}]
  /\ IF w = Catcher THEN Emit(Head(disc.batch), {d}) ELSE UNCHANGED <<emitted>>
  /\ UNCHANGED <<backend, cache, discovery, inbound, waited, requests, stage, overtaken, exposed>>

\* The store rejects the session: a send is given up, a catch-up goes on.
EncryptFails(w, d) ==
  /\ Encrypts(w, d)
  /\ IF w = Catcher
     THEN /\ job' = [job EXCEPT ![w].done = @ \cup {d}]
          /\ owed' = owed \ {<<Head(disc.batch), d>>}
          /\ UNCHANGED stage
     ELSE /\ stage' = [stage EXCEPT ![w] = "failed"]
          /\ job' = [job EXCEPT ![w] = NoJob]
          /\ UNCHANGED owed
  /\ UNCHANGED <<backend, cache, discovery, inbound, emitted, requests, joined, overtaken, exposed>>

-----------------------------------------------------------------------------
\* Background discovery.

\* The `finally`: the discovery and its queue are gone.
DiscoveryEnds == disc' = NoDiscovery /\ joined' = {}

Covered(m, D) == owed' = owed \cup ({m} \X D)

\* Mutant: a send that finds a discovery in flight relies on it.
QueueNothing(m) == disc.queue

Queue(m) == IF Len(disc.queue) < Cap THEN Append(disc.queue, m) ELSE disc.queue

Join(m) ==
  /\ InFlight
  /\ disc' = [disc EXCEPT !.queue = Queue(m)]
  /\ overtaken' = IF disc.outdated THEN overtaken \cup {m} ELSE overtaken
  /\ IF disc.stage = "draining"
     THEN Covered(m, Devices(job[Catcher].list)) /\ UNCHANGED joined
     ELSE joined' = (IF Len(disc.queue) < Cap THEN joined \cup {m} ELSE joined) /\ UNCHANGED owed
  /\ UNCHANGED due

Discover(m, D) ==
  /\ ~InFlight /\ due
  /\ disc' = [NoDiscovery EXCEPT !.stage = "listing", !.known = D, !.queue = <<m>>,
                                 !.outdated = m \in overtaken]
  /\ due' = FALSE
  /\ joined' = {m}
  /\ UNCHANGED <<owed, overtaken>>

RateLimited == ~InFlight /\ ~due /\ UNCHANGED <<discovery, waited, overtaken>>

maybeKickOffDiscovery(m, D) == Join(m) \/ Discover(m, D) \/ RateLimited

\* The end of encryptForPeer().
FannedOut(m) ==
  /\ Busy(m) /\ ~Queued(m) /\ Left(m) = {}
  /\ stage' = [stage EXCEPT ![m] = IF job[m].list = {} THEN "refused" ELSE "sent"]
  /\ Emit(m, job[m].done)
  /\ maybeKickOffDiscovery(m, Devices(job[m].list))
  /\ job' = [job EXCEPT ![m] = NoJob]
  /\ UNCHANGED <<backend, cache, olm, inbound, used, requests>>

\* The backend answers list_devices.
Listed ==
  /\ disc.stage = "listing"
  /\ disc' = [disc EXCEPT !.stage = "listed", !.live = registered]
  /\ UNCHANGED <<backend, cache, fanout, olm, inbound, history, due, requests>>

\* Mutant: no comparison with the devices the send knew.
NewDevicesAll == disc.live

NewDevices == disc.live \ disc.known

CompareDevices ==
  /\ disc.stage = "listed"
  /\ IF NewDevices = {}
     THEN /\ DiscoveryEnds
          /\ owed' = owed \cup (joined \X disc.live)
          /\ UNCHANGED requests
     ELSE /\ disc' = [disc EXCEPT !.stage = "claiming"]
          /\ Ask(Finder)
          /\ UNCHANGED <<waited>>
  /\ UNCHANGED <<backend, cache, fanout, olm, inbound, emitted, used, due, overtaken>>

\* The queue is taken and cleared as the bundles are replaced.
Refreshed ==
  \E B \in SUBSET Bundle :
    /\ Answered(Finder, B)
    /\ CacheBecomes(B)
    /\ disc' = [disc EXCEPT !.stage = "draining", !.batch = disc.queue, !.queue = <<>>]
    /\ job' = [job EXCEPT ![Catcher] = Given({b \in B : b.dev \in NewDevices})]
    /\ owed' = owed \cup (joined \X (disc.live \cap Devices(B)))
    /\ UNCHANGED <<backend, olm, inbound, emitted, used, cooling, due, stage, joined>>

DiscoveryFails ==
  /\ \/ disc.stage \in {"listing", "listed"} /\ UNCHANGED requests
     \/ Rejected(Finder)
  /\ DiscoveryEnds
  /\ UNCHANGED <<backend, cache, fanout, olm, inbound, emitted, used, due, owed, overtaken>>

\* The catch-up of one text is done.
CaughtUp ==
  /\ Busy(Catcher) /\ ~Queued(Catcher) /\ Left(Catcher) = {}
  /\ IF Len(disc.batch) = 1
     THEN DiscoveryEnds /\ job' = [job EXCEPT ![Catcher] = NoJob]
     ELSE /\ disc' = [disc EXCEPT !.batch = Tail(@)]
          /\ job' = [job EXCEPT ![Catcher].done = {}]
          /\ UNCHANGED joined
  /\ UNCHANGED <<backend, cache, olm, inbound, emitted, used, due, requests, stage, owed, overtaken>>

-----------------------------------------------------------------------------
\* Frames of the peer.

Seen(f) == \E h \in handlers : h.of = f
Goes(h, s) == handlers' = (handlers \ {h}) \cup {[h EXCEPT !.at = s]}

\* decrypt() succeeded: is the device known?
Understood(d) == IF d \in announced THEN "done" ELSE "look"

Hear(f, d) ==
  /\ ~Seen(f) /\ d \in registered \cup gone
  /\ handlers' = handlers \cup {[of |-> f, dev |-> d, at |-> Understood(d)]}
  /\ session' = session \cup {d}
  /\ UNCHANGED <<backend, cache, discovery, fanout, history, requests, locks, saw, announced>>

Without(d) ==
  LET kept == {b \in bundles : b.dev # d}
  IN  IF bundles = NoEntry \/ kept = {} THEN NoEntry ELSE kept

\* decrypt() failed: forgetPeerDevice().
HearBroken(f, d) ==
  /\ ~Seen(f) /\ d \in registered \cup gone
  /\ handlers' = handlers \cup {[of |-> f, dev |-> d, at |-> "retry"]}
  /\ CacheBecomes(Without(d))
  /\ disc' = Outdated(Without(d))
  /\ cooling' = (cooling /\ (bundles = NoEntry \/ Without(d) # NoEntry))
  /\ session' = session \ {d}
  /\ exposed' = IF \E w \in Worker : Busy(w) /\ d \in Devices(job[w].list) THEN exposed \cup {d} ELSE exposed
  /\ UNCHANGED <<backend, fanout, emitted, waited, due, requests, locks, saw, announced, spent, respent>>

\* The second attempt: a prekey message starts a session of its own.
Retry(h) ==
  /\ h \in handlers /\ h.at = "retry"
  /\ \/ session' = session \cup {h.dev} /\ Goes(h, Understood(h.dev))
     \/ Goes(h, "done") /\ UNCHANGED session
  /\ UNCHANGED <<backend, cache, discovery, fanout, history, requests, locks, saw, announced>>

\* maybeAnnouncePeerDevice(): the device is looked up, the bundles refreshed.
LookUp(h) ==
  /\ h \in handlers /\ h.at = "look"
  /\ \/ /\ Goes(h, "claim")
        /\ announced' = announced \cup {h.dev}
        /\ Ask(h.of)
     \/ Goes(h, "done") /\ UNCHANGED <<announced, requests>>
  /\ UNCHANGED <<backend, cache, discovery, fanout, olm, history>>

Announced(h) ==
  /\ h \in handlers /\ h.at = "claim"
  /\ Goes(h, "done")
  /\ \/ \E B \in SUBSET Bundle : Answered(h.of, B) /\ CacheBecomes(B) /\ disc' = Outdated(B)
     \/ Rejected(h.of) /\ UNCHANGED <<bundles, overtaken, disc>>
  /\ UNCHANGED <<backend, fanout, olm, emitted, waited, used, cooling, due, announced>>

-----------------------------------------------------------------------------
Next ==
  \/ \E d \in Device : Enroll(d) \/ Leave(d)
  \/ \E r \in requests : Serve(r)
  \/ FloorPasses \/ CooldownEnds
  \/ \E m \in Text : ensurePeerBundles(m) \/ FannedOut(m)
  \/ Claimed \/ ClaimFails
  \/ \E w \in Worker : Enter(w)
  \/ \E w \in Worker, d \in Device : Encrypted(w, d) \/ EncryptFails(w, d)
  \/ Listed \/ CompareDevices \/ Refreshed \/ DiscoveryFails \/ CaughtUp
  \/ \E f \in Frame, d \in Device : Hear(f, d) \/ HearBroken(f, d)
  \/ \E h \in handlers : Retry(h) \/ LookUp(h) \/ Announced(h)

Spec == Init /\ [][Next]_vars

-----------------------------------------------------------------------------
\* No one-time key starts two sessions with a device: parallel sends, the
\* catch-up and refreshed bundles meet at the device's lock, and a forgotten
\* device leaves the cache (sessions.ts 174, 502).  A worker that still holds
\* the bundle of a device being forgotten may use it again.
KeySpentOnce == \A b \in respent : b.dev \in exposed

\* A text goes to each device at most once, by its own fan-out or by the
\* catch-up (sessions.ts 424), unless the bundles changed under it.
NotTwice == \A p \in twice : p[1] \in overtaken

\* When a discovery is over, each text that joined it has gone to every
\* device the discovery found, whenever it joined (sessions.ts 472), unless
\* the bundles changed under it.
NoneMissed == InFlight \/ \A p \in owed \ out : p[1] \in overtaken
=============================================================================
