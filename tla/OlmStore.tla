------------------------------- MODULE OlmStore -------------------------------
(***************************************************************************)
(* The Olm session of one device of the peer as the adapter keeps it       *)
(* (src/crypto/olm-adapter.ts): a live object in a cache, its pickle in    *)
(* the store, and the account whose one-time keys the peer's first         *)
(* messages use up.  Encryptions wait for each other at the lock of the    *)
(* session manager (module Sessions); decryptions of inbound frames, which *)
(* recover from a failure by forgetting the session and trying again       *)
(* (src/index.ts), do not.                                                 *)
(*                                                                         *)
(* A pickle is taken and its write issued without an await in between, and *)
(* writes take effect in the order they are issued: a write is one step,   *)
(* and a write that a crash prevents is a step that was not taken.         *)
(*                                                                         *)
(* A session is its chain (the first message it grew from), the ratchet    *)
(* key it sends under (0 before it sends) and how many messages it sent    *)
(* under that key.  A loaded session is an object of its own.              *)
(***************************************************************************)
EXTENDS Naturals, Sequences, FiniteSets

CONSTANTS
  Enc,        \* encryptions that run at a time: one, because of the lock
  Inbound,    \* inbound frames of the device
  Chain,      \* the peer's sessions they belong to
  ChainOf,    \* the chain of each frame, or the number of one this device started
  Prekey,     \* frames of type prekey
  KeyOf,      \* the key of ours each chain was started with
  Fallback,   \* the prekey that is never used up
  MaxRatchet, \* bound: ratchet keys this device makes
  MaxSent,    \* bound: messages under one of them
  MaxCrashes, \* bound
  None

ASSUME OlmAssumption ==
  /\ IsFiniteSet(Enc) /\ IsFiniteSet(Inbound) /\ Enc \cap Inbound = {}
  /\ MaxRatchet \in Nat /\ MaxSent \in Nat /\ MaxCrashes \in Nat
  /\ ChainOf \in [Inbound -> Chain \cup 1..MaxRatchet]
  /\ Prekey \subseteq {f \in Inbound : ChainOf[f] \in Chain}
  /\ Chain \cap Nat = {} /\ None \notin Enc \cup Inbound \cup Nat

Proc == Enc \cup Inbound
Object == 1..(Cardinality(Proc) + 1)

VARIABLES
  otk, account, \* keys the account holds, in memory and in its stored pickle
  heap,         \* the session in each object
  sessionCache, \* the object in the cache
  stored,       \* the session in the store
  proc,         \* where each call is, its object, and whether it is the retry
  ratchets,     \* ratchet keys made
  crashes,
  \* history
  usedKeys,     \* <<ratchet key, number>> of the messages encrypted
  reused,       \* one of them was used again
  met,          \* chains a session was started for
  raced         \* two calls overlapped, and one of them had no cached session,
                \* or the session was dropped under one

ourKeys == <<otk, account>>
sessions == <<sessionCache, stored>>
olmHistory == <<usedKeys, reused, met, raced>>
olmVars == <<ourKeys, heap, sessions, proc, ratchets, crashes, olmHistory>>

Rest == [at |-> "idle", obj |-> None, again |-> FALSE]
Session == [chain : Chain \cup 1..MaxRatchet, ratchet : 0..MaxRatchet, sent : 0..MaxSent]
ASSUME SessionAssumption == None \notin Session

Working == {"loading", "using", "accounting", "storing", "forgetting"}
Stage == Working \cup {"idle", "read", "failed", "cut"}

OlmTypeOK ==
  /\ otk \subseteq {KeyOf[c] : c \in Chain} /\ account \subseteq {KeyOf[c] : c \in Chain}
  /\ heap \in [Object -> Session \cup {None}] /\ sessionCache \in Object \cup {None}
  /\ stored \in Session \cup {None}
  /\ proc \in [Proc -> [at : Stage, obj : Object \cup {None}, again : BOOLEAN]]
  /\ ratchets \in 0..MaxRatchet /\ crashes \in 0..MaxCrashes
  /\ usedKeys \subseteq (1..MaxRatchet) \X (1..MaxSent) /\ reused \in BOOLEAN /\ raced \in BOOLEAN
  /\ met \subseteq Chain \cup 1..MaxRatchet

OlmInit ==
  /\ otk = {KeyOf[c] : c \in Chain} /\ account = otk
  /\ heap = [o \in Object |-> None] /\ sessionCache = None /\ stored = None
  /\ proc = [p \in Proc |-> Rest]
  /\ ratchets = 0 /\ crashes = 0
  /\ usedKeys = {} /\ reused = FALSE /\ met = {} /\ raced = FALSE

-----------------------------------------------------------------------------
At(p, at) == proc[p].at = at
Go(p, at) == proc' = [proc EXCEPT ![p].at = at]

Active == {p \in Proc : proc[p].at \in Working}
Cold == {p \in Active : At(p, "loading") \/ At(p, "accounting") \/ (At(p, "using") /\ proc[p].obj = None)}

\* What a step makes of `raced'.
Watch == raced' = (raced \/ (Cold' # {} /\ Cardinality(Active') > 1))
WatchDrop(p) == raced' = (raced \/ Active \ {p} # {})

\* Objects are garbage when nobody refers to them, and then used anew.
Referred == {sessionCache} \cup {proc[p].obj : p \in Proc}
Fresh == CHOOSE o \in Object : o \notin Referred
HeapIs(h) == heap' = [o \in Object |-> IF o \in Referred' THEN h[o] ELSE None]

\* loadSession(): the cached object, or a look into the store.
Load(p) ==
  proc' = [proc EXCEPT ![p].at = IF sessionCache # None THEN "using" ELSE "loading", ![p].obj = sessionCache]

\* Mutant: what is stored is not looked at.
LoadedNothing(p) ==
  /\ At(p, "loading")
  /\ Go(p, "using")
  /\ Watch
  /\ UNCHANGED <<sessions, ourKeys, ratchets, crashes, usedKeys, reused, met>> /\ HeapIs(heap)

\* The pickle is back: it becomes an object of its own, and the cached one,
\* even if another call has put one there meanwhile.
Loaded(p) ==
  /\ At(p, "loading")
  /\ LET o == IF stored = None THEN None ELSE Fresh
     IN /\ sessionCache' = IF o = None THEN sessionCache ELSE o
        /\ proc' = [proc EXCEPT ![p].at = "using", ![p].obj = o]
        /\ HeapIs(IF o = None THEN heap ELSE [heap EXCEPT ![o] = stored])
  /\ Watch
  /\ UNCHANGED <<stored, ourKeys, ratchets, crashes, usedKeys, reused, met>>

\* Mutant: the pickle is not stored.
KeepUnsaved(p, o, s, cached) ==
  /\ sessionCache' = cached /\ stored' = IF stored = None THEN s ELSE stored
  /\ proc' = [proc EXCEPT ![p] = [Rest EXCEPT !.at = "storing"]]
  /\ HeapIs([heap EXCEPT ![o] = s])

\* The call's object holds the session, and its pickle is stored.
Keep(p, o, s, cached) ==
  /\ sessionCache' = cached /\ stored' = s
  /\ proc' = [proc EXCEPT ![p] = [Rest EXCEPT !.at = "storing"]]
  /\ HeapIs([heap EXCEPT ![o] = s])

-----------------------------------------------------------------------------
\* encryptForPeer()

Encrypt(e) ==
  /\ At(e, "idle")
  /\ Load(e)
  /\ Watch
  /\ UNCHANGED <<ourKeys, sessions, ratchets, crashes, usedKeys, reused, met>> /\ HeapIs(heap)

\* Without a session one is started from the bundle, and replaces what is in
\* the cache by now.  A session that has not sent since it was started by the
\* peer, or since the peer answered, makes a ratchet key first.
Ratchet(e) ==
  /\ At(e, "using")
  /\ LET o == IF proc[e].obj = None THEN Fresh ELSE proc[e].obj
         new == proc[e].obj = None \/ heap[o].ratchet = 0
         r == IF new THEN ratchets + 1 ELSE heap[o].ratchet
         n == IF new THEN 1 ELSE heap[o].sent + 1
         c == IF proc[e].obj = None THEN r ELSE heap[o].chain
     IN /\ r <= MaxRatchet /\ n <= MaxSent
        /\ ratchets' = IF new THEN r ELSE ratchets
        /\ Keep(e, o, [chain |-> c, ratchet |-> r, sent |-> n],
                IF proc[e].obj = None THEN o ELSE sessionCache)
        /\ usedKeys' = usedKeys \cup {<<r, n>>}
        /\ reused' = (reused \/ <<r, n>> \in usedKeys)
        /\ met' = met \cup {c}
  /\ Watch
  /\ UNCHANGED <<ourKeys, crashes>>

\* The write is done: the ciphertext is handed on, and the next may come.
EncryptReturns(e) ==
  /\ At(e, "storing")
  /\ proc' = [proc EXCEPT ![e] = Rest]
  /\ UNCHANGED <<ourKeys, sessions, ratchets, crashes, olmHistory>> /\ HeapIs(heap)

-----------------------------------------------------------------------------
\* decryptFromPeer(), and the recovery around it

\* A frame arrives; one that failed and is delivered again is another frame here.
\* An answer needs something to answer.
Arrive(f) ==
  /\ At(f, "idle")
  /\ ChainOf[f] \in Chain \cup met
  /\ proc' = [proc EXCEPT ![f] = [at |-> IF sessionCache # None THEN "using" ELSE "loading",
                                  obj |-> sessionCache, again |-> FALSE]]
  /\ Watch
  /\ UNCHANGED <<ourKeys, sessions, ratchets, crashes, usedKeys, reused, met>> /\ HeapIs(heap)

Startable(f) == f \in Prekey /\ KeyOf[ChainOf[f]] \in otk \cup {Fallback}

\* The session decrypts; an answer makes this device send under a new key.
DecryptOk(f) ==
  LET o == proc[f].obj
  IN /\ At(f, "using") /\ o # None /\ heap[o].chain = ChainOf[f]
     /\ Keep(f, o, IF ChainOf[f] \in Chain THEN heap[o]
                   ELSE [heap[o] EXCEPT !.ratchet = 0, !.sent = 0], sessionCache)
     /\ Watch
     /\ UNCHANGED <<ourKeys, ratchets, crashes, usedKeys, reused, met>>

\* Mutant: the account is stored with the next top-up.
BootstrapKept(f) ==
  /\ At(f, "using") /\ proc[f].obj = None /\ Startable(f)
  /\ otk' = otk \ ({KeyOf[ChainOf[f]]} \ {Fallback})
  /\ Go(f, "accounting")
  /\ Watch
  /\ UNCHANGED <<account, sessions, ratchets, crashes, usedKeys, reused, met>> /\ HeapIs(heap)

\* No session, and a first message: a session is started, the key used up, and
\* the account without it stored ...
Bootstrap(f) ==
  /\ At(f, "using") /\ proc[f].obj = None /\ Startable(f)
  /\ otk' = otk \ ({KeyOf[ChainOf[f]]} \ {Fallback})
  /\ account' = otk'
  /\ Go(f, "accounting")
  /\ Watch
  /\ UNCHANGED <<sessions, ratchets, crashes, usedKeys, reused, met>> /\ HeapIs(heap)

\* ... and then the session.
Bootstrapped(f) ==
  /\ At(f, "accounting")
  /\ Keep(f, Fresh, [chain |-> ChainOf[f], ratchet |-> 0, sent |-> 0], Fresh)
  /\ met' = met \cup {ChainOf[f]}
  /\ Watch
  /\ UNCHANGED <<ourKeys, ratchets, crashes, usedKeys, reused>>

\* Nothing fits: forgetPeerDevice() and another try, unless this is it.
DecryptFails(f) ==
  LET o == proc[f].obj
  IN /\ At(f, "using")
     /\ IF o = None THEN ~Startable(f)
        ELSE heap[o].chain # ChainOf[f]
     /\ IF proc[f].again
        THEN /\ proc' = [proc EXCEPT ![f] = [Rest EXCEPT !.at = "failed"]]
             /\ UNCHANGED <<sessionCache, stored, raced>>
        ELSE /\ proc' = [proc EXCEPT ![f] = [at |-> "forgetting", obj |-> None, again |-> TRUE]]
             /\ sessionCache' = None /\ stored' = None
             /\ WatchDrop(f)
     /\ UNCHANGED <<ourKeys, ratchets, crashes, usedKeys, reused, met>> /\ HeapIs(heap)

\* The session is forgotten and the devices of the peer are refreshed.
TryAgain(f) ==
  /\ At(f, "forgetting")
  /\ Load(f)
  /\ Watch
  /\ UNCHANGED <<ourKeys, sessions, ratchets, crashes, usedKeys, reused, met>> /\ HeapIs(heap)

DecryptReturns(f) ==
  /\ At(f, "storing")
  /\ proc' = [proc EXCEPT ![f] = [Rest EXCEPT !.at = "read"]]
  /\ UNCHANGED <<ourKeys, sessions, ratchets, crashes, olmHistory>> /\ HeapIs(heap)

-----------------------------------------------------------------------------
\* A promoted tab drops its cache.
ClearCaches ==
  /\ sessionCache' = None
  /\ WatchDrop(None)
  /\ UNCHANGED <<stored, ourKeys, proc, ratchets, crashes, usedKeys, reused, met>> /\ HeapIs(heap)

\* The page is closed or reloaded.  A frame that was in hand is not handled
\* again, as its reservation is stored.
Crash ==
  /\ crashes < MaxCrashes /\ crashes' = crashes + 1
  /\ otk' = account /\ sessionCache' = None
  /\ proc' = [p \in Proc |-> IF p \in Active /\ p \in Inbound THEN [Rest EXCEPT !.at = "cut"]
                             ELSE IF p \in Enc THEN Rest ELSE proc[p]]
  /\ UNCHANGED <<account, stored, ratchets, olmHistory>> /\ HeapIs(heap)

Step(p) ==
  \/ Loaded(p)
  \/ p \in Enc /\ (Ratchet(p) \/ EncryptReturns(p))
  \/ p \in Inbound /\ (DecryptOk(p) \/ Bootstrap(p) \/ Bootstrapped(p) \/ DecryptFails(p)
                      \/ TryAgain(p) \/ DecryptReturns(p))

OlmNext ==
  \/ \E p \in Proc : Step(p)
  \/ \E e \in Enc : Encrypt(e)
  \/ \E f \in Inbound : Arrive(f)
  \/ ClearCaches \/ Crash

OlmSpec == OlmInit /\ [][OlmNext]_olmVars

-----------------------------------------------------------------------------
\* A message key is used once: reloads, promotions and recoveries do not take
\* the ratchet back.  The exception is an overlap of two calls of which one had
\* no cached session, where both load the pickle and each goes on from it, or
\* one whose session was dropped under it.
NoKeyReuse == reused => raced

\* With the same exception, the cached object is what the store has, so that a
\* tab that loads it later goes on where this one stopped.
StoredIsCurrent == ~raced /\ sessionCache # None => stored = heap[sessionCache]

\* With the same exception, the calls work on the stored session as if they came
\* one by one: none starts from what another has replaced meanwhile, and none
\* encrypts under a used key (olm-adapter.ts loadSession, persistSession).
OneByOne == INSTANCE AtomicSession WITH session <- stored, made <- ratchets, used <- usedKeys
CallsAreAtomic == OneByOne!Spec

\* A key of ours that a stored session was started with is gone from the stored
\* account: whoever reads the store later cannot start the session again.
KeyErased ==
  stored # None /\ stored.chain \in Chain => KeyOf[stored.chain] \notin account \ {Fallback}

\* Another session than the frame's was started, or another's frame came, which
\* drops the session it does not fit.
Crossed(f) == met \ {ChainOf[f]} # {} \/ \E g \in Inbound : ChainOf[g] # ChainOf[f] /\ ~At(g, "idle")

\* A frame that is given up met a collision of that kind, a crash, another
\* session, or came before the one that starts its own.
FailureHasReason ==
  [][\A f \in Inbound : At(f, "using") /\ At(f, "failed")'
       => raced \/ crashes > 0 \/ Crossed(f) \/ (f \notin Prekey /\ ChainOf[f] \notin met)]_olmVars
================================================================================
