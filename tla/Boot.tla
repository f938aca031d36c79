-------------------------------- MODULE Boot ---------------------------------
(***************************************************************************)
(* Starting up (bootstrap() and activatePrimary() of src/index.ts): the    *)
(* tabs of one user on one device adopt what an older version left in the  *)
(* store (src/store/scoped-adapter.ts), find or make the device id         *)
(* (src/device.ts) and the Olm account (src/crypto/olm-adapter.ts), and    *)
(* the primary tab registers the device and keeps its pool of one-time     *)
(* keys filled (src/key_bundle.ts, src/transport/http.ts).                 *)
(*                                                                         *)
(* All tabs run the same code over one store, up to the lock side by side. *)
(* A page may be closed or reloaded at every await.  The account is in the *)
(* memory of each tab that has loaded it and, as a whole, in the store.    *)
(*                                                                         *)
(* An account is its identity key and the private one-time keys it holds.  *)
(* Device ids, identities and one-time keys are numbered as they are made; *)
(* number 0 is what the older version left.  Who holds the lock is taken   *)
(* from module TabLock without the browser's delays, and a lock is only    *)
(* taken over from a tab whose activation is over.                         *)
(***************************************************************************)
EXTENDS Naturals, FiniteSets

CONSTANTS
  Tab,         \* the tabs of one user on one device
  Target,      \* OTK_TOPUP_TARGET, and the size of a new account's pool
  Watermark,   \* OTK_TOPUP_WATERMARK
  MaxDevices,  \* bound: device ids generated
  MaxKeys,     \* bound: one-time keys generated
  MaxTroubles, \* bound: failures of HTTP and of the network, pages closed or
               \* reloaded, and calls of wipeUserData(), all together
  Upgrade,     \* whether the user may come from an older version
  None

ASSUME CountsAssumption ==
  /\ Target \in Nat \ {0} /\ Watermark \in 1..Target
  /\ MaxDevices \in Nat /\ MaxKeys \in Nat /\ MaxTroubles \in Nat
  /\ Upgrade \subseteq BOOLEAN

Key == {"deviceId", "account"}
DeviceId == 0..MaxDevices
Account == [ident : Nat, otks : SUBSET Nat]

ASSUME NoneAssumption == None \notin Tab /\ None \notin DeviceId /\ None \notin Account

\* The unscoped keys, or those of the user; None where there is none.
Store == [deviceId : DeviceId \cup {None}, account : Account \cup {None}]

VARIABLES
  legacy, scope,   \* the store: the unscoped keys, and those of the user
  stage,           \* where a tab is in bootstrap(), activatePrimary() and after
  todo, copied,    \* migrateLegacyKeys: keys to move, and the value being moved
  id, account,     \* a tab's deviceId and its Account object
  up,              \* connect() has returned to the application
  bundleReuploadAttempted,
  topup, fresh,    \* topUpIfNeeded, and the one-time keys it uploads
  holder,          \* the tab that holds the lock
  registry,        \* the backend: the bundle of each device
  mail,            \* first messages on their way: device and one-time key
  ids, idents, keys,     \* how many of each were made
  troubles,        \* counted for the bound
  \* history
  upgraded,        \* the device had an older version
  half,            \* a half migrated store was taken for a migrated one, or wiped
  clobbered,       \* a tab wrote its value over another that was put there meanwhile
  unsent,          \* an account was stored and its bundle did not reach the backend
  wiped,           \* wipeUserData() was called
  stale            \* a tab stored its Account over one it had not seen

migration == <<stage, todo, copied>>
memory == <<id, account, up, bundleReuploadAttempted>>
pool == <<topup, fresh>>
backend == <<registry, mail>>
made == <<ids, idents, keys>>
history == <<upgraded, half, clobbered, unsent, wiped, stale>>
vars == <<legacy, scope, migration, memory, pool, holder, backend, made, troubles, history>>

Migrating == {"scoping", "listing", "copying", "writing", "clearing"}
Identified == {"minting", "locking", "waiting", "ensuring", "uploading", "connecting", "open", "failed"}
Stage == {"off"} \cup Migrating \cup {"loading", "identifying", "naming"} \cup Identified

TypeOK ==
  /\ legacy \in Store /\ scope \in Store
  /\ stage \in [Tab -> Stage]
  /\ todo \in [Tab -> SUBSET Key] /\ copied \in [Tab -> Store]
  /\ id \in [Tab -> DeviceId \cup {None}]
  /\ account \in [Tab -> Account \cup {None}]
  /\ up \in [Tab -> BOOLEAN] /\ bundleReuploadAttempted \in [Tab -> BOOLEAN]
  /\ topup \in [Tab -> {"idle", "counting", "sending"}] /\ fresh \in [Tab -> SUBSET Nat]
  /\ holder \in Tab \cup {None}
  /\ registry \in [DeviceId -> Account \cup {None}]
  /\ mail \subseteq DeviceId \X Nat
  /\ ids \in DeviceId /\ idents \in Nat /\ keys \in Nat
  /\ troubles \in Nat
  /\ upgraded \in BOOLEAN /\ half \in BOOLEAN /\ clobbered \in BOOLEAN
  /\ unsent \in BOOLEAN /\ wiped \in BOOLEAN /\ stale \in BOOLEAN

Nothing == [deviceId |-> None, account |-> None]
NewKeys(n) == (keys + 1)..(keys + n)

\* What the older version leaves: an id and an account, which is registered.
OldAccount == [ident |-> 0, otks |-> 1..Target]
Old == [deviceId |-> 0, account |-> OldAccount]

Init ==
  /\ upgraded \in Upgrade
  /\ legacy = IF upgraded THEN Old ELSE Nothing
  /\ scope = Nothing
  /\ stage = [t \in Tab |-> "off"]
  /\ todo = [t \in Tab |-> {}] /\ copied = [t \in Tab |-> Nothing]
  /\ id = [t \in Tab |-> None] /\ account = [t \in Tab |-> None]
  /\ up = [t \in Tab |-> FALSE] /\ bundleReuploadAttempted = [t \in Tab |-> FALSE]
  /\ topup = [t \in Tab |-> "idle"] /\ fresh = [t \in Tab |-> {}]
  /\ holder = None
  /\ registry = [d \in DeviceId |-> IF upgraded /\ d = 0 THEN OldAccount ELSE None]
  /\ mail = {}
  /\ ids = 0 /\ idents = 0 /\ keys = Target
  /\ troubles = 0
  /\ half = FALSE /\ clobbered = FALSE /\ unsent = FALSE /\ wiped = FALSE /\ stale = FALSE

Go(t, s) == stage' = [stage EXCEPT ![t] = s]
Trouble == troubles < MaxTroubles /\ troubles' = troubles + 1

-----------------------------------------------------------------------------
\* migrateLegacyKeys()

Present(s) == {k \in Key : s[k] # None}

\* Only some keys have been moved, as a page closed in the middle leaves it.
HalfMigrated == Present(scope) # {} /\ Present(legacy) \ Present(scope) # {}

Connect(t) ==
  /\ stage[t] = "off"
  /\ Go(t, "scoping")
  /\ UNCHANGED <<legacy, scope, todo, copied, memory, pool, holder, backend, made, troubles, history>>

\* A scope that is not empty counts as migrated.
ListScope(t) ==
  /\ stage[t] = "scoping"
  /\ Go(t, IF Present(scope) = {} THEN "listing" ELSE "loading")
  /\ half' = (half \/ HalfMigrated)
  /\ UNCHANGED <<legacy, scope, todo, copied, memory, pool, holder, backend, made, troubles>>
  /\ UNCHANGED <<upgraded, clobbered, unsent, wiped, stale>>

ListLegacy(t) ==
  /\ stage[t] = "listing"
  /\ todo' = [todo EXCEPT ![t] = Present(legacy)]
  /\ Go(t, IF Present(legacy) = {} THEN "loading" ELSE "copying")
  /\ UNCHANGED <<legacy, scope, copied, memory, pool, holder, backend, made, troubles, history>>

\* Mutant: one key is enough.
AfterKeyDone(left) == "loading"

\* After the last key the bootstrap goes on.
AfterKey(left) == IF left = {} THEN "loading" ELSE "copying"

\* A key that another tab has moved meanwhile reads as null and is skipped.
ReadLegacy(t, k) ==
  /\ stage[t] = "copying" /\ k \in todo[t]
  /\ IF legacy[k] = None
     THEN /\ todo' = [todo EXCEPT ![t] = @ \ {k}]
          /\ Go(t, AfterKey(todo[t] \ {k}))
          /\ UNCHANGED copied
     ELSE /\ copied' = [copied EXCEPT ![t][k] = legacy[k]]
          /\ Go(t, "writing")
          /\ UNCHANGED todo
  /\ UNCHANGED <<legacy, scope, memory, pool, holder, backend, made, troubles, history>>

\* Mutant: the old key is deleted before the new one is written.
WriteScopeLate(t, k) ==
  /\ stage[t] = "writing" /\ copied[t][k] # None
  /\ legacy' = [legacy EXCEPT ![k] = None]
  /\ scope' = IF legacy[k] = None THEN [scope EXCEPT ![k] = copied[t][k]] ELSE scope
  /\ Go(t, IF legacy[k] = None THEN "clearing" ELSE "writing")
  /\ UNCHANGED <<todo, copied, memory, pool, holder, backend, made, troubles, history>>

WriteScope(t, k) ==
  /\ stage[t] = "writing" /\ copied[t][k] # None
  /\ scope' = [scope EXCEPT ![k] = copied[t][k]]
  /\ clobbered' = (clobbered \/ scope[k] \notin {None, copied[t][k]})
  /\ Go(t, "clearing")
  /\ UNCHANGED <<legacy, todo, copied, memory, pool, holder, backend, made, troubles>>
  /\ UNCHANGED <<upgraded, half, unsent, wiped, stale>>

DeleteLegacy(t, k) ==
  /\ stage[t] = "clearing" /\ copied[t][k] # None
  /\ legacy' = [legacy EXCEPT ![k] = None]
  /\ copied' = [copied EXCEPT ![t][k] = None]
  /\ todo' = [todo EXCEPT ![t] = @ \ {k}]
  /\ Go(t, AfterKey(todo[t] \ {k}))
  /\ UNCHANGED <<scope, memory, pool, holder, backend, made, troubles, history>>

Migrate(t) ==
  \/ ListScope(t)
  \/ ListLegacy(t)
  \/ \E k \in Key : ReadLegacy(t, k) \/ WriteScope(t, k) \/ DeleteLegacy(t, k)

-----------------------------------------------------------------------------
\* The rest of bootstrap()

\* crypto.init()
Load(t) ==
  /\ stage[t] = "loading"
  /\ account' = [account EXCEPT ![t] = scope.account]
  /\ Go(t, "identifying")
  /\ UNCHANGED <<legacy, scope, todo, copied, id, up, bundleReuploadAttempted>>
  /\ UNCHANGED <<pool, holder, backend, made, troubles, history>>

\* Mutant: the id is made anew at every start.
IdentifyAnew(t) ==
  /\ stage[t] = "identifying" /\ ids < MaxDevices
  /\ ids' = ids + 1
  /\ id' = [id EXCEPT ![t] = ids + 1]
  /\ Go(t, "minting")
  /\ UNCHANGED <<legacy, scope, todo, copied, account, up, bundleReuploadAttempted>>
  /\ UNCHANGED <<pool, holder, backend, idents, keys, troubles, history>>

\* loadOrCreateDeviceId() reads the id, or makes one ...
Identify(t) ==
  /\ stage[t] = "identifying"
  /\ IF scope.deviceId # None
     THEN /\ id' = [id EXCEPT ![t] = scope.deviceId]
          /\ Go(t, "minting")
          /\ UNCHANGED ids
     ELSE /\ ids < MaxDevices
          /\ ids' = ids + 1
          /\ id' = [id EXCEPT ![t] = ids + 1]
          /\ Go(t, "naming")
  /\ UNCHANGED <<legacy, scope, todo, copied, account, up, bundleReuploadAttempted>>
  /\ UNCHANGED <<pool, holder, backend, idents, keys, troubles, history>>

\* ... and stores it.
NameIt(t) ==
  /\ stage[t] = "naming"
  /\ scope' = [scope EXCEPT !.deviceId = id[t]]
  /\ clobbered' = (clobbered \/ scope.deviceId # None)
  /\ Go(t, "minting")
  /\ UNCHANGED <<legacy, todo, copied, memory, pool, holder, backend, made, troubles>>
  /\ UNCHANGED <<upgraded, half, unsent, wiped, stale>>

\* getMint(): connect() rejects without a token, or with another user's.
Mint(t) ==
  /\ stage[t] = "minting"
  /\ \/ Go(t, "locking") /\ UNCHANGED troubles
     \/ Go(t, "failed") /\ Trouble
  /\ UNCHANGED <<legacy, scope, todo, copied, memory, pool, holder, backend, made>>
  /\ UNCHANGED history

\* The first tab is primary; to the others connect() returns as well.
FindLock(t) ==
  /\ stage[t] = "locking"
  /\ IF holder = None
     THEN holder' = t /\ Go(t, "ensuring") /\ UNCHANGED up
     ELSE Go(t, "waiting") /\ up' = [up EXCEPT ![t] = TRUE] /\ UNCHANGED holder
  /\ UNCHANGED <<legacy, scope, todo, copied, id, account, bundleReuploadAttempted>>
  /\ UNCHANGED <<pool, backend, made, troubles, history>>

\* The lock is free: the callback of armBackgroundLockWait().  What it reloads
\* are sessions, bundles and conversations; the Account stays as it is.
Promote(t) ==
  /\ stage[t] = "waiting" /\ holder = None
  /\ holder' = t
  /\ Go(t, "ensuring")
  /\ UNCHANGED <<legacy, scope, todo, copied, memory, pool, backend, made, troubles, history>>

\* takeOver(), of a tab that runs or one whose activation failed.
TakeOver(t) ==
  /\ stage[t] = "waiting" /\ holder # None
  /\ stage[holder] \in {"open", "waiting", "failed"}
  /\ holder' = t
  /\ stage' = [s \in Tab |-> IF s = t THEN "ensuring"
                            ELSE IF s = holder /\ stage[s] = "open" THEN "waiting" ELSE stage[s]]
  /\ UNCHANGED <<legacy, scope, todo, copied, memory, pool, backend, made, troubles, history>>

-----------------------------------------------------------------------------
\* activatePrimary()

\* Where an activation that fails leaves the tab: the bootstrap has rejected,
\* or the callback keeps the lock.
Fails(t) == IF up[t] THEN "waiting" ELSE "failed"

\* Mutant: the bundle of a new account is not uploaded.
EnsureQuiet(t) ==
  /\ stage[t] = "ensuring"
  /\ IF account[t] # None \/ scope.account # None
     THEN /\ account' = [account EXCEPT ![t] = IF @ # None THEN @ ELSE scope.account]
          /\ Go(t, "connecting")
          /\ UNCHANGED <<scope, idents, keys>>
     ELSE /\ keys + Target =< MaxKeys
          /\ account' = [account EXCEPT ![t] = [ident |-> idents + 1, otks |-> NewKeys(Target)]]
          /\ scope' = [scope EXCEPT !.account = account'[t]]
          /\ idents' = idents + 1 /\ keys' = keys + Target
          /\ Go(t, "connecting")
  /\ UNCHANGED <<legacy, todo, copied, id, up, bundleReuploadAttempted, pool, holder>>
  /\ UNCHANGED <<backend, ids, troubles, history>>

\* ensureKeyBundle(): the account of the tab, else of the store, else a new
\* one, which is stored before its bundle is uploaded.
Ensure(t) ==
  /\ stage[t] = "ensuring"
  /\ IF account[t] # None \/ scope.account # None
     THEN /\ account' = [account EXCEPT ![t] = IF @ # None THEN @ ELSE scope.account]
          /\ Go(t, "connecting")
          /\ UNCHANGED <<scope, idents, keys>>
     ELSE /\ keys + Target =< MaxKeys
          /\ account' = [account EXCEPT ![t] = [ident |-> idents + 1, otks |-> NewKeys(Target)]]
          /\ scope' = [scope EXCEPT !.account = account'[t]]
          /\ idents' = idents + 1 /\ keys' = keys + Target
          /\ Go(t, "uploading")
  /\ UNCHANGED <<legacy, todo, copied, id, up, bundleReuploadAttempted, pool, holder>>
  /\ UNCHANGED <<backend, ids, troubles, history>>

\* uploadKeyBundle(): the backend has applied it or not, and the answer comes
\* or not.
Upload(t, applied) ==
  /\ stage[t] = "uploading"
  /\ registry' = [registry EXCEPT ![id[t]] = IF applied THEN account[t] ELSE @]
  /\ unsent' = (unsent \/ ~applied)
  /\ \/ applied /\ Go(t, "connecting") /\ UNCHANGED troubles
     \/ Go(t, Fails(t)) /\ Trouble
  /\ UNCHANGED <<legacy, scope, todo, copied, memory, pool, holder, mail, made>>
  /\ UNCHANGED <<upgraded, half, clobbered, wiped, stale>>

\* ws.connect(); a socket that opens starts topUpIfNeeded(), one at a time.
Opens(t) ==
  /\ stage[t] = "connecting"
  /\ \/ /\ Go(t, "open")
        /\ up' = [up EXCEPT ![t] = TRUE]
        /\ topup' = [topup EXCEPT ![t] = IF @ = "idle" THEN "counting" ELSE @]
        /\ UNCHANGED troubles
     \/ /\ Go(t, Fails(t))
        /\ Trouble
        /\ UNCHANGED <<up, topup>>
  /\ UNCHANGED <<legacy, scope, todo, copied, id, account, bundleReuploadAttempted>>
  /\ UNCHANGED <<fresh, holder, backend, made, history>>

\* The socket dropped, and is open again.
Reopens(t) ==
  /\ stage[t] = "open" /\ topup[t] = "idle"
  /\ Trouble
  /\ topup' = [topup EXCEPT ![t] = "counting"]
  /\ UNCHANGED <<legacy, scope, migration, memory, fresh, holder, backend, made>>
  /\ UNCHANGED history

-----------------------------------------------------------------------------
\* The pool of one-time keys

\* Mutant: the account is not stored.
PersistNot(t, acc) ==
  /\ account' = [account EXCEPT ![t] = acc]
  /\ UNCHANGED <<scope, stale>>

\* persistAccount(): the tab's whole Account replaces the stored one.
Persist(t, acc) ==
  /\ account' = [account EXCEPT ![t] = acc]
  /\ scope' = [scope EXCEPT !.account = acc]
  /\ stale' = (stale \/ scope.account # account[t])

Count(t) == Cardinality(registry[id[t]].otks)

\* How many keys are missing.
Need(t) == Target - Count(t)

\* otkCount() has answered: nothing to do, or the keys are made and stored.
Counted(t) ==
  /\ topup[t] = "counting" /\ registry[id[t]] # None
  /\ IF Count(t) >= Watermark
     THEN /\ topup' = [topup EXCEPT ![t] = "idle"]
          /\ UNCHANGED <<fresh, account, scope, stale, keys>>
     ELSE /\ keys + Need(t) =< MaxKeys
          /\ keys' = keys + Need(t)
          /\ fresh' = [fresh EXCEPT ![t] = NewKeys(Need(t))]
          /\ Persist(t, [account[t] EXCEPT !.otks = @ \cup NewKeys(Need(t))])
          /\ topup' = [topup EXCEPT ![t] = "sending"]
  /\ UNCHANGED <<legacy, migration, id, up, bundleReuploadAttempted, holder, backend>>
  /\ UNCHANGED <<ids, idents, troubles, upgraded, half, clobbered, unsent, wiped>>

CountFails(t) ==
  /\ topup[t] = "counting"
  /\ IF registry[id[t]] = None THEN UNCHANGED troubles ELSE Trouble
  /\ topup' = [topup EXCEPT ![t] = "idle"]
  /\ UNCHANGED <<legacy, scope, migration, memory, fresh, holder, backend, made>>
  /\ UNCHANGED history

\* topupOtks(): a request that is lost is not repeated.
TopUpSent(t, applied) ==
  /\ topup[t] = "sending"
  /\ registry' = [registry EXCEPT ![id[t]].otks = IF applied THEN @ \cup fresh[t] ELSE @]
  /\ IF applied THEN UNCHANGED troubles ELSE Trouble
  /\ topup' = [topup EXCEPT ![t] = "idle"]
  /\ fresh' = [fresh EXCEPT ![t] = {}]
  /\ UNCHANGED <<legacy, scope, migration, memory, holder, mail, made, history>>

\* A peer claims a key and writes its first message with it.
Claim(d) ==
  /\ registry[d] # None
  /\ \E k \in registry[d].otks :
       /\ registry' = [registry EXCEPT ![d].otks = @ \ {k}]
       /\ mail' = mail \cup {<<d, k>>}
  /\ UNCHANGED <<legacy, scope, migration, memory, pool, holder, made, troubles, history>>

\* decryptFromPeer() of a first message: createInboundSession() spends the
\* key, or finds that the Account of this tab has it not, and throws.
OpenMail(t, k) ==
  /\ stage[t] = "open" /\ <<id[t], k>> \in mail
  /\ mail' = mail \ {<<id[t], k>>}
  /\ IF k \in account[t].otks
     THEN Persist(t, [account[t] EXCEPT !.otks = @ \ {k}])
     ELSE UNCHANGED <<account, scope, stale>>
  /\ UNCHANGED <<legacy, migration, id, up, bundleReuploadAttempted, pool, holder>>
  /\ UNCHANGED <<registry, made, troubles, upgraded, half, clobbered, unsent, wiped>>

\* A peer has no devices any more: reuploadCurrentBundle(), once.  No key of
\* the account is unpublished, so it has none to give; the backend keeps its
\* pool or takes the empty one for it.
Reupload(t, keep) ==
  /\ stage[t] = "open" /\ ~bundleReuploadAttempted[t]
  /\ bundleReuploadAttempted' = [bundleReuploadAttempted EXCEPT ![t] = TRUE]
  /\ registry' = [registry EXCEPT ![id[t]] =
       [ident |-> account[t].ident, otks |-> IF keep /\ @ # None THEN @.otks ELSE {}]]
  /\ UNCHANGED <<legacy, scope, migration, id, account, up, pool, holder, mail, made, troubles, history>>

-----------------------------------------------------------------------------
\* wipeUserData(), which asks to disconnect first.  What was moved but not yet
\* cleared in the old place will be moved again.
WipeUserData ==
  /\ \A t \in Tab : stage[t] = "off"
  /\ Trouble
  /\ wiped' = TRUE
  /\ scope' = Nothing
  /\ half' = (half \/ (Present(legacy) # {} /\ Present(scope) # {}))
  /\ UNCHANGED <<legacy, migration, memory, pool, holder, backend, made>>
  /\ UNCHANGED <<upgraded, clobbered, unsent, stale>>

\* The page is closed or reloaded: only the store is left.
Close(t) ==
  /\ stage[t] # "off"
  /\ Trouble
  /\ Go(t, "off")
  /\ todo' = [todo EXCEPT ![t] = {}] /\ copied' = [copied EXCEPT ![t] = Nothing]
  /\ id' = [id EXCEPT ![t] = None] /\ account' = [account EXCEPT ![t] = None]
  /\ up' = [up EXCEPT ![t] = FALSE]
  /\ bundleReuploadAttempted' = [bundleReuploadAttempted EXCEPT ![t] = FALSE]
  /\ topup' = [topup EXCEPT ![t] = "idle"] /\ fresh' = [fresh EXCEPT ![t] = {}]
  /\ holder' = IF holder = t THEN None ELSE holder
  /\ unsent' = (unsent \/ stage[t] = "uploading")
  /\ UNCHANGED <<legacy, scope, backend, made, upgraded, half, clobbered, wiped, stale>>

Boot(t) == Connect(t) \/ Migrate(t) \/ Load(t) \/ Identify(t) \/ NameIt(t) \/ Mint(t) \/ FindLock(t)
Activate(t) ==
  \/ Promote(t) \/ TakeOver(t) \/ Ensure(t) \/ Opens(t) \/ Reopens(t)
  \/ \E applied \in BOOLEAN : Upload(t, applied)
KeepPool(t) ==
  \/ Counted(t) \/ CountFails(t)
  \/ \E b \in BOOLEAN : TopUpSent(t, b) \/ Reupload(t, b)
  \/ \E k \in 1..MaxKeys : OpenMail(t, k)

Next ==
  \/ \E t \in Tab : Boot(t) \/ Activate(t) \/ KeepPool(t) \/ Close(t)
  \/ \E d \in DeviceId : Claim(d)
  \/ WipeUserData

Spec == Init /\ [][Next]_vars

-----------------------------------------------------------------------------
\* No two tabs met in the store while it was being set up.
Undisturbed == ~half /\ ~clobbered

\* Migration moves, it never drops: the id and the account that the older
\* version left are in the old place or in the user's, in whatever order the
\* tabs list, copy, write and delete, and wherever a page is closed; unless a
\* tab wrote over another's value or the user's data were wiped.
NothingMisplaced ==
  upgraded /\ ~clobbered /\ ~stale /\ ~wiped =>
    /\ 0 \in {legacy.deviceId, scope.deviceId}
    /\ \/ legacy.account = OldAccount
       \/ scope.account # None /\ scope.account.ident = 0

\* A tab past loadOrCreateDeviceId() goes by the id in the store: the tabs of
\* an install are one device, unless two of them generated or moved an id at
\* the same time.
OneDevice ==
  ~clobbered => \A t \in Tab : stage[t] \in Identified => id[t] = scope.deviceId

\* An upgrade keeps the device: a tab that has the lock goes by the id and the
\* identity of the older version, unless it took a half migrated store for a
\* migrated one.
Adopted ==
  upgraded /\ Undisturbed /\ ~stale /\ ~wiped =>
    \A t \in Tab : stage[t] \in Identified =>
      /\ id[t] = 0
      /\ account[t] # None => account[t].ident = 0

\* A tab whose socket is open is registered under its id with its identity, so
\* that peers can reach it, unless an account was stored whose bundle never
\* reached the backend: no later start repairs that.
OpenIsRegistered ==
  Undisturbed /\ ~unsent /\ ~stale =>
    \A t \in Tab : stage[t] = "open" =>
      registry[id[t]] # None /\ registry[id[t]].ident = account[t].ident

\* The backend hands out only one-time keys whose private half is in the
\* stored account, and it stays there until the message that names it is
\* opened, through crashes at any point; unless a tab stored an Account it had
\* loaded before another tab changed it.
KeysHeld ==
  Undisturbed /\ ~stale /\ scope.deviceId # None /\ scope.account # None =>
    LET d == scope.deviceId
    IN registry[d] # None /\ registry[d].ident = scope.account.ident =>
         /\ registry[d].otks \subseteq scope.account.otks
         /\ {k \in 1..MaxKeys : <<d, k>> \in mail} \subseteq scope.account.otks

\* What the comment on refreshSharedStateForPromotion() says: what another tab
\* may have changed while this one was secondary is read again, so that the
\* Account of the primary is the stored one.
PromotedIsFresh ==
  Undisturbed => \A t \in Tab : stage[t] = "open" /\ holder = t => account[t] = scope.account
=============================================================================
