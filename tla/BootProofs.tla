----------------------------- MODULE BootProofs ------------------------------
(***************************************************************************)
(* Proofs about Boot: for any number of tabs and of troubles, which device *)
(* and which identity a tab goes by, that peers can reach it, and that the *)
(* private half of every key handed out is kept.                           *)
(***************************************************************************)
EXTENDS Boot, FiniteSetTheorems, TLAPS

-----------------------------------------------------------------------------
\* The inductive invariant

Booting == {"off", "scoping", "listing", "copying", "writing", "clearing", "loading"}
Moving == {"copying", "writing", "clearing"}
Active == {"ensuring", "uploading", "connecting", "open"}
Beyond(t) == stage[t] \in {"loading", "identifying", "naming"} \cup Identified

\* What a tab holds where it is; only the holder of the lock is active.
TabOf(t) ==
  /\ stage[t] \in {"naming"} \cup Identified => id[t] # None
  /\ stage[t] \in {"uploading", "connecting", "open"} => account[t] # None
  /\ stage[t] \in Booting => id[t] = None /\ account[t] = None
  /\ topup[t] # "idle" => stage[t] \in Identified /\ account[t] # None
  /\ topup[t] = "sending" => registry[id[t]] # None
  /\ stage[t] \in Active => holder = t
TabInv == \A t \in Tab : TabOf(t)

\* What is moved is what the older version left, one key at a time.
CopyInv ==
  /\ \A k \in Key : legacy[k] \in {None, Old[k]}
  /\ \A t \in Tab, k \in Key : copied[t][k] \in {None, Old[k]}
  /\ \A t \in Tab : stage[t] \notin {"writing", "clearing"} => copied[t] = Nothing
  /\ \A t \in Tab, j, k \in Key : copied[t][j] # None /\ copied[t][k] # None => j = k
  /\ upgraded \/ legacy = Nothing

\* What was made so far: a new id or key is in use nowhere.
Made(acc) == acc # None => acc.otks \subseteq 1..keys

MadeInv ==
  /\ keys >= Target
  /\ \A t \in Tab : id[t] # None => id[t] <= ids
  /\ scope.deviceId # None => scope.deviceId <= ids
  /\ \A d \in DeviceId : registry[d] # None => d <= ids
  /\ Made(scope.account)
  /\ \A t \in Tab : Made(account[t]) /\ fresh[t] \subseteq 1..keys
  /\ \A d \in DeviceId : Made(registry[d])
  /\ \A p \in mail : registry[p[1]] # None /\ p[2] \in 1..keys

\* A key in the user's place is the older version's, as far as it was used.
Moved(k) == IF k = "deviceId" THEN scope.deviceId = 0
            ELSE scope.account # None /\ scope.account.ident = 0

\* A key is cleared in the old place after it came to the new one, and the
\* tabs have the identity that is stored.
Written(t) == \A k \in Key : stage[t] = "clearing" /\ copied[t][k] # None => Moved(k)
Owned(t) == account[t] # None => scope.account # None /\ account[t].ident = scope.account.ident
Kept == \A k \in Key : legacy[k] # None \/ Moved(k)

IdentityInv ==
  ~clobbered /\ ~stale =>
    /\ \A t \in Tab : Written(t) /\ Owned(t)
    /\ upgraded /\ ~wiped => Kept

\* The keys of a device that peers have, or have written to.
Published(d) == (IF registry[d] = None THEN {} ELSE registry[d].otks) \cup {k \in Nat : <<d, k>> \in mail}

\* The older version's store, wherever its two keys are: a tab that is through
\* has both.
Through(t) ==
  /\ stage[t] \in Moving => \A k \in Key \ todo[t] : Moved(k)
  /\ Beyond(t) => \A k \in Key : Moved(k)

OldStore ==
  /\ \A k \in Key : Moved(k) \/ (scope[k] = None /\ legacy[k] # None)
  /\ \A t \in Tab : Through(t)
  /\ \A t \in Tab : stage[t] \notin {"naming", "uploading"}
  /\ registry[0] # None /\ registry[0].ident = 0
  /\ Published(0) \subseteq (IF scope.account = None THEN OldAccount.otks ELSE scope.account.otks)

\* The bundle of a new account is the first of the device.
FirstUpload ==
  \A t \in Tab : stage[t] = "uploading" =>
    /\ account[t] = scope.account /\ registry[id[t]] = None
    /\ \A s \in Tab : topup[s] = "idle"

\* The tabs that name the device are at it each with an id of its own.
Naming(t) ==
  stage[t] = "naming" =>
    /\ id[t] # scope.deviceId /\ id[t] # 0 /\ registry[id[t]] = None
    /\ \A s \in Tab \ {t} : id[s] # id[t]

\* The stored account is registered under the stored id, or on its way, or its
\* bundle was lost.
Registered ==
  /\ scope.deviceId # None /\ scope.account = None => registry[scope.deviceId] = None
  /\ scope.account # None =>
       /\ scope.deviceId # None
       /\ registry[scope.deviceId] # None => registry[scope.deviceId].ident = scope.account.ident
       /\ registry[scope.deviceId] # None \/ unsent \/ \E t \in Tab : stage[t] = "uploading"
       /\ Published(scope.deviceId) \subseteq scope.account.otks

\* A store of the user's own.
NewStore ==
  /\ legacy = Nothing /\ \A t \in Tab : stage[t] \notin Moving
  /\ scope.deviceId # 0
  /\ Registered
  /\ \A t \in Tab : Naming(t)
  /\ FirstUpload

\* A key is claimed once, and those on their way to the backend are in the
\* stored account and nobody else's.
ClaimedOnce ==
  \A d \in DeviceId : registry[d] # None => \A k \in registry[d].otks : <<d, k>> \notin mail
Sound(t) ==
  topup[t] = "sending" =>
    /\ fresh[t] \subseteq scope.account.otks /\ fresh[t] \cap Published(id[t]) = {}
    /\ \A s \in Tab \ {t} : topup[s] = "sending" => fresh[s] \cap fresh[t] = {}
PoolInv == ClaimedOnce /\ \A t \in Tab : Sound(t)

StoreInv == Undisturbed /\ ~stale => (OldStore \/ NewStore) /\ PoolInv

BootInv == TypeOK /\ TabInv /\ CopyInv /\ MadeInv /\ OneDevice /\ IdentityInv /\ StoreInv

-----------------------------------------------------------------------------
\* Types

LEMMA NothingIsStore == Nothing \in Store /\ Old \in Store /\ OldAccount \in Account
BY CountsAssumption DEF Nothing, Old, OldAccount, Store, Account, DeviceId

\* A store, and a tab's copy of one, with another value for one of its keys.
LEMMA StoreWith ==
  ASSUME NEW s \in Store, NEW k \in Key, NEW v,
         k = "deviceId" => v \in DeviceId \cup {None},
         k = "account" => v \in Account \cup {None}
  PROVE  [s EXCEPT ![k] = v] \in Store
BY DEF Store, Key

LEMMA CopyWith ==
  ASSUME NEW c \in [Tab -> Store], NEW t \in Tab, NEW k \in Key, NEW v,
         k = "deviceId" => v \in DeviceId \cup {None},
         k = "account" => v \in Account \cup {None}
  PROVE  [c EXCEPT ![t][k] = v] = [c EXCEPT ![t] = [c[t] EXCEPT ![k] = v]]
         /\ [c EXCEPT ![t][k] = v] \in [Tab -> Store]
<1>1. [c EXCEPT ![t][k] = v] = [c EXCEPT ![t] = [c[t] EXCEPT ![k] = v]]
  OBVIOUS
<1>2. [c[t] EXCEPT ![k] = v] \in Store
  BY StoreWith
<1> QED BY <1>1, <1>2

LEMMA StoreKey ==
  ASSUME NEW s \in Store, NEW k \in Key
  PROVE  /\ k = "deviceId" => s[k] \in DeviceId \cup {None}
         /\ k = "account" => s[k] \in Account \cup {None}
BY DEF Store, Key

\* How many keys a device has is a number, as they were made one by one.
LEMMA CountIsNat ==
  ASSUME TypeOK, MadeInv, NEW t \in Tab, id[t] # None, registry[id[t]] # None
  PROVE  /\ Count(t) \in Nat
         /\ Count(t) < Watermark => Need(t) \in Nat \ {0} /\ Need(t) <= Target
<1>1. id[t] \in DeviceId /\ keys \in Nat
  BY DEF TypeOK
<1>2. registry[id[t]].otks \subseteq 1..keys
  BY <1>1 DEF MadeInv, Made
<1>3. IsFiniteSet(1..keys)
  BY <1>1, FS_Interval
<1>4. IsFiniteSet(registry[id[t]].otks)
  BY <1>2, <1>3, FS_Subset
<1>5. Count(t) \in Nat
  BY <1>4, FS_CardinalityType DEF Count
<1> QED BY <1>5, CountsAssumption DEF Need

LEMMA PersistTypes ==
  ASSUME TypeOK, NEW t \in Tab, NEW acc \in Account, Persist(t, acc)
  PROVE  scope' \in Store /\ account' \in [Tab -> Account \cup {None}] /\ stale' \in BOOLEAN
<1>1. scope' \in Store
  BY DEF TypeOK, Persist, Store
<1>2. account' \in [Tab -> Account \cup {None}]
  BY DEF TypeOK, Persist
<1>3. stale' \in BOOLEAN
  BY DEF Persist
<1> QED BY <1>1, <1>2, <1>3

LEMMA TypesStep == ASSUME TypeOK, TabInv, MadeInv, [Next]_vars PROVE TypeOK'
<1> USE DEF TypeOK
<1>1. ASSUME NEW t \in Tab, Connect(t) \/ ListScope(t) \/ ListLegacy(t) PROVE TypeOK'
  <2>1. Present(legacy) \subseteq Key
    BY DEF Present
  <2>2. CASE Connect(t)
    BY <2>2 DEF Connect, Go, Stage, Migrating, memory, pool, backend, made, history
  <2>3. CASE ListScope(t)
    BY <2>3 DEF ListScope, Go, Stage, Migrating, memory, pool, backend, made
  <2>4. CASE ListLegacy(t)
    <3>1. stage' \in [Tab -> Stage]
      BY <2>4 DEF ListLegacy, Go, Stage, Migrating
    <3>2. todo' \in [Tab -> SUBSET Key]
      BY <2>1, <2>4 DEF ListLegacy
    <3> QED BY <2>4, <3>1, <3>2 DEF ListLegacy, memory, pool, backend, made, history
  <2> QED BY <1>1, <2>2, <2>3, <2>4
<1>2. ASSUME NEW t \in Tab, NEW k \in Key, ReadLegacy(t, k) PROVE TypeOK'
  <2>1. copied' \in [Tab -> Store]
    <3>1. CASE legacy[k] = None
      BY <1>2, <3>1 DEF ReadLegacy
    <3>2. CASE legacy[k] # None
      <4>1. copied' = [copied EXCEPT ![t][k] = legacy[k]]
        BY <1>2, <3>2 DEF ReadLegacy
      <4>2. legacy \in Store /\ copied \in [Tab -> Store]
        OBVIOUS
      <4> HIDE DEF TypeOK
      <4> QED BY <4>1, <4>2, CopyWith, StoreKey
    <3> QED BY <3>1, <3>2
  <2> QED BY <1>2, <2>1 DEF ReadLegacy, AfterKey, Go, Stage, Migrating,
       memory, pool, backend, made, history
<1>3. ASSUME NEW t \in Tab, NEW k \in Key, WriteScope(t, k) PROVE TypeOK'
  <2>1. scope' \in Store
    BY <1>3, StoreWith, StoreKey DEF WriteScope
  <2> QED BY <1>3, <2>1 DEF WriteScope, Go, Stage, Migrating, memory, pool, backend, made
<1>4. ASSUME NEW t \in Tab, NEW k \in Key, DeleteLegacy(t, k) PROVE TypeOK'
  <2>1. legacy' \in Store
    BY <1>4, StoreWith DEF DeleteLegacy
  <2>2. copied' \in [Tab -> Store]
    BY <1>4, CopyWith DEF DeleteLegacy
  <2> QED BY <1>4, <2>1, <2>2 DEF DeleteLegacy, AfterKey, Go, Stage, Migrating,
       memory, pool, backend, made, history
<1>5. ASSUME NEW t \in Tab, Load(t) \/ Identify(t) PROVE TypeOK'
  <2>1. scope.deviceId \in DeviceId \cup {None} /\ scope.account \in Account \cup {None}
    BY DEF Store
  <2>2. CASE Load(t)
    BY <2>1, <2>2 DEF Load, Go, Stage, pool, backend, made, history
  <2>3. CASE Identify(t)
    <3>1. ids < MaxDevices => ids + 1 \in DeviceId
      BY CountsAssumption DEF DeviceId
    <3>2. CASE scope.deviceId # None
      BY <2>1, <2>3, <3>2 DEF Identify, Go, Stage, Identified, pool, backend, history
    <3>3. CASE scope.deviceId = None
      BY <2>3, <3>1, <3>3 DEF Identify, Go, Stage, pool, backend, history
    <3> QED BY <3>2, <3>3
  <2> QED BY <1>5, <2>2, <2>3
<1>6. ASSUME NEW t \in Tab, NameIt(t) PROVE TypeOK'
  <2>1. scope' \in Store
    BY <1>6 DEF NameIt, Store
  <2> QED BY <1>6, <2>1 DEF NameIt, Go, Stage, Identified, memory, pool, backend, made
<1>7. ASSUME NEW t \in Tab, Mint(t) \/ FindLock(t) \/ Promote(t) \/ TakeOver(t) PROVE TypeOK'
  <2>1. CASE Mint(t)
    <3>1. stage' \in [Tab -> Stage] /\ troubles' \in Nat
      BY <2>1 DEF Mint, Trouble, Go, Stage, Identified
    <3> QED BY <2>1, <3>1 DEF Mint, memory, pool, backend, made, history
  <2>2. CASE FindLock(t)
    BY <2>2 DEF FindLock, Go, Stage, Identified, pool, backend, made, history
  <2>3. CASE Promote(t)
    BY <2>3 DEF Promote, Go, Stage, Identified, memory, pool, backend, made, history
  <2>4. CASE TakeOver(t)
    BY <2>4 DEF TakeOver, Stage, Identified, memory, pool, backend, made, history
  <2> QED BY <1>7, <2>1, <2>2, <2>3, <2>4
<1>8. ASSUME NEW t \in Tab, Ensure(t) PROVE TypeOK'
  <2>1. account' \in [Tab -> Account \cup {None}] /\ scope' \in Store /\ idents' \in Nat /\ keys' \in Nat
    <3>1. CASE account[t] # None \/ scope.account # None
      BY <1>8, <3>1 DEF Ensure, Store
    <3>2. CASE ~(account[t] # None \/ scope.account # None)
      <4>1. [ident |-> idents + 1, otks |-> NewKeys(Target)] \in Account
        BY CountsAssumption DEF Account, NewKeys
      <4>2. /\ account' = [account EXCEPT ![t] = [ident |-> idents + 1, otks |-> NewKeys(Target)]]
            /\ scope' = [scope EXCEPT !.account = account'[t]]
            /\ idents' = idents + 1 /\ keys' = keys + Target
        BY <1>8, <3>2 DEF Ensure
      <4>3. account' \in [Tab -> Account \cup {None}] /\ account'[t] \in Account
        BY <4>1, <4>2
      <4>4. scope' \in Store
        BY <4>2, <4>3 DEF Store
      <4>5. idents' \in Nat /\ keys' \in Nat
        BY <4>2, CountsAssumption
      <4> QED BY <4>3, <4>4, <4>5
    <3> QED BY <3>1, <3>2
  <2> QED BY <1>8, <2>1 DEF Ensure, Go, Stage, Identified, pool, backend, history
<1>9. ASSUME NEW t \in Tab, NEW applied \in BOOLEAN, Upload(t, applied) PROVE TypeOK'
  <2>1. registry' \in [DeviceId -> Account \cup {None}]
    BY <1>9 DEF Upload
  <2> QED BY <1>9, <2>1 DEF Upload, Fails, Trouble, Go, Stage, Identified, memory, pool, made
<1>10. ASSUME NEW t \in Tab, Opens(t) \/ Reopens(t) \/ CountFails(t) PROVE TypeOK'
  <2>1. CASE Opens(t)
    <3>1. stage' \in [Tab -> Stage] /\ troubles' \in Nat
      BY <2>1 DEF Opens, Fails, Trouble, Go, Stage, Identified
    <3>2. up' \in [Tab -> BOOLEAN] /\ topup' \in [Tab -> {"idle", "counting", "sending"}]
      BY <2>1 DEF Opens
    <3> QED BY <2>1, <3>1, <3>2 DEF Opens, backend, made, history
  <2>2. CASE Reopens(t)
    BY <2>2 DEF Reopens, Trouble, migration, memory, backend, made, history
  <2>3. CASE CountFails(t)
    BY <2>3 DEF CountFails, Trouble, migration, memory, backend, made, history
  <2> QED BY <1>10, <2>1, <2>2, <2>3
<1>11. ASSUME NEW t \in Tab, Counted(t) PROVE TypeOK'
  <2>1. id[t] # None /\ account[t] \in Account
    BY <1>11 DEF Counted, TabInv, TabOf
  <2>2. CASE Count(t) >= Watermark
    BY <1>11, <2>2 DEF Counted, migration, backend
  <2>3. CASE ~(Count(t) >= Watermark)
    <3>1. Need(t) \in Nat
      BY <1>11, <2>1, <2>3, CountIsNat, CountsAssumption DEF Counted
    <3>2. [account[t] EXCEPT !.otks = @ \cup NewKeys(Need(t))] \in Account /\ NewKeys(Need(t)) \subseteq Nat
      BY <2>1, <3>1 DEF Account, NewKeys
    <3>6. Persist(t, [account[t] EXCEPT !.otks = @ \cup NewKeys(Need(t))])
      BY <1>11, <2>3 DEF Counted
    <3>3. scope' \in Store /\ account' \in [Tab -> Account \cup {None}] /\ stale' \in BOOLEAN
      BY <3>2, <3>6, PersistTypes
    <3>4. keys' \in Nat /\ fresh' \in [Tab -> SUBSET Nat]
      BY <1>11, <2>3, <3>1, <3>2 DEF Counted
    <3>5. topup' \in [Tab -> {"idle", "counting", "sending"}]
      BY <1>11 DEF Counted
    <3> QED BY <1>11, <3>3, <3>4, <3>5 DEF Counted, migration, backend
  <2> QED BY <2>2, <2>3
<1>12. ASSUME NEW t \in Tab, NEW b \in BOOLEAN, TopUpSent(t, b) PROVE TypeOK'
  <2>1. registry' \in [DeviceId -> Account \cup {None}]
    <3>1. id[t] \in DeviceId /\ registry[id[t]] \in Account
      BY <1>12 DEF TopUpSent, TabInv, TabOf
    <3>2. [registry[id[t]] EXCEPT !.otks = IF b THEN @ \cup fresh[t] ELSE @] \in Account
      BY <3>1 DEF Account
    <3>3. registry' = [registry EXCEPT ![id[t]] = [registry[id[t]] EXCEPT !.otks = IF b THEN @ \cup fresh[t] ELSE @]]
      BY <1>12 DEF TopUpSent
    <3> QED BY <3>2, <3>3
  <2> QED BY <1>12, <2>1 DEF TopUpSent, Trouble, migration, memory, made, history
<1>13. ASSUME NEW d \in DeviceId, Claim(d) PROVE TypeOK'
  <2>1. PICK k \in registry[d].otks :
          /\ registry' = [registry EXCEPT ![d].otks = @ \ {k}]
          /\ mail' = mail \cup {<<d, k>>}
    BY <1>13 DEF Claim
  <2>2. registry[d] \in Account /\ k \in Nat
    BY <1>13 DEF Claim, Account
  <2>3. [registry[d] EXCEPT !.otks = @ \ {k}] \in Account
    BY <2>2 DEF Account
  <2>4. registry' = [registry EXCEPT ![d] = [registry[d] EXCEPT !.otks = @ \ {k}]]
    BY <2>1
  <2>5. registry' \in [DeviceId -> Account \cup {None}]
    BY <2>3, <2>4
  <2> QED BY <1>13, <2>1, <2>2, <2>5 DEF Claim, migration, memory, pool, made, history
<1>14. ASSUME NEW t \in Tab, NEW k \in 1..MaxKeys, OpenMail(t, k) PROVE TypeOK'
  <2>1. account[t] \in Account
    BY <1>14 DEF OpenMail, TabInv, TabOf
  <2>2. [account[t] EXCEPT !.otks = @ \ {k}] \in Account
    BY <2>1 DEF Account
  <2>3. scope' \in Store /\ account' \in [Tab -> Account \cup {None}] /\ stale' \in BOOLEAN
    <3>1. CASE k \in account[t].otks
      <4>1. Persist(t, [account[t] EXCEPT !.otks = @ \ {k}])
        BY <1>14, <3>1 DEF OpenMail
      <4> QED BY <2>2, <4>1, PersistTypes
    <3>2. CASE k \notin account[t].otks
      BY <1>14, <3>2 DEF OpenMail
    <3> QED BY <3>1, <3>2
  <2> QED BY <1>14, <2>3 DEF OpenMail, migration, pool, made
<1>15. ASSUME NEW t \in Tab, NEW keep \in BOOLEAN, Reupload(t, keep) PROVE TypeOK'
  <2>1. account[t] \in Account /\ id[t] \in DeviceId
    BY <1>15 DEF Reupload, TabInv, TabOf, Identified
  <2>2. [ident |-> account[t].ident, otks |-> IF keep /\ registry[id[t]] # None THEN registry[id[t]].otks ELSE {}] \in Account
    BY <2>1 DEF Account
  <2>3. registry' = [registry EXCEPT ![id[t]] =
          [ident |-> account[t].ident, otks |-> IF keep /\ registry[id[t]] # None THEN registry[id[t]].otks ELSE {}]]
    BY <1>15 DEF Reupload
  <2>4. registry' \in [DeviceId -> Account \cup {None}]
    BY <2>1, <2>2, <2>3
  <2>5. bundleReuploadAttempted' \in [Tab -> BOOLEAN]
    BY <1>15 DEF Reupload
  <2> QED BY <1>15, <2>4, <2>5 DEF Reupload, migration, pool, made, history
<1>16. CASE WipeUserData
  BY <1>16, NothingIsStore DEF WipeUserData, Trouble, migration, memory, pool, backend, made
<1>17. ASSUME NEW t \in Tab, Close(t) PROVE TypeOK'
  BY <1>17, NothingIsStore DEF Close, Trouble, Go, Stage, backend, made
<1>18. CASE UNCHANGED vars
  BY <1>18 DEF vars, migration, memory, pool, backend, made, history
<1> QED BY <1>1, <1>2, <1>3, <1>4, <1>5, <1>6, <1>7, <1>8, <1>9, <1>10, <1>11, <1>12, <1>13, <1>14,
     <1>15, <1>16, <1>17, <1>18 DEF Next, Boot, Migrate, Activate, KeepPool

-----------------------------------------------------------------------------
\* What the steps do to the accounts

LEMMA ClaimFacts ==
  ASSUME TypeOK, NEW d \in DeviceId, Claim(d)
  PROVE  /\ registry[d] \in Account /\ registry'[d] \in Account
         /\ registry'[d].ident = registry[d].ident
         /\ \A e \in DeviceId \ {d} : registry'[e] = registry[e]
         /\ \E k \in registry[d].otks :
              registry'[d].otks = registry[d].otks \ {k} /\ mail' = mail \cup {<<d, k>>}
<1>1. PICK k \in registry[d].otks :
        /\ registry' = [registry EXCEPT ![d].otks = @ \ {k}]
        /\ mail' = mail \cup {<<d, k>>}
  BY DEF Claim
<1>2. registry \in [DeviceId -> Account \cup {None}] /\ registry[d] \in Account
  BY DEF TypeOK, Claim
<1> DEFINE acc == [registry[d] EXCEPT !.otks = registry[d].otks \ {k}]
<1>3. acc \in Account /\ acc.ident = registry[d].ident /\ acc.otks = registry[d].otks \ {k}
  BY <1>2 DEF Account
<1>4. registry' = [registry EXCEPT ![d] = acc]
  BY <1>1
<1> HIDE DEF acc
<1> QED BY <1>1, <1>2, <1>3, <1>4

LEMMA TopUpFacts ==
  ASSUME TypeOK, TabInv, NEW t \in Tab, NEW b \in BOOLEAN, TopUpSent(t, b)
  PROVE  /\ id[t] \in DeviceId
         /\ registry[id[t]] \in Account /\ registry'[id[t]] \in Account
         /\ registry'[id[t]].ident = registry[id[t]].ident
         /\ registry'[id[t]].otks = registry[id[t]].otks \cup (IF b THEN fresh[t] ELSE {})
         /\ \A e \in DeviceId \ {id[t]} : registry'[e] = registry[e]
<1>1. id[t] \in DeviceId /\ registry[id[t]] \in Account /\ registry \in [DeviceId -> Account \cup {None}]
  BY DEF TopUpSent, TabInv, TabOf, TypeOK
<1> DEFINE new == IF b THEN registry[id[t]].otks \cup fresh[t] ELSE registry[id[t]].otks
           acc == [registry[id[t]] EXCEPT !.otks = new]
<1>2. new = registry[id[t]].otks \cup (IF b THEN fresh[t] ELSE {}) /\ new \subseteq Nat
  BY <1>1 DEF TypeOK, Account
<1>3. registry' = [registry EXCEPT ![id[t]] = acc]
  BY DEF TopUpSent
<1> HIDE DEF new
<1>4. acc \in Account /\ acc.ident = registry[id[t]].ident /\ acc.otks = new
  BY <1>1, <1>2 DEF Account
<1> HIDE DEF acc
<1> QED BY <1>1, <1>2, <1>3, <1>4

LEMMA ReuploadFacts ==
  ASSUME TypeOK, TabInv, NEW t \in Tab, NEW keep \in BOOLEAN, Reupload(t, keep)
  PROVE  /\ id[t] \in DeviceId /\ account[t] \in Account
         /\ registry'[id[t]] \in Account
         /\ registry'[id[t]].ident = account[t].ident
         /\ registry'[id[t]].otks \subseteq (IF registry[id[t]] = None THEN {} ELSE registry[id[t]].otks)
         /\ \A e \in DeviceId \ {id[t]} : registry'[e] = registry[e]
<1>1. id[t] \in DeviceId /\ account[t] \in Account /\ registry \in [DeviceId -> Account \cup {None}]
  BY DEF Reupload, TabInv, TabOf, TypeOK, Identified
<1> DEFINE new == IF keep /\ registry[id[t]] # None THEN registry[id[t]].otks ELSE {}
           acc == [ident |-> account[t].ident, otks |-> new]
<1>2. new \subseteq (IF registry[id[t]] = None THEN {} ELSE registry[id[t]].otks) /\ new \subseteq Nat
  BY <1>1 DEF Account
<1>3. registry' = [registry EXCEPT ![id[t]] = acc]
  BY DEF Reupload
<1> HIDE DEF new
<1>4. acc \in Account /\ acc.ident = account[t].ident /\ acc.otks = new
  BY <1>1, <1>2 DEF Account
<1> HIDE DEF acc
<1> QED BY <1>1, <1>2, <1>3, <1>4

\* The tab's account, changed, is the stored one.
Persisted(t, otks) ==
  /\ account[t] \in Account /\ account'[t] \in Account
  /\ account'[t].ident = account[t].ident /\ account'[t].otks = otks
  /\ \A s \in Tab \ {t} : account'[s] = account[s]
  /\ scope'.account = account'[t] /\ scope'.deviceId = scope.deviceId
  /\ stale => stale'
  /\ ~stale' => account[t] = scope.account

LEMMA PersistFacts ==
  ASSUME TypeOK, NEW t \in Tab, account[t] # None, NEW otks \in SUBSET Nat,
         Persist(t, [account[t] EXCEPT !.otks = otks])
  PROVE  Persisted(t, otks)
<1> DEFINE acc == [account[t] EXCEPT !.otks = otks]
<1>1. account[t] \in Account /\ account \in [Tab -> Account \cup {None}]
  BY DEF TypeOK
<1>2. acc \in Account /\ acc.ident = account[t].ident /\ acc.otks = otks
  BY <1>1 DEF Account
<1>3. Persist(t, acc)
  OBVIOUS
<1> HIDE DEF acc
<1>4. scope'.account = acc /\ scope'.deviceId = scope.deviceId
  BY <1>3 DEF Persist, TypeOK, Store
<1>5. account'[t] = acc /\ \A s \in Tab \ {t} : account'[s] = account[s]
  BY <1>1, <1>3 DEF Persist
<1>6. (stale => stale') /\ (~stale' => account[t] = scope.account)
  BY <1>3 DEF Persist
<1> QED BY <1>1, <1>2, <1>4, <1>5, <1>6 DEF Persisted

LEMMA OpenMailFacts ==
  ASSUME TypeOK, TabInv, NEW t \in Tab, NEW k \in Nat, OpenMail(t, k)
  PROVE  UNCHANGED <<account, scope, stale>> \/ Persisted(t, account[t].otks \ {k})
<1>1. account[t] # None /\ account[t] \in Account
  BY DEF OpenMail, TabInv, TabOf, TypeOK
<1>2. CASE k \in account[t].otks
  <2>1. Persist(t, [account[t] EXCEPT !.otks = account[t].otks \ {k}])
    BY <1>2 DEF OpenMail
  <2>2. account[t].otks \ {k} \in SUBSET Nat
    BY <1>1 DEF Account
  <2> QED BY <1>1, <2>1, <2>2, PersistFacts
<1>3. CASE k \notin account[t].otks
  BY <1>3 DEF OpenMail
<1> QED BY <1>2, <1>3

\* New keys, in the account of a tab and on their way.
Replenished(t) ==
  \E n \in Nat :
    /\ keys' = keys + n
    /\ Persisted(t, account[t].otks \cup NewKeys(n))
    /\ fresh'[t] = NewKeys(n)
    /\ \A s \in Tab \ {t} : fresh'[s] = fresh[s]
    /\ topup'[t] = "sending"

LEMMA CountedFacts ==
  ASSUME TypeOK, TabInv, MadeInv, NEW t \in Tab, Counted(t)
  PROVE  /\ topup[t] = "counting" /\ id[t] \in DeviceId /\ registry[id[t]] # None
         /\ \A s \in Tab \ {t} : topup'[s] = topup[s]
         /\ \/ topup'[t] = "idle" /\ UNCHANGED <<fresh, account, scope, stale, keys>>
            \/ Replenished(t)
<1>1. /\ topup[t] = "counting" /\ id[t] \in DeviceId /\ registry[id[t]] # None
      /\ id[t] # None /\ account[t] # None /\ account[t] \in Account
      /\ topup \in [Tab -> {"idle", "counting", "sending"}] /\ fresh \in [Tab -> SUBSET Nat] /\ keys \in Nat
  BY DEF Counted, TabInv, TabOf, TypeOK
<1>2. \A s \in Tab \ {t} : topup'[s] = topup[s]
  BY <1>1 DEF Counted
<1>3. CASE Count(t) >= Watermark
  BY <1>1, <1>2, <1>3 DEF Counted
<1>4. CASE ~(Count(t) >= Watermark)
  <2>1. Need(t) \in Nat
    BY <1>1, <1>4, CountIsNat, CountsAssumption
  <2>2. Persist(t, [account[t] EXCEPT !.otks = account[t].otks \cup NewKeys(Need(t))])
    BY <1>4 DEF Counted
  <2>3. account[t].otks \cup NewKeys(Need(t)) \in SUBSET Nat
    BY <1>1, <2>1 DEF Account, NewKeys
  <2>4. Persisted(t, account[t].otks \cup NewKeys(Need(t)))
    BY <1>1, <2>2, <2>3, PersistFacts
  <2>5. /\ keys' = keys + Need(t) /\ fresh' = [fresh EXCEPT ![t] = NewKeys(Need(t))]
        /\ topup'[t] = "sending"
    BY <1>1, <1>4 DEF Counted
  <2> QED BY <1>1, <1>2, <2>1, <2>4, <2>5 DEF Replenished
<1> QED BY <1>3, <1>4

\* The other tabs, when one does something; the one that the lock is taken from
\* is secondary then.
Stays(s) ==
  /\ stage'[s] = stage[s] \/ (stage[s] = "open" /\ stage'[s] = "waiting")
  /\ todo'[s] = todo[s] /\ copied'[s] = copied[s]
  /\ id'[s] = id[s] /\ account'[s] = account[s]
  /\ topup'[s] = topup[s] /\ fresh'[s] = fresh[s]

LEMMA OthersStay ==
  ASSUME TypeOK, TabInv, MadeInv, NEW t \in Tab, Boot(t) \/ Activate(t) \/ KeepPool(t) \/ Close(t), NEW s \in Tab \ {t}
  PROVE  Stays(s)
<1> USE DEF TypeOK
<1>1. CASE Boot(t)
  <2>1. CASE Connect(t) \/ ListScope(t) \/ ListLegacy(t)
    BY <2>1 DEF Connect, ListScope, ListLegacy, Go, memory, pool, Stays
  <2>2. CASE \E k \in Key : ReadLegacy(t, k)
    BY <2>2 DEF ReadLegacy, Go, memory, pool, Stays
  <2>3. CASE \E k \in Key : WriteScope(t, k) \/ DeleteLegacy(t, k)
    BY <2>3 DEF WriteScope, DeleteLegacy, Go, memory, pool, Stays
  <2>4. CASE Load(t) \/ Identify(t) \/ NameIt(t)
    BY <2>4 DEF Load, Identify, NameIt, Go, memory, pool, Stays
  <2>5. CASE Mint(t) \/ FindLock(t)
    BY <2>5 DEF Mint, FindLock, Go, memory, pool, Stays
  <2> QED BY <1>1, <2>1, <2>2, <2>3, <2>4, <2>5 DEF Boot, Migrate
<1>2. CASE Activate(t)
  <2>1. CASE Promote(t) \/ TakeOver(t)
    BY <2>1 DEF Promote, TakeOver, Go, memory, pool, Stays
  <2>2. CASE Ensure(t)
    BY <2>2 DEF Ensure, Go, pool, Stays
  <2>3. CASE Opens(t) \/ Reopens(t)
    BY <2>3 DEF Opens, Reopens, Go, migration, memory, Stays
  <2>4. CASE \E applied \in BOOLEAN : Upload(t, applied)
    BY <2>4 DEF Upload, Go, memory, pool, Stays
  <2> QED BY <1>2, <2>1, <2>2, <2>3, <2>4 DEF Activate
<1>3. CASE KeepPool(t)
  <2>1. CASE Counted(t)
    <3>1. CASE UNCHANGED <<fresh, account>>
      BY <2>1, <3>1 DEF Counted, migration, Stays
    <3>2. CASE Replenished(t)
      BY <2>1, <3>2, CountedFacts DEF Counted, Replenished, Persisted, migration, Stays
    <3> QED BY <2>1, <3>1, <3>2, CountedFacts
  <2>2. CASE CountFails(t)
    BY <2>2 DEF CountFails, migration, memory, Stays
  <2>3. CASE \E b \in BOOLEAN : TopUpSent(t, b)
    BY <2>3 DEF TopUpSent, migration, memory, Stays
  <2>4. CASE \E b \in BOOLEAN : Reupload(t, b)
    BY <2>4 DEF Reupload, migration, pool, Stays
  <2>5. ASSUME NEW k \in 1..MaxKeys, OpenMail(t, k) PROVE Stays(s)
    <3>1. k \in Nat
      BY CountsAssumption
    <3> QED BY <2>5, <3>1, OpenMailFacts DEF OpenMail, Persisted, migration, pool, Stays
  <2> QED BY <1>3, <2>1, <2>2, <2>3, <2>4, <2>5 DEF KeepPool
<1>4. CASE Close(t)
  BY <1>4 DEF Close, Go, Stays
<1> QED BY <1>1, <1>2, <1>3, <1>4


LEMMA RegistryStays ==
  ASSUME TypeOK, TabInv, [Next]_vars, NEW d \in DeviceId, registry[d] # None
  PROVE  registry'[d] # None
<1>1. ASSUME NEW t \in Tab, NEW applied \in BOOLEAN, Upload(t, applied) PROVE registry'[d] # None
  BY <1>1 DEF Upload, TypeOK, TabInv, TabOf
<1>2. ASSUME NEW t \in Tab, NEW b \in BOOLEAN, TopUpSent(t, b) PROVE registry'[d] # None
  <2>1. CASE d = id[t]
    BY <1>2, <2>1, TopUpFacts, NoneAssumption
  <2>2. CASE d # id[t]
    BY <1>2, <2>2, TopUpFacts
  <2> QED BY <2>1, <2>2
<1>3. ASSUME NEW e \in DeviceId, Claim(e) PROVE registry'[d] # None
  <2>1. CASE d = e
    BY <1>3, <2>1, ClaimFacts, NoneAssumption
  <2>2. CASE d # e
    BY <1>3, <2>2, ClaimFacts
  <2> QED BY <2>1, <2>2
<1>4. ASSUME NEW t \in Tab, NEW keep \in BOOLEAN, Reupload(t, keep) PROVE registry'[d] # None
  <2>1. CASE d = id[t]
    BY <1>4, <2>1, ReuploadFacts, NoneAssumption
  <2>2. CASE d # id[t]
    BY <1>4, <2>2, ReuploadFacts
  <2> QED BY <2>1, <2>2
<1>5. CASE UNCHANGED registry
  BY <1>5
<1>6. ASSUME NEW t \in Tab, Boot(t) PROVE UNCHANGED registry
  BY <1>6 DEF Boot, Connect, Migrate, ListScope, ListLegacy, ReadLegacy, WriteScope, DeleteLegacy,
     Load, Identify, NameIt, Mint, FindLock, backend
<1>7. ASSUME NEW t \in Tab, Promote(t) \/ TakeOver(t) \/ Ensure(t) \/ Opens(t) \/ Reopens(t) PROVE UNCHANGED registry
  BY <1>7 DEF Promote, TakeOver, Ensure, Opens, Reopens, backend
<1>8. ASSUME NEW t \in Tab, Counted(t) \/ CountFails(t) \/ Close(t) \/ (\E k \in 1..MaxKeys : OpenMail(t, k))
      PROVE  UNCHANGED registry
  BY <1>8 DEF Counted, CountFails, Close, OpenMail, backend
<1>9. CASE WipeUserData \/ UNCHANGED vars
  BY <1>9 DEF WipeUserData, vars, backend
<1> QED BY <1>1, <1>2, <1>3, <1>4, <1>5, <1>6, <1>7, <1>8, <1>9 DEF Next, Activate, KeepPool

\* The lock is not taken from a tab whose activation is under way.
LEMMA HolderStays ==
  ASSUME TypeOK, TabInv, MadeInv, NEW t \in Tab, Boot(t) \/ Activate(t) \/ KeepPool(t) \/ Close(t),
         NEW s \in Tab \ {t}, stage'[s] \in Active
  PROVE  holder' = s
<1>1. stage'[s] = stage[s] /\ stage[s] \in Active
  BY OthersStay DEF Stays, Active
<1>2. holder = s /\ s # None
  BY <1>1, NoneAssumption DEF TabInv, TabOf
<1>3. CASE FindLock(t) \/ Promote(t)
  BY <1>2, <1>3 DEF FindLock, Promote
<1>4. CASE TakeOver(t)
  <2>1. stage[s] = "open" /\ stage'[s] = "waiting"
    BY <1>1, <1>2, <1>4 DEF TakeOver, Active
  <2> QED BY <1>1, <2>1
<1>5. CASE Close(t)
  BY <1>2, <1>5 DEF Close
<1>6. CASE UNCHANGED holder
  BY <1>2, <1>6
<1>7. Boot(t) => FindLock(t) \/ UNCHANGED holder
  BY DEF Boot, Connect, Migrate, ListScope, ListLegacy, ReadLegacy, WriteScope, DeleteLegacy,
     Load, Identify, NameIt, Mint
<1>8. Activate(t) => Promote(t) \/ TakeOver(t) \/ UNCHANGED holder
  BY DEF Activate, Ensure, Opens, Reopens, Upload
<1>9. KeepPool(t) => UNCHANGED holder
  BY DEF KeepPool, Counted, CountFails, TopUpSent, Reupload, OpenMail
<1> QED BY <1>3, <1>4, <1>5, <1>6, <1>7, <1>8, <1>9

\* The tab that does something.
LEMMA TabActs ==
  ASSUME TypeOK, TabInv, MadeInv, NEW t \in Tab, Boot(t) \/ Activate(t) \/ KeepPool(t) \/ Close(t), [Next]_vars
  PROVE  TabOf(t)'
<1> USE DEF TypeOK, TabInv, TabOf
<1>1. CASE Boot(t)
  <2>1. CASE Connect(t) \/ Migrate(t)
    BY <1>1, <2>1 DEF Connect, Migrate, ListScope, ListLegacy, ReadLegacy, WriteScope, DeleteLegacy, AfterKey,
       Go, memory, pool, Booting, Identified, Active
  <2>2. CASE Load(t) \/ NameIt(t) \/ Mint(t)
    BY <2>2 DEF Load, NameIt, Mint, Go, memory, pool, backend, Booting, Identified, Active
  <2>3. CASE Identify(t)
    <3>1. ids < MaxDevices => ids + 1 # None
      BY NoneAssumption, CountsAssumption DEF DeviceId
    <3>2. id'[t] # None
      BY <2>3, <3>1 DEF Identify
    <3> QED BY <2>3, <3>2 DEF Identify, Go, pool, backend, Booting, Identified, Active
  <2>4. CASE FindLock(t)
    BY <2>4 DEF FindLock, Go, pool, backend, Booting, Identified, Active
  <2> QED BY <1>1, <2>1, <2>2, <2>3, <2>4 DEF Boot
<1>2. CASE Promote(t)
  BY <1>2 DEF Promote, Go, memory, pool, backend, Booting, Identified, Active
<1>3. CASE TakeOver(t)
  BY <1>3 DEF TakeOver, memory, pool, backend, Booting, Identified, Active
<1>4. CASE Ensure(t)
  <2>1. [ident |-> idents + 1, otks |-> NewKeys(Target)] \in Account
    BY CountsAssumption DEF Account, NewKeys
  <2>2. account'[t] # None
    BY <1>4, <2>1, NoneAssumption DEF Ensure
  <2> QED BY <1>4, <2>2 DEF Ensure, Go, pool, backend, Booting, Identified, Active
<1>5. ASSUME NEW applied \in BOOLEAN, Upload(t, applied) PROVE TabOf(t)'
  <2>1. id[t] \in DeviceId
    BY <1>5 DEF Upload, Identified
  <2>2. registry[id[t]] # None => registry'[id[t]] # None
    BY <2>1, RegistryStays
  <2> QED BY <1>5, <2>2 DEF Upload, Fails, Go, memory, pool, Booting, Identified, Active
<1>6. CASE Opens(t) \/ Reopens(t)
  BY <1>6 DEF Opens, Reopens, Fails, Go, migration, memory, backend, Booting, Identified, Active
<1>7. CASE Counted(t)
  <2>1. /\ UNCHANGED <<stage, id, holder, registry>> /\ stage[t] \in Identified
    BY <1>7 DEF Counted, migration, backend
  <2>2. account'[t] # None
    BY <1>7, CountedFacts, NoneAssumption DEF Replenished, Persisted
  <2>3. registry[id[t]] # None
    BY <1>7, CountedFacts
  <2> QED BY <2>1, <2>2, <2>3 DEF Booting, Identified
<1>8. CASE CountFails(t)
  BY <1>8 DEF CountFails, migration, memory, backend
<1>9. ASSUME NEW b \in BOOLEAN, TopUpSent(t, b) \/ Reupload(t, b) PROVE TabOf(t)'
  <2>1. topup'[t] = "sending" => registry'[id[t]] # None
    BY <1>9, RegistryStays DEF Identified, TopUpSent, Reupload, pool
  <2> QED BY <1>9, <2>1 DEF TopUpSent, Reupload, migration, memory, pool
<1>10. ASSUME NEW k \in 1..MaxKeys, OpenMail(t, k) PROVE TabOf(t)'
  <2>1. k \in Nat
    BY CountsAssumption
  <2>2. account'[t] # None
    BY <1>10, <2>1, OpenMailFacts, NoneAssumption DEF OpenMail, Persisted
  <2> QED BY <1>10, <2>2 DEF OpenMail, migration, pool, Booting
<1>11. CASE Close(t)
  BY <1>11 DEF Close, Go, Booting, Identified, Active
<1> QED BY <1>1, <1>2, <1>3, <1>4, <1>5, <1>6, <1>7, <1>8, <1>9, <1>10, <1>11 DEF Activate, KeepPool

LEMMA TabStep == ASSUME TypeOK, TabInv, MadeInv, [Next]_vars PROVE TabInv'
<1>1. ASSUME NEW t \in Tab, Boot(t) \/ Activate(t) \/ KeepPool(t) \/ Close(t), NEW s \in Tab PROVE TabOf(s)'
  <2>1. CASE s = t
    BY <1>1, <2>1, TabActs
  <2>2. CASE s # t
    <3>1. Stays(s)
      BY <1>1, <2>2, OthersStay
    <3>2. stage'[s] \in Active => holder' = s
      BY <1>1, <2>2, HolderStays
    <3>3. topup'[s] = "sending" => registry'[id[s]] # None
      BY <3>1, RegistryStays DEF Stays, TypeOK, TabInv, TabOf
    <3> QED BY <3>1, <3>2, <3>3 DEF Stays, TabInv, TabOf, Booting, Identified
  <2> QED BY <2>1, <2>2
<1>2. ASSUME NEW d \in DeviceId, Claim(d), NEW s \in Tab PROVE TabOf(s)'
  <2>1. topup[s] = "sending" => registry'[id[s]] # None
    BY RegistryStays DEF TypeOK, TabInv, TabOf
  <2> QED BY <1>2, <2>1 DEF Claim, TabInv, TabOf, migration, memory, pool
<1>3. CASE WipeUserData \/ UNCHANGED vars
  BY <1>3 DEF WipeUserData, vars, TabInv, TabOf, migration, memory, pool, backend
<1> QED BY <1>1, <1>2, <1>3 DEF Next, TabInv

-----------------------------------------------------------------------------
\* Moving the keys

LEMMA KeyCases == Key = {"deviceId", "account"} /\ Old["deviceId"] = 0 /\ Old["account"] = OldAccount
                  /\ \A k \in Key : Nothing[k] = None
BY DEF Key, Old, Nothing

LEMMA Cleared ==
  ASSUME NEW s \in Store, NEW k \in Key, \A j \in Key : s[j] = None \/ j = k
  PROVE  [s EXCEPT ![k] = None] = Nothing
<1> DEFINE c == [s EXCEPT ![k] = None]
<1>1. c \in Store
  BY StoreWith
<1>2. c.deviceId = None /\ c.account = None
  BY DEF Store, Key
<1> HIDE DEF c
<1>3. c = Nothing
  BY <1>1, <1>2 DEF Store, Nothing
<1> QED BY <1>3 DEF c

\* Nobody moves a key.
Unmoved ==
  /\ UNCHANGED <<legacy, copied, upgraded>>
  /\ \A s \in Tab : stage'[s] \in {"writing", "clearing"} <=> stage[s] \in {"writing", "clearing"}

LEMMA CopyStays == ASSUME CopyInv, Unmoved PROVE CopyInv'
BY DEF CopyInv, Unmoved

LEMMA UnmovedStep ==
  ASSUME TypeOK, TabInv, MadeInv, NEW t \in Tab,
         \/ Connect(t) \/ ListScope(t) \/ ListLegacy(t) \/ Load(t) \/ Identify(t) \/ NameIt(t) \/ Mint(t) \/ FindLock(t)
         \/ Activate(t) \/ KeepPool(t)
  PROVE  Unmoved
<1> USE DEF TypeOK
<1>1. CASE Connect(t) \/ ListScope(t) \/ ListLegacy(t) \/ Load(t)
  BY <1>1 DEF Connect, ListScope, ListLegacy, Load, Go, history, Unmoved
<1>2. CASE Identify(t) \/ NameIt(t) \/ Mint(t) \/ FindLock(t)
  BY <1>2 DEF Identify, NameIt, Mint, FindLock, Go, history, Unmoved
<1>3. CASE Promote(t) \/ TakeOver(t) \/ Ensure(t)
  BY <1>3 DEF Promote, TakeOver, Ensure, Go, history, Unmoved
<1>4. CASE Opens(t) \/ Reopens(t)
  BY <1>4 DEF Opens, Reopens, Fails, Go, migration, history, Unmoved
<1>5. CASE \E applied \in BOOLEAN : Upload(t, applied)
  BY <1>5 DEF Upload, Fails, Go, Unmoved
<1>6. CASE KeepPool(t)
  BY <1>6 DEF KeepPool, Counted, CountFails, TopUpSent, Reupload, OpenMail, migration, history, Unmoved
<1> QED BY <1>1, <1>2, <1>3, <1>4, <1>5, <1>6 DEF Activate

LEMMA CopyStep == ASSUME TypeOK, TabInv, MadeInv, CopyInv, [Next]_vars PROVE CopyInv'
<1> USE DEF TypeOK
<1>1. ASSUME NEW t \in Tab, NEW k \in Key, ReadLegacy(t, k) PROVE CopyInv'
  <2>1. CASE legacy[k] = None
    BY <1>1, <2>1, CopyStays DEF ReadLegacy, AfterKey, Go, history, Unmoved
  <2>2. CASE legacy[k] # None
    <3>1. copied' = [copied EXCEPT ![t] = [copied[t] EXCEPT ![k] = legacy[k]]]
      BY <1>1, <2>2 DEF ReadLegacy
    <3>2. copied[t] = Nothing
      BY <1>1 DEF ReadLegacy, CopyInv
    <3>3. \A j \in Key : copied'[t][j] = IF j = k THEN Old[k] ELSE None
      BY <2>2, <3>1, <3>2, KeyCases DEF CopyInv, Nothing
    <3>4. \A s \in Tab \ {t} : copied'[s] = copied[s]
      BY <3>1
    <3>5. UNCHANGED <<legacy, upgraded>> /\ stage' = [stage EXCEPT ![t] = "writing"]
      BY <1>1, <2>2 DEF ReadLegacy, Go, history
    <3>6. ASSUME NEW s \in Tab, NEW j \in Key PROVE copied'[s][j] \in {None, Old[j]}
      <4>1. CASE s = t
        BY <3>3, <4>1
      <4>2. CASE s # t
        BY <3>4, <4>2 DEF CopyInv
      <4> QED BY <4>1, <4>2
    <3>7. \A s \in Tab : stage'[s] \notin {"writing", "clearing"} => copied'[s] = Nothing
      BY <3>4, <3>5 DEF CopyInv
    <3>8. \A s \in Tab, i, j \in Key : copied'[s][i] # None /\ copied'[s][j] # None => i = j
      BY <3>3, <3>4 DEF CopyInv
    <3> QED BY <3>5, <3>6, <3>7, <3>8 DEF CopyInv
  <2> QED BY <2>1, <2>2
<1>2. ASSUME NEW t \in Tab, NEW k \in Key, WriteScope(t, k) PROVE CopyInv'
  BY <1>2, CopyStays DEF WriteScope, Go, Unmoved
<1>3. ASSUME NEW t \in Tab, NEW k \in Key, DeleteLegacy(t, k) PROVE CopyInv'
  <2>1. copied' = [copied EXCEPT ![t] = [copied[t] EXCEPT ![k] = None]] /\ legacy' = [legacy EXCEPT ![k] = None]
    BY <1>3 DEF DeleteLegacy
  <2>2. copied[t][k] # None
    BY <1>3 DEF DeleteLegacy
  <2>3. \A j \in Key : copied[t][j] = None \/ j = k
    BY <2>2 DEF CopyInv
  <2>4. copied'[t] = Nothing
    <3>1. copied[t] \in Store
      OBVIOUS
    <3>2. [copied[t] EXCEPT ![k] = None] = Nothing
      BY <2>3, <3>1, Cleared
    <3> QED BY <2>1, <3>2
  <2>5. \A s \in Tab \ {t} : copied'[s] = copied[s]
    BY <2>1
  <2>6. UNCHANGED upgraded /\ \A s \in Tab \ {t} : stage'[s] = stage[s]
    BY <1>3 DEF DeleteLegacy, Go, history
  <2>7. \A j \in Key : legacy'[j] = None \/ legacy'[j] = legacy[j]
    BY <2>1 DEF Store, Key
  <2>8. \A s \in Tab, j \in Key : copied'[s][j] \in {None, Old[j]}
    BY <2>4, <2>5, KeyCases DEF CopyInv
  <2>9. \A s \in Tab : stage'[s] \notin {"writing", "clearing"} => copied'[s] = Nothing
    BY <2>4, <2>5, <2>6 DEF CopyInv
  <2>10. \A s \in Tab, i, j \in Key : copied'[s][i] # None /\ copied'[s][j] # None => i = j
    BY <2>4, <2>5, KeyCases DEF CopyInv
  <2>11. upgraded' \/ legacy' = Nothing
    BY <2>1, <2>6, KeyCases, NothingIsStore, Cleared DEF CopyInv
  <2> QED BY <2>7, <2>8, <2>9, <2>10, <2>11 DEF CopyInv
<1>4. ASSUME NEW t \in Tab, Close(t) PROVE CopyInv'
  BY <1>4, KeyCases DEF Close, Go, CopyInv
<1>5. ASSUME NEW d \in DeviceId, Claim(d) PROVE CopyInv'
  BY <1>5, CopyStays DEF Claim, migration, history, Unmoved
<1>6. CASE WipeUserData \/ UNCHANGED vars
  BY <1>6, CopyStays DEF WipeUserData, vars, migration, history, Unmoved
<1>7. ASSUME NEW t \in Tab, Boot(t) \/ Activate(t) \/ KeepPool(t) PROVE CopyInv'
  BY <1>1, <1>2, <1>3, <1>7, UnmovedStep, CopyStays DEF Boot, Migrate
<1> QED BY <1>4, <1>5, <1>6, <1>7 DEF Next

-----------------------------------------------------------------------------
\* What was made so far

\* Nobody makes a key, an account or an id.
Unmade == UNCHANGED <<scope, id, account, fresh, registry, mail, keys, ids>>

LEMMA MadeStays == ASSUME MadeInv, Unmade PROVE MadeInv'
BY DEF MadeInv, Made, Unmade

LEMMA UnmadeStep ==
  ASSUME NEW t \in Tab,
         \/ Connect(t) \/ ListScope(t) \/ ListLegacy(t) \/ (\E k \in Key : ReadLegacy(t, k) \/ DeleteLegacy(t, k))
         \/ Mint(t) \/ FindLock(t) \/ Promote(t) \/ TakeOver(t) \/ Opens(t) \/ Reopens(t) \/ CountFails(t)
  PROVE  Unmade
<1>1. CASE Connect(t) \/ ListScope(t) \/ ListLegacy(t) \/ (\E k \in Key : ReadLegacy(t, k) \/ DeleteLegacy(t, k))
  BY <1>1 DEF Connect, ListScope, ListLegacy, ReadLegacy, DeleteLegacy, memory, pool, backend, made, Unmade
<1>2. CASE Mint(t) \/ FindLock(t) \/ Promote(t) \/ TakeOver(t)
  BY <1>2 DEF Mint, FindLock, Promote, TakeOver, memory, pool, backend, made, Unmade
<1>3. CASE Opens(t) \/ Reopens(t) \/ CountFails(t)
  BY <1>3 DEF Opens, Reopens, CountFails, memory, backend, made, Unmade
<1> QED BY <1>1, <1>2, <1>3

LEMMA KeysGrow ==
  ASSUME TypeOK, NEW n \in Nat
  PROVE  1..keys \subseteq 1..(keys + n) /\ NewKeys(n) \subseteq 1..(keys + n)
BY DEF TypeOK, NewKeys

LEMMA MadeStep == ASSUME TypeOK, TabInv, CopyInv, MadeInv, [Next]_vars PROVE MadeInv'
<1> USE DEF MadeInv, Made
<1>1. ASSUME NEW t \in Tab, NEW k \in Key, WriteScope(t, k) PROVE MadeInv'
  <2>1. scope' = [scope EXCEPT ![k] = copied[t][k]] /\ copied[t][k] = Old[k]
    BY <1>1 DEF WriteScope, CopyInv
  <2>2. scope'.deviceId # None => scope'.deviceId <= ids
    BY <2>1, KeyCases DEF TypeOK, Store, Key, DeviceId
  <2>3. scope'.account # None => scope'.account.otks \subseteq 1..keys
    <3>1. OldAccount.otks \subseteq 1..keys
      BY CountsAssumption DEF TypeOK, OldAccount
    <3> QED BY <2>1, <3>1, KeyCases DEF TypeOK, Store, Key
  <2> QED BY <1>1, <2>2, <2>3 DEF WriteScope, memory, pool, backend, made
<1>2. ASSUME NEW t \in Tab, Load(t) PROVE MadeInv'
  BY <1>2 DEF Load, TypeOK, pool, backend, made
<1>3. ASSUME NEW t \in Tab, Identify(t) PROVE MadeInv'
  <2>1. CASE scope.deviceId # None
    BY <1>3, <2>1 DEF Identify, TypeOK, pool, backend
  <2>2. CASE scope.deviceId = None
    <3>1. ids' = ids + 1 /\ ids \in Nat
      BY <1>3, <2>2, CountsAssumption DEF Identify, TypeOK, DeviceId
    <3>2. \A s \in Tab : id'[s] # None => id'[s] <= ids'
      BY <1>3, <2>2, <3>1 DEF Identify, TypeOK, DeviceId
    <3>3. \A d \in DeviceId : registry[d] # None => d <= ids'
      BY <3>1 DEF DeviceId
    <3> QED BY <1>3, <2>2, <3>1, <3>2, <3>3 DEF Identify, pool, backend
  <2> QED BY <2>1, <2>2
<1>4. ASSUME NEW t \in Tab, NameIt(t) PROVE MadeInv'
  <2>1. scope'.deviceId = id[t] /\ scope'.account = scope.account
    BY <1>4 DEF NameIt, TypeOK, Store
  <2> QED BY <1>4, <2>1 DEF NameIt, memory, pool, backend, made
<1>5. ASSUME NEW t \in Tab, Ensure(t) PROVE MadeInv'
  <2>1. CASE account[t] # None \/ scope.account # None
    BY <1>5, <2>1 DEF Ensure, TypeOK, pool, backend
  <2>2. CASE ~(account[t] # None \/ scope.account # None)
    <3> DEFINE acc == [ident |-> idents + 1, otks |-> NewKeys(Target)]
    <3>1. keys' = keys + Target /\ acc.otks = NewKeys(Target)
      BY <1>5, <2>2 DEF Ensure
    <3>2. account' = [account EXCEPT ![t] = acc]
      BY <1>5, <2>2 DEF Ensure
    <3>3. scope' = [scope EXCEPT !.account = account'[t]]
      BY <1>5, <2>2 DEF Ensure
    <3>4. 1..keys \subseteq 1..keys' /\ NewKeys(Target) \subseteq 1..keys' /\ keys' >= Target
      BY <3>1, KeysGrow, CountsAssumption DEF TypeOK
    <3> HIDE DEF acc
    <3>5. account'[t] = acc /\ scope'.account = acc /\ scope'.deviceId = scope.deviceId
      BY <3>2, <3>3 DEF TypeOK, Store
    <3>6. \A s \in Tab : account'[s] # None => account'[s].otks \subseteq 1..keys'
      BY <3>1, <3>2, <3>4, <3>5 DEF TypeOK
    <3> QED BY <1>5, <3>1, <3>4, <3>5, <3>6 DEF Ensure, pool, backend
  <2> QED BY <2>1, <2>2
<1>6. ASSUME NEW t \in Tab, NEW applied \in BOOLEAN, Upload(t, applied) PROVE MadeInv'
  <2>1. id[t] \in DeviceId /\ id[t] <= ids
    BY <1>6 DEF Upload, TypeOK, TabInv, TabOf, Identified
  <2>2. registry' = [registry EXCEPT ![id[t]] = IF applied THEN account[t] ELSE registry[id[t]]]
    BY <1>6 DEF Upload
  <2>3. \A d \in DeviceId : registry'[d] # None => d <= ids /\ registry'[d].otks \subseteq 1..keys
    BY <2>1, <2>2 DEF TypeOK
  <2>4. \A p \in mail : registry'[p[1]] # None
    BY <1>6, <2>2 DEF Upload, TypeOK, TabInv, TabOf
  <2> QED BY <1>6, <2>3, <2>4 DEF Upload, memory, pool, made
<1>7. ASSUME NEW t \in Tab, Counted(t) PROVE MadeInv'
  <2>1. UNCHANGED <<registry, mail, id, ids>>
    BY <1>7 DEF Counted, backend
  <2>2. CASE UNCHANGED <<fresh, account, scope, stale, keys>>
    BY <2>1, <2>2
  <2>3. CASE Replenished(t)
    <3>1. PICK n \in Nat :
            /\ keys' = keys + n
            /\ Persisted(t, account[t].otks \cup NewKeys(n))
            /\ fresh'[t] = NewKeys(n)
            /\ \A s \in Tab \ {t} : fresh'[s] = fresh[s]
      BY <2>3 DEF Replenished
    <3>2. 1..keys \subseteq 1..keys' /\ NewKeys(n) \subseteq 1..keys' /\ keys' >= Target
      BY <3>1, KeysGrow, CountsAssumption DEF TypeOK
    <3>3. account[t] # None /\ account'[t].otks \subseteq 1..keys'
      BY <3>1, <3>2, NoneAssumption DEF Persisted
    <3>4. \A s \in Tab : (account'[s] # None => account'[s].otks \subseteq 1..keys') /\ fresh'[s] \subseteq 1..keys'
      BY <3>1, <3>2, <3>3 DEF Persisted
    <3>5. scope'.account.otks \subseteq 1..keys' /\ scope'.deviceId = scope.deviceId
      BY <3>1, <3>3 DEF Persisted
    <3> QED BY <2>1, <3>2, <3>4, <3>5
  <2> QED BY <1>7, <2>2, <2>3, CountedFacts
<1>8. ASSUME NEW t \in Tab, NEW b \in BOOLEAN, TopUpSent(t, b) PROVE MadeInv'
  <2>1. /\ registry[id[t]] # None /\ registry'[id[t]] # None
        /\ registry'[id[t]].otks \subseteq registry[id[t]].otks \cup fresh[t]
        /\ id[t] \in DeviceId
        /\ \A e \in DeviceId \ {id[t]} : registry'[e] = registry[e]
    BY <1>8, TopUpFacts, NoneAssumption
  <2>2. \A d \in DeviceId : registry'[d] # None => d <= ids /\ registry'[d].otks \subseteq 1..keys
    BY <2>1
  <2>3. \A p \in mail : registry'[p[1]] # None
    BY <2>1 DEF TypeOK
  <2>4. UNCHANGED <<mail, scope, id, account, ids, keys>> /\ \A s \in Tab : fresh'[s] \subseteq 1..keys
    BY <1>8 DEF TopUpSent, TypeOK, memory, made
  <2> QED BY <2>2, <2>3, <2>4
<1>9. ASSUME NEW d \in DeviceId, Claim(d) PROVE MadeInv'
  <2>1. PICK k \in registry[d].otks : registry'[d].otks = registry[d].otks \ {k} /\ mail' = mail \cup {<<d, k>>}
    BY <1>9, ClaimFacts
  <2>2. registry[d] # None /\ registry'[d] # None /\ \A e \in DeviceId \ {d} : registry'[e] = registry[e]
    BY <1>9, ClaimFacts, NoneAssumption
  <2>3. \A e \in DeviceId : registry'[e] # None => e <= ids /\ registry'[e].otks \subseteq 1..keys
    BY <2>1, <2>2
  <2>4. \A p \in mail' : registry'[p[1]] # None /\ p[2] \in 1..keys
    BY <2>1, <2>2 DEF TypeOK
  <2>5. UNCHANGED <<scope, id, account, fresh, ids, keys>>
    BY <1>9 DEF Claim, memory, pool, made
  <2> QED BY <2>3, <2>4, <2>5
<1>10. ASSUME NEW t \in Tab, NEW k \in 1..MaxKeys, OpenMail(t, k) PROVE MadeInv'
  <2>1. UNCHANGED <<registry, id, ids, keys, fresh>> /\ mail' \subseteq mail
    BY <1>10 DEF OpenMail, pool, made
  <2>2. CASE UNCHANGED <<account, scope, stale>>
    BY <2>1, <2>2
  <2>3. CASE Persisted(t, account[t].otks \ {k})
    <3>1. account[t] # None /\ account'[t].otks \subseteq 1..keys
      BY <2>3, NoneAssumption DEF Persisted
    <3>2. \A s \in Tab : account'[s] # None => account'[s].otks \subseteq 1..keys
      BY <2>3, <3>1 DEF Persisted
    <3>3. scope'.account.otks \subseteq 1..keys /\ scope'.deviceId = scope.deviceId
      BY <2>3, <3>1 DEF Persisted
    <3> QED BY <2>1, <3>2, <3>3
  <2>4. k \in Nat
    BY CountsAssumption
  <2> QED BY <1>10, <2>2, <2>3, <2>4, OpenMailFacts
<1>11. ASSUME NEW t \in Tab, NEW keep \in BOOLEAN, Reupload(t, keep) PROVE MadeInv'
  <2>0. stage[t] = "open"
    BY <1>11 DEF Reupload
  <2>1. /\ id[t] \in DeviceId /\ id[t] <= ids /\ registry'[id[t]] # None
        /\ registry'[id[t]].otks \subseteq (IF registry[id[t]] = None THEN {} ELSE registry[id[t]].otks)
        /\ \A e \in DeviceId \ {id[t]} : registry'[e] = registry[e]
    <3>1. id[t] <= ids
      BY <2>0 DEF TabInv, TabOf, Identified
    <3> QED BY <1>11, <3>1, ReuploadFacts, NoneAssumption
  <2>2. \A d \in DeviceId : registry'[d] # None => d <= ids /\ registry'[d].otks \subseteq 1..keys
    BY <2>1
  <2>3. \A p \in mail : registry'[p[1]] # None
    BY <2>1 DEF TypeOK
  <2> QED BY <1>11, <2>2, <2>3 DEF Reupload, pool, made
<1>12. CASE WipeUserData
  BY <1>12 DEF WipeUserData, Nothing, memory, pool, backend, made
<1>13. ASSUME NEW t \in Tab, Close(t) PROVE MadeInv'
  BY <1>13 DEF Close, TypeOK, backend, made
<1>14. CASE UNCHANGED vars
  BY <1>14, MadeStays DEF vars, memory, pool, backend, made, Unmade
<1>15. ASSUME NEW t \in Tab, Boot(t) \/ Activate(t) \/ KeepPool(t) PROVE MadeInv'
  <2>1. CASE Boot(t)
    BY <1>1, <1>2, <1>3, <1>4, <2>1, UnmadeStep, MadeStays DEF Boot, Migrate
  <2>2. CASE Activate(t)
    BY <1>5, <1>6, <2>2, UnmadeStep, MadeStays DEF Activate
  <2>3. CASE KeepPool(t)
    BY <1>7, <1>8, <1>10, <1>11, <2>3, UnmadeStep, MadeStays DEF KeepPool
  <2> QED BY <1>15, <2>1, <2>2, <2>3
<1> QED BY <1>9, <1>12, <1>13, <1>14, <1>15 DEF Next

-----------------------------------------------------------------------------
\* One device, one identity

\* What once happened stays so.
HistoryGrows ==
  /\ clobbered => clobbered'
  /\ half => half'
  /\ unsent => unsent'
  /\ wiped => wiped'
  /\ stale => stale'
  /\ upgraded' = upgraded

LEMMA HistoryStep == ASSUME TypeOK, TabInv, MadeInv, [Next]_vars PROVE HistoryGrows
<1>1. UNCHANGED history => HistoryGrows
  BY DEF history, HistoryGrows
<1>2. ASSUME NEW t \in Tab, ListScope(t) PROVE HistoryGrows
  BY <1>2 DEF ListScope, HistoryGrows
<1>3. ASSUME NEW t \in Tab, NEW k \in Key, WriteScope(t, k) PROVE HistoryGrows
  BY <1>3 DEF WriteScope, HistoryGrows
<1>4. ASSUME NEW t \in Tab, NameIt(t) PROVE HistoryGrows
  BY <1>4 DEF NameIt, HistoryGrows
<1>5. ASSUME NEW t \in Tab, Boot(t) PROVE HistoryGrows
  <2>1. ListScope(t) \/ (\E k \in Key : WriteScope(t, k)) \/ NameIt(t) \/ UNCHANGED history
    BY <1>5 DEF Boot, Connect, Migrate, ListLegacy, ReadLegacy, DeleteLegacy, Load, Identify, Mint, FindLock
  <2> QED BY <1>1, <1>2, <1>3, <1>4, <2>1
<1>6. ASSUME NEW t \in Tab, NEW applied \in BOOLEAN, Upload(t, applied) PROVE HistoryGrows
  BY <1>6 DEF Upload, HistoryGrows
<1>7. ASSUME NEW t \in Tab, Activate(t) PROVE HistoryGrows
  <2>1. (\E applied \in BOOLEAN : Upload(t, applied)) \/ UNCHANGED history
    BY <1>7 DEF Activate, Promote, TakeOver, Ensure, Opens, Reopens
  <2> QED BY <1>1, <1>6, <2>1
<1>8. ASSUME NEW t \in Tab, Counted(t) PROVE HistoryGrows
  <2>1. stale => stale'
    BY <1>8, CountedFacts DEF Replenished, Persisted
  <2> QED BY <1>8, <2>1 DEF Counted, HistoryGrows
<1>9. ASSUME NEW t \in Tab, NEW k \in 1..MaxKeys, OpenMail(t, k) PROVE HistoryGrows
  <2>1. k \in Nat
    BY CountsAssumption
  <2>2. stale => stale'
    BY <1>9, <2>1, OpenMailFacts DEF Persisted
  <2> QED BY <1>9, <2>2 DEF OpenMail, HistoryGrows
<1>10. ASSUME NEW t \in Tab, KeepPool(t) PROVE HistoryGrows
  <2>1. Counted(t) \/ (\E k \in 1..MaxKeys : OpenMail(t, k)) \/ UNCHANGED history
    BY <1>10 DEF KeepPool, CountFails, TopUpSent, Reupload
  <2> QED BY <1>1, <1>8, <1>9, <2>1
<1>11. ASSUME NEW t \in Tab, Close(t) PROVE HistoryGrows
  BY <1>11 DEF Close, HistoryGrows
<1>12. CASE WipeUserData
  BY <1>12 DEF WipeUserData, HistoryGrows
<1>13. (\E d \in DeviceId : Claim(d)) \/ UNCHANGED vars => UNCHANGED history
  BY DEF Claim, vars, history
<1> QED BY <1>1, <1>5, <1>7, <1>10, <1>11, <1>12, <1>13 DEF Next

\* The store as it was.
LEMMA ScopeStays ==
  ASSUME NEW t \in Tab,
         \/ Boot(t) /\ (\A k \in Key : ~WriteScope(t, k)) /\ ~NameIt(t)
         \/ Activate(t) /\ ~Ensure(t)
         \/ CountFails(t) \/ (\E b \in BOOLEAN : TopUpSent(t, b) \/ Reupload(t, b))
         \/ Close(t)
  PROVE  UNCHANGED scope
<1>1. CASE Boot(t) /\ (\A k \in Key : ~WriteScope(t, k)) /\ ~NameIt(t)
  BY <1>1 DEF Boot, Connect, Migrate, ListScope, ListLegacy, ReadLegacy, DeleteLegacy, Load, Identify, Mint, FindLock
<1>2. CASE Activate(t) /\ ~Ensure(t)
  BY <1>2 DEF Activate, Promote, TakeOver, Opens, Reopens, Upload
<1>3. CASE CountFails(t) \/ (\E b \in BOOLEAN : TopUpSent(t, b) \/ Reupload(t, b)) \/ Close(t)
  BY <1>3 DEF CountFails, TopUpSent, Reupload, Close
<1> QED BY <1>1, <1>2, <1>3

\* Writing a key where nobody's value is written over.
LEMMA WriteScopeFacts ==
  ASSUME TypeOK, CopyInv, NEW t \in Tab, NEW k \in Key, WriteScope(t, k), ~clobbered'
  PROVE  /\ scope'[k] = Old[k] /\ scope[k] \in {None, Old[k]}
         /\ \A j \in Key \ {k} : scope'[j] = scope[j]
<1>1. scope' = [scope EXCEPT ![k] = copied[t][k]] /\ copied[t][k] = Old[k]
  BY DEF WriteScope, CopyInv
<1>2. scope[k] \in {None, copied[t][k]}
  BY DEF WriteScope
<1> QED BY <1>1, <1>2 DEF TypeOK, Store, Key

LEMMA NameItFacts ==
  ASSUME TypeOK, NEW t \in Tab, NameIt(t), ~clobbered'
  PROVE  scope.deviceId = None /\ scope'.deviceId = id[t] /\ scope'.account = scope.account
BY DEF NameIt, TypeOK, Store

LEMMA EnsureFacts ==
  ASSUME TypeOK, NEW t \in Tab, Ensure(t)
  PROVE  /\ stage[t] = "ensuring"
         /\ scope'.deviceId = scope.deviceId
         /\ \A s \in Tab \ {t} : account'[s] = account[s]
         /\ \/ /\ account[t] # None \/ scope.account # None
               /\ account'[t] = IF account[t] # None THEN account[t] ELSE scope.account
               /\ UNCHANGED <<scope, keys>> /\ Go(t, "connecting")
            \/ /\ account[t] = None /\ scope.account = None
               /\ account'[t] \in Account /\ account'[t].otks = NewKeys(Target)
               /\ scope'.account = account'[t] /\ keys' = keys + Target /\ Go(t, "uploading")
<1>1. CASE account[t] # None \/ scope.account # None
  BY <1>1 DEF Ensure, TypeOK
<1>2. CASE ~(account[t] # None \/ scope.account # None)
  <2> DEFINE acc == [ident |-> idents + 1, otks |-> NewKeys(Target)]
  <2>1. acc \in Account /\ acc.otks = NewKeys(Target)
    BY CountsAssumption DEF TypeOK, Account, NewKeys
  <2>2. account' = [account EXCEPT ![t] = acc]
    BY <1>2 DEF Ensure
  <2>3. scope' = [scope EXCEPT !.account = account'[t]] /\ keys' = keys + Target /\ Go(t, "uploading")
    BY <1>2 DEF Ensure
  <2> HIDE DEF acc
  <2> QED BY <1>2, <2>1, <2>2, <2>3 DEF Ensure, TypeOK, Store
<1> QED BY <1>1, <1>2

LEMMA OneDeviceStep == ASSUME TypeOK, TabInv, CopyInv, MadeInv, OneDevice, [Next]_vars PROVE OneDevice'
<1> SUFFICES ASSUME ~clobbered', NEW s \in Tab, stage'[s] \in Identified PROVE id'[s] = scope'.deviceId
  BY DEF OneDevice
<1>1. ~clobbered
  BY HistoryStep DEF HistoryGrows
<1>2. ASSUME stage[s] \in Identified PROVE id[s] = scope.deviceId /\ id[s] # None
  BY <1>1, <1>2 DEF OneDevice, TabInv, TabOf
<1>3. ASSUME NEW t \in Tab, NEW k \in Key, WriteScope(t, k) PROVE id'[s] = scope'.deviceId
  <2>1. stage[s] \in Identified /\ id'[s] = id[s]
    BY <1>3 DEF WriteScope, Go, TypeOK, Identified, memory
  <2>2. scope'.deviceId = scope.deviceId \/ scope.deviceId = None
    BY <1>3, WriteScopeFacts, KeyCases
  <2> QED BY <1>2, <2>1, <2>2
<1>4. ASSUME NEW t \in Tab, NameIt(t) PROVE id'[s] = scope'.deviceId
  <2>1. CASE s = t
    BY <1>4, <2>1, NameItFacts DEF NameIt, memory
  <2>2. CASE s # t
    BY <1>2, <1>4, <2>2, NameItFacts DEF NameIt, Go, TypeOK
  <2> QED BY <2>1, <2>2
<1>5. ASSUME NEW t \in Tab, Boot(t) \/ Activate(t) \/ KeepPool(t) \/ Close(t), scope'.deviceId = scope.deviceId, ~NameIt(t)
      PROVE  id'[s] = scope'.deviceId
  <2>1. CASE s # t
    BY <1>2, <1>5, <2>1, OthersStay DEF Stays, Identified
  <2>2. CASE s = t /\ Identify(t)
    BY <1>5, <2>2 DEF Identify, Go, TypeOK, Identified
  <2>3. CASE s = t /\ ~Identify(t)
    <3>1. stage[s] \in Identified /\ id'[s] = id[s]
      <4>1. CASE Boot(t)
        BY <1>5, <2>3, <4>1 DEF Boot, Connect, Migrate, ListScope, ListLegacy, ReadLegacy, WriteScope, DeleteLegacy, AfterKey,
           Load, Mint, FindLock, Go, TypeOK, Identified, memory
      <4>2. CASE Activate(t)
        BY <2>3, <4>2 DEF Activate, Promote, TakeOver, Ensure, Opens, Reopens, Upload, migration, memory, Identified
      <4>3. CASE KeepPool(t)
        BY <2>3, <4>3 DEF KeepPool, Counted, CountFails, TopUpSent, Reupload, OpenMail, migration, memory
      <4>4. CASE Close(t)
        BY <2>3, <4>4 DEF Close, Go, TypeOK, Identified
      <4> QED BY <1>5, <4>1, <4>2, <4>3, <4>4
    <3> QED BY <1>2, <1>5, <3>1
  <2> QED BY <2>1, <2>2, <2>3
<1>6. ASSUME NEW t \in Tab, Ensure(t) \/ KeepPool(t) PROVE scope'.deviceId = scope.deviceId
  <2>1. CASE Ensure(t)
    BY <2>1, EnsureFacts
  <2>2. CASE Counted(t)
    BY <2>2, CountedFacts DEF Replenished, Persisted
  <2>3. ASSUME NEW k \in 1..MaxKeys, OpenMail(t, k) PROVE scope'.deviceId = scope.deviceId
    <3>1. k \in Nat
      BY CountsAssumption
    <3> QED BY <2>3, <3>1, OpenMailFacts DEF Persisted
  <2> QED BY <1>6, <2>1, <2>2, <2>3, ScopeStays DEF KeepPool
<1>7. CASE WipeUserData
  BY <1>7 DEF WipeUserData, migration, Identified
<1>8. CASE UNCHANGED <<scope, stage, id>>
  BY <1>2, <1>8
<1>9. (\E d \in DeviceId : Claim(d)) \/ UNCHANGED vars => UNCHANGED <<scope, stage, id>>
  BY DEF Claim, vars, migration, memory
<1>10. ASSUME NEW t \in Tab, Boot(t) \/ Activate(t) \/ KeepPool(t) \/ Close(t) PROVE id'[s] = scope'.deviceId
  BY <1>3, <1>4, <1>5, <1>6, <1>10, ScopeStays
<1> QED BY <1>7, <1>8, <1>9, <1>10 DEF Next

\* What is stored keeps its id and its identity, until it is wiped.
ScopeKept ==
  /\ scope.deviceId # None => scope'.deviceId = scope.deviceId
  /\ scope.account # None => scope'.account # None /\ scope'.account.ident = scope.account.ident

LEMMA ScopeStep ==
  ASSUME TypeOK, TabInv, CopyInv, MadeInv, [Next]_vars, ~clobbered', ~stale', ~WipeUserData
  PROVE  ScopeKept
<1>1. UNCHANGED scope => ScopeKept
  BY DEF ScopeKept
<1>2. ASSUME NEW t \in Tab, NEW k \in Key, WriteScope(t, k) PROVE ScopeKept
  BY <1>2, WriteScopeFacts, KeyCases DEF ScopeKept
<1>3. ASSUME NEW t \in Tab, NameIt(t) PROVE ScopeKept
  BY <1>3, NameItFacts DEF ScopeKept
<1>4. ASSUME NEW t \in Tab, Ensure(t) PROVE ScopeKept
  BY <1>4, EnsureFacts DEF ScopeKept
<1>5. ASSUME NEW t \in Tab, NEW otks, Persisted(t, otks) PROVE ScopeKept
  BY <1>5, NoneAssumption DEF Persisted, ScopeKept
<1>6. ASSUME NEW t \in Tab, KeepPool(t) PROVE ScopeKept
  <2>1. CASE Counted(t)
    BY <1>1, <1>5, <2>1, CountedFacts DEF Replenished
  <2>2. ASSUME NEW k \in 1..MaxKeys, OpenMail(t, k) PROVE ScopeKept
    <3>1. k \in Nat
      BY CountsAssumption
    <3> QED BY <1>1, <1>5, <2>2, <3>1, OpenMailFacts
  <2> QED BY <1>1, <1>6, <2>1, <2>2, ScopeStays DEF KeepPool
<1>7. (\E d \in DeviceId : Claim(d)) \/ UNCHANGED vars => UNCHANGED scope
  BY DEF Claim, vars
<1> QED BY <1>1, <1>2, <1>3, <1>4, <1>6, <1>7, ScopeStays DEF Next

LEMMA MovedStays ==
  ASSUME TypeOK, ScopeKept, NEW k \in Key, Moved(k)
  PROVE  Moved(k)'
BY NoneAssumption, CountsAssumption DEF ScopeKept, Moved, TypeOK, DeviceId

LEMMA OwnedStep ==
  ASSUME TypeOK, TabInv, CopyInv, MadeInv, \A s \in Tab : Owned(s), [Next]_vars, ~clobbered', ~stale', NEW s \in Tab
  PROVE  Owned(s)'
<1>1. CASE WipeUserData
  BY <1>1 DEF WipeUserData, memory, TabInv, TabOf, Booting, Owned
<1> SUFFICES ASSUME ~WipeUserData PROVE Owned(s)'
  BY <1>1
<1>2. ScopeKept
  BY ScopeStep
<1>3. account'[s] = account[s] \/ account'[s] = None => Owned(s)'
  BY <1>2 DEF ScopeKept, Owned
<1>4. account'[s] = scope'.account => Owned(s)'
  BY DEF Owned
<1>5. ASSUME NEW t \in Tab, Boot(t) \/ Activate(t) \/ KeepPool(t) \/ Close(t), s # t PROVE Owned(s)'
  BY <1>3, <1>5, OthersStay DEF Stays
<1>6. CASE Load(s)
  BY <1>4, <1>6 DEF Load, TypeOK
<1>7. CASE Ensure(s)
  BY <1>3, <1>4, <1>7, EnsureFacts
<1>8. CASE Counted(s)
  BY <1>3, <1>4, <1>8, CountedFacts DEF Replenished, Persisted
<1>9. ASSUME NEW k \in 1..MaxKeys, OpenMail(s, k) PROVE Owned(s)'
  <2>1. k \in Nat
    BY CountsAssumption
  <2> QED BY <1>3, <1>4, <1>9, <2>1, OpenMailFacts DEF Persisted
<1>10. CASE Close(s)
  BY <1>3, <1>10 DEF Close, TypeOK
<1>11. CASE UNCHANGED account
  BY <1>3, <1>11
<1>12. Boot(s) => Load(s) \/ UNCHANGED account
  BY DEF Boot, Connect, Migrate, ListScope, ListLegacy, ReadLegacy, WriteScope, DeleteLegacy,
     Identify, NameIt, Mint, FindLock, memory
<1>13. Activate(s) => Ensure(s) \/ UNCHANGED account
  BY DEF Activate, Promote, TakeOver, Opens, Reopens, Upload, memory
<1>14. KeepPool(s) => Counted(s) \/ (\E k \in 1..MaxKeys : OpenMail(s, k)) \/ UNCHANGED account
  BY DEF KeepPool, CountFails, TopUpSent, Reupload, memory
<1>15. (\E d \in DeviceId : Claim(d)) \/ UNCHANGED vars => UNCHANGED account
  BY DEF Claim, vars, memory
<1> QED BY <1>5, <1>6, <1>7, <1>8, <1>9, <1>10, <1>11, <1>12, <1>13, <1>14, <1>15 DEF Next

\* What the tab that does something does to the place of a key.
LEMMA ClearFacts ==
  ASSUME TypeOK, CopyInv, NEW t \in Tab, NEW k \in Key, DeleteLegacy(t, k)
  PROVE  /\ stage[t] = "clearing" /\ copied[t][k] # None
         /\ \A j \in Key \ {k} : legacy'[j] = legacy[j] /\ copied[t][j] = None
         /\ legacy'[k] = None /\ copied'[t] = Nothing /\ todo'[t] = todo[t] \ {k}
         /\ UNCHANGED scope /\ stage'[t] = AfterKey(todo[t] \ {k})
<1>1. stage[t] = "clearing" /\ copied[t][k] # None /\ legacy' = [legacy EXCEPT ![k] = None]
      /\ copied' = [copied EXCEPT ![t] = [copied[t] EXCEPT ![k] = None]]
  BY DEF DeleteLegacy
<1>2. \A j \in Key : copied[t][j] = None \/ j = k
  BY <1>1 DEF CopyInv
<1>3. copied'[t] = Nothing
  <2>1. [copied[t] EXCEPT ![k] = None] = Nothing
    BY <1>2, Cleared DEF TypeOK
  <2> QED BY <1>1, <2>1 DEF TypeOK
<1>4. legacy'[k] = None /\ \A j \in Key \ {k} : legacy'[j] = legacy[j]
  BY <1>1 DEF TypeOK, Store, Key
<1>5. todo'[t] = todo[t] \ {k} /\ stage'[t] = AfterKey(todo[t] \ {k}) /\ UNCHANGED scope
  BY DEF DeleteLegacy, Go, TypeOK
<1> QED BY <1>1, <1>2, <1>3, <1>4, <1>5

LEMMA LegacyStays ==
  ASSUME TypeOK, TabInv, MadeInv, [Next]_vars
  PROVE  UNCHANGED legacy \/ \E t \in Tab, k \in Key : DeleteLegacy(t, k)
<1>1. ASSUME NEW t \in Tab, Boot(t) PROVE UNCHANGED legacy \/ \E k \in Key : DeleteLegacy(t, k)
  BY <1>1, UnmovedStep DEF Boot, Migrate, ReadLegacy, WriteScope, Unmoved
<1>2. ASSUME NEW t \in Tab, Activate(t) \/ KeepPool(t) PROVE UNCHANGED legacy
  BY <1>2, UnmovedStep DEF Unmoved
<1> QED BY <1>1, <1>2 DEF Next, Close, Claim, WipeUserData, vars

LEMMA WrittenStep ==
  ASSUME TypeOK, TabInv, CopyInv, MadeInv, ScopeKept, ~clobbered', [Next]_vars,
         NEW s \in Tab, Written(s)
  PROVE  Written(s)'
<1> SUFFICES ASSUME NEW k \in Key, stage'[s] = "clearing", copied'[s][k] # None PROVE Moved(k)'
  BY DEF Written
<1>1. stage[s] = "clearing" /\ copied'[s] = copied[s] => Moved(k)'
  BY MovedStays DEF Written
<1>2. ASSUME NEW t \in Tab, Boot(t) \/ Activate(t) \/ KeepPool(t) \/ Close(t), s # t PROVE Moved(k)'
  BY <1>1, <1>2, OthersStay DEF Stays
<1>3. ASSUME NEW j \in Key, ReadLegacy(s, j) PROVE FALSE
  BY <1>3 DEF ReadLegacy, AfterKey, Go, TypeOK
<1>4. ASSUME NEW j \in Key, WriteScope(s, j) PROVE Moved(k)'
  <2>1. j = k
    BY <1>4 DEF WriteScope, CopyInv
  <2>2. scope'[k] = Old[k]
    BY <1>4, <2>1, WriteScopeFacts
  <2>3. OldAccount # None /\ OldAccount.ident = 0
    BY NothingIsStore, NoneAssumption DEF OldAccount
  <2> QED BY <2>2, <2>3, KeyCases DEF Moved
<1>5. ASSUME NEW j \in Key, DeleteLegacy(s, j) PROVE FALSE
  BY <1>5, ClearFacts DEF AfterKey
<1>6. CASE Close(s)
  BY <1>6 DEF Close, Go, TypeOK
<1>7. ASSUME Boot(s) PROVE \E j \in Key : ReadLegacy(s, j) \/ WriteScope(s, j) \/ DeleteLegacy(s, j)
  BY <1>7 DEF Boot, Connect, Migrate, ListScope, ListLegacy, Load, Identify, NameIt, Mint, FindLock, Go, TypeOK
<1>8. ASSUME Activate(s) PROVE stage[s] = "clearing" /\ copied'[s] = copied[s]
  BY <1>8 DEF Activate, Promote, TakeOver, Ensure, Opens, Reopens, Upload, Fails, Go, TypeOK, migration
<1>9. ASSUME KeepPool(s) \/ (\E d \in DeviceId : Claim(d)) \/ WipeUserData \/ UNCHANGED vars
      PROVE  stage[s] = "clearing" /\ copied'[s] = copied[s]
  BY <1>9 DEF KeepPool, Counted, CountFails, TopUpSent, Reupload, OpenMail, Claim, WipeUserData, vars, migration
<1> QED BY <1>1, <1>2, <1>3, <1>4, <1>5, <1>6, <1>7, <1>8, <1>9 DEF Next

LEMMA IdentityStep == ASSUME TypeOK, TabInv, CopyInv, MadeInv, IdentityInv, [Next]_vars PROVE IdentityInv'
<1> SUFFICES ASSUME ~clobbered', ~stale' PROVE (\A t \in Tab : Written(t) /\ Owned(t))' /\ (upgraded /\ ~wiped => Kept)'
  BY DEF IdentityInv
<1>1. ~clobbered /\ ~stale /\ (wiped => wiped') /\ upgraded' = upgraded
  BY HistoryStep DEF HistoryGrows
<1>2. (\A t \in Tab : Written(t) /\ Owned(t)) /\ (upgraded /\ ~wiped => Kept)
  BY <1>1 DEF IdentityInv
<1>3. \A t \in Tab : Owned(t)'
  BY <1>2, OwnedStep
<1>4. CASE WipeUserData
  BY <1>3, <1>4 DEF WipeUserData, migration, Written
<1>5. CASE ~WipeUserData
  <2>1. ScopeKept
    BY <1>5, ScopeStep
  <2>2. \A t \in Tab : Written(t)'
    BY <1>2, <2>1, WrittenStep
  <2>3. ASSUME upgraded', ~wiped', NEW k \in Key PROVE legacy'[k] # None \/ Moved(k)'
    <3>1. legacy[k] # None \/ Moved(k)
      BY <1>1, <1>2, <2>3 DEF Kept
    <3>2. CASE Moved(k)
      BY <2>1, <3>2, MovedStays
    <3>3. CASE ~Moved(k)
      <4>1. ASSUME NEW t \in Tab, NEW j \in Key, DeleteLegacy(t, j) PROVE legacy'[k] # None
        BY <1>2, <3>1, <3>3, <4>1, ClearFacts DEF Written
      <4> QED BY <3>1, <3>3, <4>1, LegacyStays
    <3> QED BY <3>2, <3>3
  <2> QED BY <1>3, <2>2, <2>3 DEF Kept
<1> QED BY <1>4, <1>5

-----------------------------------------------------------------------------
\* The keys that peers have

LEMMA PublishedBound ==
  ASSUME TypeOK, MadeInv, NEW d \in DeviceId
  PROVE  Published(d) \subseteq 1..keys
BY DEF TypeOK, MadeInv, Made, Published

LEMMA PublishedNone ==
  ASSUME TypeOK, MadeInv, NEW d \in DeviceId, registry[d] = None
  PROVE  Published(d) = {} /\ \A k \in Nat : <<d, k>> \notin mail
BY DEF MadeInv, Published

\* Peers come to know keys by an upload or a top up.
MorePublished(t, d, otks) == d = id[t] /\ Published(d)' \subseteq Published(d) \cup otks

LEMMA PublishedStep ==
  ASSUME TypeOK, TabInv, [Next]_vars, NEW d \in DeviceId
  PROVE  \/ Published(d)' \subseteq Published(d)
         \/ \E t \in Tab : Upload(t, TRUE) /\ MorePublished(t, d, account[t].otks)
         \/ \E t \in Tab : TopUpSent(t, TRUE) /\ MorePublished(t, d, fresh[t])
<1>1. UNCHANGED <<registry, mail>> => Published(d)' \subseteq Published(d)
  BY DEF Published
<1>2. ASSUME NEW t \in Tab, NEW b \in BOOLEAN, Upload(t, b)
      PROVE  \/ Published(d)' \subseteq Published(d)
             \/ b = TRUE /\ MorePublished(t, d, account[t].otks)
  <2>1. CASE b /\ d = id[t]
    <3>1. registry'[d] = account[t] /\ account[t] # None /\ UNCHANGED mail
      BY <1>2, <2>1 DEF Upload, TypeOK, TabInv, TabOf
    <3> QED BY <2>1, <3>1 DEF MorePublished, Published
  <2>2. CASE ~(b /\ d = id[t])
    <3>1. registry'[d] = registry[d] /\ UNCHANGED mail
      BY <1>2, <2>2 DEF Upload, TypeOK
    <3> QED BY <3>1 DEF Published
  <2> QED BY <2>1, <2>2
<1>3. ASSUME NEW t \in Tab, NEW b \in BOOLEAN, TopUpSent(t, b)
      PROVE  \/ Published(d)' \subseteq Published(d)
             \/ b = TRUE /\ MorePublished(t, d, fresh[t])
  <2>1. CASE d = id[t]
    <3>1. /\ registry[d] # None /\ registry'[d] # None /\ UNCHANGED mail
          /\ registry'[d].otks = registry[d].otks \cup (IF b THEN fresh[t] ELSE {})
      <4>1. UNCHANGED mail
        BY <1>3 DEF TopUpSent
      <4> QED BY <1>3, <2>1, <4>1, TopUpFacts, NoneAssumption
    <3> QED BY <2>1, <3>1 DEF MorePublished, Published
  <2>2. CASE d # id[t]
    <3>1. registry'[d] = registry[d] /\ UNCHANGED mail
      BY <1>3, <2>2, TopUpFacts DEF TopUpSent
    <3> QED BY <3>1 DEF Published
  <2> QED BY <2>1, <2>2
<1>4. ASSUME NEW e \in DeviceId, Claim(e) PROVE Published(d)' \subseteq Published(d)
  <2>1. PICK k \in registry[e].otks : registry'[e].otks = registry[e].otks \ {k} /\ mail' = mail \cup {<<e, k>>}
    BY <1>4, ClaimFacts
  <2>2. registry[e] # None /\ registry'[e] # None /\ \A c \in DeviceId \ {e} : registry'[c] = registry[c]
    BY <1>4, ClaimFacts, NoneAssumption
  <2> QED BY <2>1, <2>2 DEF Published
<1>5. ASSUME NEW t \in Tab, NEW keep \in BOOLEAN, Reupload(t, keep) PROVE Published(d)' \subseteq Published(d)
  <2>1. /\ registry'[id[t]] # None
        /\ registry'[id[t]].otks \subseteq (IF registry[id[t]] = None THEN {} ELSE registry[id[t]].otks)
        /\ \A e \in DeviceId \ {id[t]} : registry'[e] = registry[e]
    BY <1>5, ReuploadFacts, NoneAssumption
  <2>2. UNCHANGED mail
    BY <1>5 DEF Reupload
  <2> QED BY <2>1, <2>2 DEF Published
<1>6. ASSUME NEW t \in Tab, NEW k \in 1..MaxKeys, OpenMail(t, k) PROVE Published(d)' \subseteq Published(d)
  BY <1>6 DEF OpenMail, Published
<1>7. ASSUME NEW t \in Tab, Boot(t) PROVE UNCHANGED <<registry, mail>>
  BY <1>7 DEF Boot, Connect, Migrate, ListScope, ListLegacy, ReadLegacy, WriteScope, DeleteLegacy,
     Load, Identify, NameIt, Mint, FindLock, backend
<1>8. ASSUME NEW t \in Tab, Promote(t) \/ TakeOver(t) \/ Ensure(t) \/ Opens(t) \/ Reopens(t) PROVE UNCHANGED <<registry, mail>>
  BY <1>8 DEF Promote, TakeOver, Ensure, Opens, Reopens, backend
<1>9. ASSUME NEW t \in Tab, Counted(t) \/ CountFails(t) \/ Close(t) PROVE UNCHANGED <<registry, mail>>
  BY <1>9 DEF Counted, CountFails, Close, backend
<1>10. CASE WipeUserData \/ UNCHANGED vars
  BY <1>1, <1>10 DEF WipeUserData, vars, backend
<1> QED BY <1>1, <1>2, <1>3, <1>4, <1>5, <1>6, <1>7, <1>8, <1>9, <1>10 DEF Next, Activate, KeepPool

\* The stored account loses keys as messages are opened.
LEMMA KeysStep ==
  ASSUME TypeOK, TabInv, CopyInv, MadeInv, [Next]_vars, ~clobbered', ~stale', ~WipeUserData, scope.account # None
  PROVE  \/ scope.account.otks \subseteq scope'.account.otks
         \/ \E t \in Tab, k \in Nat : OpenMail(t, k) /\ scope'.account.otks = scope.account.otks \ {k}
<1>1. UNCHANGED scope => scope.account.otks \subseteq scope'.account.otks
  OBVIOUS
<1>2. ASSUME NEW t \in Tab, NEW k \in Key, WriteScope(t, k) PROVE scope.account.otks \subseteq scope'.account.otks
  BY <1>2, WriteScopeFacts, KeyCases
<1>3. ASSUME NEW t \in Tab, NameIt(t) \/ Ensure(t) PROVE scope.account.otks \subseteq scope'.account.otks
  BY <1>3, NameItFacts, EnsureFacts
<1>4. ASSUME NEW t \in Tab, Counted(t) PROVE scope.account.otks \subseteq scope'.account.otks
  BY <1>4, CountedFacts DEF Replenished, Persisted
<1>5. ASSUME NEW t \in Tab, NEW k \in 1..MaxKeys, OpenMail(t, k)
      PROVE  scope.account.otks \subseteq scope'.account.otks \/ scope'.account.otks = scope.account.otks \ {k}
  <2>1. k \in Nat
    BY CountsAssumption
  <2> QED BY <1>5, <2>1, OpenMailFacts DEF Persisted
<1>6. \A k \in 1..MaxKeys : k \in Nat
  BY CountsAssumption
<1>7. (\E d \in DeviceId : Claim(d)) \/ UNCHANGED vars => UNCHANGED scope
  BY DEF Claim, vars
<1>8. ASSUME NEW t \in Tab, CountFails(t) \/ (\E b \in BOOLEAN : TopUpSent(t, b) \/ Reupload(t, b))
      PROVE  UNCHANGED scope
  BY <1>8, ScopeStays
<1> QED BY <1>1, <1>2, <1>3, <1>4, <1>5, <1>6, <1>7, <1>8, ScopeStays DEF Next, KeepPool

AtHome == \A t \in Tab : stage[t] \in Identified => id[t] = scope.deviceId

\* Where a message is opened, its key is nobody's any more.
LEMMA OpenedFacts ==
  ASSUME TypeOK, TabInv, ClaimedOnce, NEW t \in Tab, NEW k \in Nat, OpenMail(t, k)
  PROVE  /\ id[t] \in DeviceId /\ k \in Published(id[t]) /\ k \notin Published(id[t])'
         /\ stage[t] = "open" /\ topup' = topup /\ UNCHANGED <<fresh, id>>
<1>1. id[t] \in DeviceId /\ <<id[t], k>> \in mail /\ mail' = mail \ {<<id[t], k>>} /\ UNCHANGED <<registry, id>>
  BY DEF OpenMail, TypeOK, TabInv, TabOf, Identified
<1>2. registry[id[t]] # None => k \notin registry[id[t]].otks
  BY <1>1 DEF ClaimedOnce
<1>3. k \in Published(id[t]) /\ k \notin Published(id[t])'
  BY <1>1, <1>2 DEF Published
<1> QED BY <1>1, <1>3 DEF OpenMail, pool

\* The stored account covers what peers have, whatever is published or opened.
LEMMA CoverStep ==
  ASSUME TypeOK, TabInv, CopyInv, MadeInv, PoolInv, FirstUpload, [Next]_vars, ~clobbered', ~stale', ~WipeUserData,
         NEW d \in DeviceId, \A t \in Tab : stage[t] \in Identified => id[t] = d,
         scope.account # None, Published(d) \subseteq scope.account.otks
  PROVE  Published(d)' \subseteq scope'.account.otks
<1>1. Published(d)' \subseteq scope.account.otks
  <2>1. ASSUME NEW t \in Tab, Upload(t, TRUE), MorePublished(t, d, account[t].otks)
        PROVE  Published(d)' \subseteq scope.account.otks
    BY <2>1 DEF Upload, FirstUpload, MorePublished
  <2>2. ASSUME NEW t \in Tab, TopUpSent(t, TRUE), MorePublished(t, d, fresh[t])
        PROVE  Published(d)' \subseteq scope.account.otks
    BY <2>2 DEF TopUpSent, PoolInv, Sound, MorePublished
  <2> QED BY <2>1, <2>2, PublishedStep
<1>2. ASSUME NEW t \in Tab, NEW k \in Nat, OpenMail(t, k), scope'.account.otks = scope.account.otks \ {k}
      PROVE  Published(d)' \subseteq scope'.account.otks
  <2>1. id[t] = d /\ k \notin Published(d)'
    BY <1>2, OpenedFacts DEF PoolInv, Identified
  <2> QED BY <1>1, <1>2, <2>1
<1> QED BY <1>1, <1>2, KeysStep

LEMMA ClaimedStep ==
  ASSUME TypeOK, TabInv, MadeInv, PoolInv, FirstUpload, [Next]_vars
  PROVE  ClaimedOnce'
<1> SUFFICES ASSUME NEW d \in DeviceId, registry'[d] # None, NEW k \in registry'[d].otks
             PROVE  <<d, k>> \notin mail'
  BY DEF ClaimedOnce
<1>1. registry[d] # None => \A j \in registry[d].otks : <<d, j>> \notin mail
  BY DEF PoolInv, ClaimedOnce
<1>2. UNCHANGED <<registry, mail>> => <<d, k>> \notin mail'
  BY <1>1
<1>3. ASSUME NEW t \in Tab, NEW b \in BOOLEAN, Upload(t, b) PROVE <<d, k>> \notin mail'
  <2>1. UNCHANGED mail /\ id[t] \in DeviceId
    BY <1>3 DEF Upload, TypeOK, TabInv, TabOf, Identified
  <2>2. CASE d = id[t]
    <3>1. registry[d] = None
      BY <1>3, <2>2 DEF Upload, FirstUpload
    <3>2. <<d, k>> \in mail => registry[d] # None
      BY DEF MadeInv
    <3> QED BY <2>1, <3>1, <3>2
  <2>3. CASE d # id[t]
    BY <1>1, <1>3, <2>1, <2>3 DEF Upload, TypeOK
  <2> QED BY <2>2, <2>3
<1>4. ASSUME NEW t \in Tab, NEW b \in BOOLEAN, TopUpSent(t, b) PROVE <<d, k>> \notin mail'
  <2>1. UNCHANGED mail /\ topup[t] = "sending"
    BY <1>4 DEF TopUpSent
  <2>2. CASE d = id[t]
    <3>1. k \in registry[d].otks \/ k \in fresh[t]
      BY <1>4, <2>2, TopUpFacts
    <3>2. k \in fresh[t] => k \notin Published(d) /\ k \in Nat
      BY <2>1, <2>2 DEF PoolInv, Sound, TypeOK
    <3>3. registry[d] # None
      BY <1>4, <2>2, TopUpFacts, NoneAssumption
    <3> QED BY <1>1, <2>1, <3>1, <3>2, <3>3 DEF Published
  <2>3. CASE d # id[t]
    BY <1>1, <1>4, <2>1, <2>3, TopUpFacts
  <2> QED BY <2>2, <2>3
<1>5. ASSUME NEW e \in DeviceId, Claim(e) PROVE <<d, k>> \notin mail'
  <2>1. PICK j \in registry[e].otks : registry'[e].otks = registry[e].otks \ {j} /\ mail' = mail \cup {<<e, j>>}
    BY <1>5, ClaimFacts
  <2>2. registry[e] # None /\ \A c \in DeviceId \ {e} : registry'[c] = registry[c]
    BY <1>5, ClaimFacts, NoneAssumption
  <2>3. registry[d] # None /\ k \in registry[d].otks /\ <<d, k>> # <<e, j>>
    BY <2>1, <2>2
  <2> QED BY <1>1, <2>1, <2>3
<1>6. ASSUME NEW t \in Tab, NEW keep \in BOOLEAN, Reupload(t, keep) PROVE <<d, k>> \notin mail'
  <2>1. UNCHANGED mail
    BY <1>6 DEF Reupload
  <2>2. registry[d] # None /\ k \in registry[d].otks
    BY <1>6, ReuploadFacts
  <2> QED BY <1>1, <2>1, <2>2
<1>7. ASSUME NEW t \in Tab, NEW j \in 1..MaxKeys, OpenMail(t, j) PROVE <<d, k>> \notin mail'
  BY <1>1, <1>7 DEF OpenMail
<1>8. ASSUME NEW t \in Tab, Boot(t) PROVE UNCHANGED <<registry, mail>>
  BY <1>8 DEF Boot, Connect, Migrate, ListScope, ListLegacy, ReadLegacy, WriteScope, DeleteLegacy,
     Load, Identify, NameIt, Mint, FindLock, backend
<1>9. ASSUME NEW t \in Tab, Promote(t) \/ TakeOver(t) \/ Ensure(t) \/ Opens(t) \/ Reopens(t) PROVE UNCHANGED <<registry, mail>>
  BY <1>9 DEF Promote, TakeOver, Ensure, Opens, Reopens, backend
<1>10. ASSUME NEW t \in Tab, Counted(t) \/ CountFails(t) \/ Close(t) PROVE UNCHANGED <<registry, mail>>
  BY <1>10 DEF Counted, CountFails, Close, backend
<1>11. CASE WipeUserData \/ UNCHANGED vars
  BY <1>2, <1>11 DEF WipeUserData, vars, backend
<1> QED BY <1>2, <1>3, <1>4, <1>5, <1>6, <1>7, <1>8, <1>9, <1>10, <1>11 DEF Next, Activate, KeepPool

\* Who has keys under way had them, or has just made them.
LEMMA SenderStep ==
  ASSUME TypeOK, TabInv, MadeInv, [Next]_vars, NEW s \in Tab, topup'[s] = "sending"
  PROVE  \/ /\ topup[s] = "sending" /\ fresh'[s] = fresh[s] /\ id'[s] = id[s]
            /\ \A b \in BOOLEAN : ~TopUpSent(s, b)
         \/ Counted(s) /\ Replenished(s)
<1> DEFINE Had == /\ topup[s] = "sending" /\ fresh'[s] = fresh[s] /\ id'[s] = id[s]
                  /\ \A b \in BOOLEAN : ~TopUpSent(s, b)
<1>1. \A b \in BOOLEAN : ~TopUpSent(s, b)
  BY DEF TopUpSent, TypeOK
<1>2. ASSUME NEW t \in Tab, Boot(t) \/ Activate(t) \/ KeepPool(t) \/ Close(t), s # t PROVE Had
  BY <1>1, <1>2, OthersStay DEF Stays
<1>3. CASE Counted(s)
  BY <1>3, CountedFacts
<1>4. CASE Boot(s)
  <2>1. UNCHANGED <<topup, fresh>> /\ (stage[s] \notin Identified \/ UNCHANGED id)
    BY <1>4 DEF Boot, Connect, Migrate, ListScope, ListLegacy, ReadLegacy, WriteScope, DeleteLegacy,
       Load, Identify, NameIt, Mint, FindLock, pool, memory, Identified
  <2> QED BY <1>1, <2>1 DEF TabInv, TabOf
<1>5. CASE Activate(s)
  BY <1>1, <1>5 DEF Activate, Promote, TakeOver, Ensure, Opens, Reopens, Upload, TypeOK, pool, memory
<1>6. CASE KeepPool(s) /\ ~Counted(s)
  BY <1>1, <1>6 DEF KeepPool, CountFails, Reupload, OpenMail, TypeOK, pool, memory
<1>7. CASE Close(s)
  BY <1>7 DEF Close, TypeOK
<1>8. CASE WipeUserData \/ (\E d \in DeviceId : Claim(d)) \/ UNCHANGED vars
  BY <1>1, <1>8 DEF WipeUserData, Claim, vars, pool, memory
<1> QED BY <1>2, <1>3, <1>4, <1>5, <1>6, <1>7, <1>8 DEF Next

\* New keys are in nobody's hands.
LEMMA NewKeysAreNew ==
  ASSUME TypeOK, NEW n \in Nat, NEW S \in SUBSET (1..keys)
  PROVE  NewKeys(n) \cap S = {}
BY DEF TypeOK, NewKeys

LEMMA ReplenishedFacts ==
  ASSUME TypeOK, TabInv, MadeInv, NEW s \in Tab, Counted(s), Replenished(s)
  PROVE  /\ fresh'[s] \subseteq scope'.account.otks
         /\ \A S \in SUBSET (1..keys) : fresh'[s] \cap S = {}
         /\ \A r \in Tab \ {s} : topup'[r] = topup[r] /\ fresh'[r] = fresh[r]
         /\ UNCHANGED <<registry, mail, id>>
<1>1. PICK n \in Nat :
        /\ Persisted(s, account[s].otks \cup NewKeys(n))
        /\ fresh'[s] = NewKeys(n)
        /\ \A r \in Tab \ {s} : fresh'[r] = fresh[r]
  BY DEF Replenished
<1>2. fresh'[s] \subseteq scope'.account.otks
  BY <1>1 DEF Persisted
<1>3. \A S \in SUBSET (1..keys) : fresh'[s] \cap S = {}
  BY <1>1, NewKeysAreNew
<1>4. UNCHANGED <<registry, mail, id>>
  BY DEF Counted, backend
<1> QED BY <1>1, <1>2, <1>3, <1>4, CountedFacts

LEMMA SoundStep ==
  ASSUME TypeOK, TabInv, CopyInv, MadeInv, AtHome, \A r \in Tab : Owned(r), PoolInv, FirstUpload,
         [Next]_vars, ~clobbered', ~stale', NEW s \in Tab
  PROVE  Sound(s)'
<1> SUFFICES ASSUME topup'[s] = "sending"
             PROVE  /\ fresh'[s] \subseteq scope'.account.otks /\ fresh'[s] \cap Published(id[s])' = {}
                    /\ \A r \in Tab \ {s} : topup'[r] = "sending" => fresh'[r] \cap fresh'[s] = {}
  BY DEF Sound
<1>1. \A r \in Tab : fresh[r] \subseteq 1..keys
  BY DEF MadeInv
<1>2. ASSUME Counted(s), Replenished(s)
      PROVE  /\ fresh'[s] \subseteq scope'.account.otks /\ fresh'[s] \cap Published(id[s])' = {}
             /\ \A r \in Tab \ {s} : topup'[r] = "sending" => fresh'[r] \cap fresh'[s] = {}
  <2>1. Published(id[s])' = Published(id[s])
    BY <1>2, ReplenishedFacts DEF Published
  <2>2. Published(id[s]) \subseteq 1..keys
    BY <1>2, CountedFacts, PublishedBound
  <2> QED BY <1>1, <1>2, <2>1, <2>2, ReplenishedFacts
<1>3. ASSUME topup[s] = "sending", fresh'[s] = fresh[s], id'[s] = id[s], \A b \in BOOLEAN : ~TopUpSent(s, b)
      PROVE  /\ fresh'[s] \subseteq scope'.account.otks /\ fresh'[s] \cap Published(id[s])' = {}
             /\ \A r \in Tab \ {s} : topup'[r] = "sending" => fresh'[r] \cap fresh'[s] = {}
  <2>1. stage[s] \in Identified /\ account[s] # None /\ scope.account # None /\ id[s] \in DeviceId
    BY <1>3 DEF TabInv, TabOf, Owned, TypeOK, Identified
  <2>2. ~WipeUserData
    BY <2>1 DEF WipeUserData, Identified
  <2>3. /\ fresh[s] \subseteq scope.account.otks /\ fresh[s] \cap Published(id[s]) = {}
        /\ \A r \in Tab \ {s} : topup[r] = "sending" => fresh[r] \cap fresh[s] = {}
    BY <1>3 DEF PoolInv, Sound
  <2>4. fresh'[s] \subseteq scope'.account.otks
    <3>1. ASSUME NEW t \in Tab, NEW k \in Nat, OpenMail(t, k), scope'.account.otks = scope.account.otks \ {k}
          PROVE  fresh[s] \subseteq scope'.account.otks
      <4>1. k \in Published(id[t]) /\ stage[t] = "open"
        BY <3>1, OpenedFacts DEF PoolInv
      <4>2. id[t] = id[s]
        BY <2>1, <4>1 DEF AtHome, Identified
      <4> QED BY <2>3, <3>1, <4>1, <4>2
    <3> QED BY <1>3, <2>1, <2>2, <2>3, <3>1, KeysStep
  <2>5. fresh'[s] \cap Published(id[s])' = {}
    <3>1. PICK d \in DeviceId : d = id[s]
      BY <2>1
    <3>2. Published(id[s])' = Published(d)'
      BY <1>3, <3>1 DEF Published
    <3>3. ASSUME NEW t \in Tab, TopUpSent(t, TRUE), MorePublished(t, d, fresh[t]) PROVE fresh[s] \cap Published(d)' = {}
      <4>1. t # s /\ topup[t] = "sending"
        BY <1>3, <3>3 DEF TopUpSent
      <4> QED BY <2>3, <3>1, <3>3, <4>1 DEF MorePublished
    <3>4. ASSUME NEW t \in Tab, Upload(t, TRUE) PROVE FALSE
      BY <1>3, <3>4 DEF Upload, FirstUpload
    <3> QED BY <1>3, <2>3, <3>1, <3>2, <3>3, <3>4, PublishedStep
  <2>6. ASSUME NEW r \in Tab \ {s}, topup'[r] = "sending" PROVE fresh'[r] \cap fresh'[s] = {}
    <3>1. CASE topup[r] = "sending" /\ fresh'[r] = fresh[r]
      BY <1>3, <2>3, <3>1
    <3>2. CASE Counted(r) /\ Replenished(r)
      BY <1>1, <1>3, <3>2, ReplenishedFacts
    <3> QED BY <2>6, <3>1, <3>2, SenderStep
  <2> QED BY <2>4, <2>5, <2>6
<1> QED BY <1>2, <1>3, SenderStep

-----------------------------------------------------------------------------
\* The older version's store

LEMMA OldBeyond ==
  ASSUME OldStore, NEW t \in Tab, Beyond(t)
  PROVE  scope.deviceId = 0 /\ scope.account # None /\ scope.account.ident = 0
BY KeyCases DEF OldStore, Through, Moved

\* Nothing comes to an empty place but what the older version left.
LEMMA OldWrites ==
  ASSUME TypeOK, TabInv, CopyInv, MadeInv, OldStore, [Next]_vars, ~clobbered', ~stale', ~WipeUserData,
         NEW k \in Key, scope[k] = None
  PROVE  scope'[k] \in {None, Old[k]}
<1>1. UNCHANGED scope => scope'[k] \in {None, Old[k]}
  OBVIOUS
<1>2. ASSUME NEW t \in Tab, NEW j \in Key, WriteScope(t, j) PROVE scope'[k] \in {None, Old[k]}
  BY <1>2, WriteScopeFacts
<1>3. ASSUME NEW t \in Tab, NameIt(t) PROVE FALSE
  BY <1>3 DEF NameIt, OldStore
<1>4. ASSUME NEW t \in Tab, Beyond(t) PROVE FALSE
  BY <1>4, OldBeyond, KeyCases, CountsAssumption, NoneAssumption DEF DeviceId
<1>5. ASSUME NEW t \in Tab, Ensure(t) PROVE FALSE
  BY <1>4, <1>5 DEF Ensure, Beyond, Identified
<1>6. ASSUME NEW t \in Tab, Counted(t) \/ (\E i \in 1..MaxKeys : OpenMail(t, i)) PROVE FALSE
  BY <1>4, <1>6 DEF Counted, OpenMail, TabInv, TabOf, Beyond, Identified
<1>7. (\E d \in DeviceId : Claim(d)) \/ UNCHANGED vars => UNCHANGED scope
  BY DEF Claim, vars
<1>8. ASSUME NEW t \in Tab, CountFails(t) \/ (\E b \in BOOLEAN : TopUpSent(t, b) \/ Reupload(t, b))
      PROVE  UNCHANGED scope
  BY <1>8, ScopeStays
<1> QED BY <1>1, <1>2, <1>3, <1>5, <1>6, <1>7, <1>8, ScopeStays DEF Next, KeepPool

LEMMA OldKeys ==
  ASSUME TypeOK, TabInv, CopyInv, MadeInv, OldStore, [Next]_vars, ~clobbered', ~stale', ~WipeUserData, ScopeKept,
         \A t \in Tab : Written(t), NEW k \in Key
  PROVE  Moved(k)' \/ (scope'[k] = None /\ legacy'[k] # None)
<1>1. CASE Moved(k)
  BY <1>1, MovedStays
<1>2. CASE ~Moved(k)
  <2>1. scope[k] = None /\ legacy[k] # None
    BY <1>2 DEF OldStore
  <2>2. legacy'[k] # None
    <3>1. ASSUME NEW t \in Tab, NEW j \in Key, DeleteLegacy(t, j) PROVE legacy'[k] # None
      BY <1>2, <2>1, <3>1, ClearFacts DEF Written
    <3> QED BY <2>1, <3>1, LegacyStays
  <2>3. scope'[k] = Old[k] => Moved(k)'
    <3>1. OldAccount # None /\ OldAccount.ident = 0
      BY NothingIsStore, NoneAssumption DEF OldAccount
    <3> QED BY <3>1, KeyCases DEF Moved
  <2>4. scope'[k] \in {None, Old[k]}
    BY <2>1, OldWrites
  <2> QED BY <2>2, <2>3, <2>4
<1> QED BY <1>1, <1>2

\* A tab is through with the keys it has not to move.
LEMMA ThroughStep ==
  ASSUME TypeOK, TabInv, CopyInv, MadeInv, OldStore, [Next]_vars, ~clobbered', ~half', ~WipeUserData, ScopeKept,
         \A t \in Tab : Written(t), NEW s \in Tab
  PROVE  Through(s)'
<1>1. \A k \in Key : Moved(k) => Moved(k)'
  BY MovedStays
<1>2. Through(s) /\ \A k \in Key : Moved(k) \/ (scope[k] = None /\ legacy[k] # None)
  BY DEF OldStore
<1>3. stage'[s] = stage[s] /\ todo'[s] = todo[s] => Through(s)'
  BY <1>1, <1>2 DEF Through, Beyond
<1>4. Beyond(s) /\ stage'[s] \notin Moving => Through(s)'
  BY <1>1, <1>2 DEF Through
<1>5. ASSUME NEW t \in Tab, Boot(t) \/ Activate(t) \/ KeepPool(t) \/ Close(t), s # t PROVE Through(s)'
  BY <1>3, <1>4, <1>5, OthersStay DEF Stays, Beyond, Moving, Identified
<1>6. CASE Connect(s)
  BY <1>6 DEF Connect, Go, TypeOK, Through, Beyond, Moving, Identified
<1>7. CASE ListScope(s)
  <2>1. CASE Present(scope) = {}
    BY <1>7, <2>1 DEF ListScope, Go, TypeOK, Through, Beyond, Moving, Identified
  <2>2. CASE Present(scope) # {}
    <3>1. Present(legacy) \ Present(scope) = {}
      BY <1>7, <2>2 DEF ListScope, HalfMigrated
    <3>2. \A k \in Key : Moved(k)
      BY <1>2, <3>1 DEF Present
    <3> QED BY <1>1, <1>7, <2>2, <3>2 DEF ListScope, Go, TypeOK, Through, Moving
  <2> QED BY <2>1, <2>2
<1>8. CASE ListLegacy(s)
  <2>1. \A k \in Key \ Present(legacy) : Moved(k)
    BY <1>2 DEF Present
  <2>2. todo'[s] = Present(legacy) /\ stage'[s] = IF Present(legacy) = {} THEN "loading" ELSE "copying"
    BY <1>8 DEF ListLegacy, Go, TypeOK
  <2> QED BY <1>1, <2>1, <2>2 DEF Through, Beyond, Moving, Identified
<1>9. ASSUME NEW k \in Key, ReadLegacy(s, k) PROVE Through(s)'
  <2>1. \A j \in Key \ todo[s] : Moved(j)
    BY <1>2, <1>9 DEF ReadLegacy, Through, Moving
  <2>2. CASE legacy[k] = None
    <3>0. /\ todo' = [todo EXCEPT ![s] = todo[s] \ {k}]
          /\ stage' = [stage EXCEPT ![s] = AfterKey(todo[s] \ {k})]
      BY <1>9, <2>2 DEF ReadLegacy, Go
    <3>1. todo'[s] = todo[s] \ {k} /\ stage'[s] = AfterKey(todo'[s])
      BY <3>0 DEF TypeOK
    <3>2. \A j \in Key \ todo'[s] : Moved(j)
      BY <1>2, <2>1, <2>2, <3>1
    <3> QED BY <1>1, <3>1, <3>2 DEF AfterKey, Through, Beyond, Moving, Identified
  <2>3. CASE legacy[k] # None
    BY <1>1, <1>9, <2>1, <2>3 DEF ReadLegacy, Go, TypeOK, Through, Beyond, Moving, Identified
  <2> QED BY <2>2, <2>3
<1>10. ASSUME NEW k \in Key, WriteScope(s, k) PROVE Through(s)'
  BY <1>1, <1>2, <1>10 DEF WriteScope, Go, TypeOK, Through, Beyond, Moving, Identified
<1>11. ASSUME NEW k \in Key, DeleteLegacy(s, k) PROVE Through(s)'
  <2>1. Moved(k) /\ \A j \in Key \ todo[s] : Moved(j)
    BY <1>2, <1>11, ClearFacts DEF Written, Through, Moving
  <2>2. todo'[s] = todo[s] \ {k} /\ stage'[s] = AfterKey(todo'[s])
    BY <1>11, ClearFacts
  <2> QED BY <1>1, <2>1, <2>2 DEF AfterKey, Through, Beyond, Moving, Identified
<1>12. CASE Load(s) \/ Identify(s) \/ NameIt(s) \/ Mint(s) \/ FindLock(s)
  BY <1>4, <1>12 DEF Load, Identify, NameIt, Mint, FindLock, Go, TypeOK, Beyond, Moving, Identified
<1>13. CASE Activate(s)
  BY <1>4, <1>13 DEF Activate, Promote, TakeOver, Ensure, Opens, Reopens, Upload, Fails, Go, TypeOK, migration,
     Beyond, Moving, Identified
<1>14. CASE KeepPool(s) \/ (\E d \in DeviceId : Claim(d)) \/ UNCHANGED vars
  BY <1>3, <1>14 DEF KeepPool, Counted, CountFails, TopUpSent, Reupload, OpenMail, Claim, vars, migration
<1>15. CASE Close(s)
  BY <1>15 DEF Close, Go, TypeOK, Through, Beyond, Moving, Identified
<1> QED BY <1>5, <1>6, <1>7, <1>8, <1>9, <1>10, <1>11, <1>12, <1>13, <1>14, <1>15 DEF Next, Boot, Migrate

\* No tab makes an id or an account.
LEMMA OldStages ==
  ASSUME TypeOK, TabInv, MadeInv, OldStore, [Next]_vars, NEW s \in Tab
  PROVE  stage'[s] \notin {"naming", "uploading"}
<1>1. stage[s] \notin {"naming", "uploading"}
  BY DEF OldStore
<1>2. ASSUME NEW t \in Tab, Boot(t) \/ Activate(t) \/ KeepPool(t) \/ Close(t), s # t
      PROVE  stage'[s] \notin {"naming", "uploading"}
  BY <1>1, <1>2, OthersStay DEF Stays
<1>3. CASE Boot(s) /\ ~Identify(s)
  BY <1>3 DEF Boot, Connect, Migrate, ListScope, ListLegacy, ReadLegacy, WriteScope, DeleteLegacy, AfterKey,
     Load, NameIt, Mint, FindLock, Go, TypeOK
<1>4. CASE Identify(s)
  <2>1. scope.deviceId # None
    BY <1>4, OldBeyond, NoneAssumption, CountsAssumption DEF Identify, Beyond, DeviceId
  <2> QED BY <1>4, <2>1 DEF Identify, Go, TypeOK
<1>5. CASE Ensure(s)
  <2>1. scope.account # None
    BY <1>5, OldBeyond DEF Ensure, Beyond, Identified
  <2> QED BY <1>5, <2>1 DEF Ensure, Go, TypeOK
<1>6. CASE Activate(s) /\ ~Ensure(s)
  BY <1>6 DEF Activate, Promote, TakeOver, Opens, Reopens, Upload, Fails, Go, TypeOK, migration
<1>7. CASE KeepPool(s) \/ (\E d \in DeviceId : Claim(d)) \/ WipeUserData \/ UNCHANGED vars
  BY <1>1, <1>7 DEF KeepPool, Counted, CountFails, TopUpSent, Reupload, OpenMail, Claim, WipeUserData, vars, migration
<1>8. CASE Close(s)
  BY <1>8 DEF Close, Go, TypeOK
<1> QED BY <1>2, <1>3, <1>4, <1>5, <1>6, <1>7, <1>8 DEF Next

\* The identity that the backend has for a device.
LEMMA RegisteredStep ==
  ASSUME TypeOK, TabInv, MadeInv, [Next]_vars, NEW d \in DeviceId
  PROVE  \/ registry'[d] = registry[d]
         \/ registry[d] # None /\ registry'[d] # None /\ registry'[d].ident = registry[d].ident
         \/ \E t \in Tab, b \in BOOLEAN :
              (Upload(t, b) \/ Reupload(t, b)) /\ d = id[t] /\ registry'[d] # None /\ registry'[d].ident = account[t].ident
<1>1. ASSUME NEW t \in Tab, NEW b \in BOOLEAN, Upload(t, b)
      PROVE  \/ registry'[d] = registry[d]
             \/ d = id[t] /\ registry'[d] # None /\ registry'[d].ident = account[t].ident
  <2>1. account[t] # None
    BY <1>1 DEF Upload, TabInv, TabOf
  <2>2. CASE b /\ d = id[t]
    <3>1. registry'[d] = account[t]
      BY <1>1, <2>2 DEF Upload, TypeOK
    <3> QED BY <2>1, <2>2, <3>1
  <2>3. CASE ~(b /\ d = id[t])
    BY <1>1, <2>3 DEF Upload, TypeOK
  <2> QED BY <2>2, <2>3
<1>2. ASSUME NEW t \in Tab, NEW b \in BOOLEAN, TopUpSent(t, b)
      PROVE  \/ registry'[d] = registry[d]
             \/ registry[d] # None /\ registry'[d] # None /\ registry'[d].ident = registry[d].ident
  BY <1>2, TopUpFacts, NoneAssumption
<1>3. ASSUME NEW e \in DeviceId, Claim(e)
      PROVE  \/ registry'[d] = registry[d]
             \/ registry[d] # None /\ registry'[d] # None /\ registry'[d].ident = registry[d].ident
  BY <1>3, ClaimFacts, NoneAssumption
<1>4. ASSUME NEW t \in Tab, NEW keep \in BOOLEAN, Reupload(t, keep)
      PROVE  \/ registry'[d] = registry[d]
             \/ d = id[t] /\ registry'[d] # None /\ registry'[d].ident = account[t].ident
  BY <1>4, ReuploadFacts, NoneAssumption
<1>5. ASSUME NEW t \in Tab, Boot(t) PROVE UNCHANGED registry
  BY <1>5 DEF Boot, Connect, Migrate, ListScope, ListLegacy, ReadLegacy, WriteScope, DeleteLegacy,
     Load, Identify, NameIt, Mint, FindLock, backend
<1>6. ASSUME NEW t \in Tab, Promote(t) \/ TakeOver(t) \/ Ensure(t) \/ Opens(t) \/ Reopens(t) PROVE UNCHANGED registry
  BY <1>6 DEF Promote, TakeOver, Ensure, Opens, Reopens, backend
<1>7. ASSUME NEW t \in Tab, Counted(t) \/ CountFails(t) \/ Close(t) \/ (\E k \in 1..MaxKeys : OpenMail(t, k))
      PROVE  UNCHANGED registry
  BY <1>7 DEF Counted, CountFails, Close, OpenMail, backend
<1>8. CASE WipeUserData \/ UNCHANGED vars
  BY <1>8 DEF WipeUserData, vars, backend
<1> QED BY <1>1, <1>2, <1>3, <1>4, <1>5, <1>6, <1>7, <1>8 DEF Next, Activate, KeepPool

LEMMA OldStep ==
  ASSUME TypeOK, TabInv, CopyInv, MadeInv, OldStore, PoolInv, [Next]_vars, ~clobbered', ~half', ~stale', ~WipeUserData,
         AtHome, \A t \in Tab : Written(t) /\ Owned(t)
  PROVE  OldStore'
<1>1. ScopeKept
  BY ScopeStep
<1>2. \A k \in Key : Moved(k)' \/ (scope'[k] = None /\ legacy'[k] # None)
  BY <1>1, OldKeys
<1>3. \A t \in Tab : Through(t)'
  BY <1>1, ThroughStep
<1>4. \A t \in Tab : stage'[t] \notin {"naming", "uploading"}
  BY OldStages
<1>5. 0 \in DeviceId
  BY CountsAssumption DEF DeviceId
<1>6. \A t \in Tab : stage[t] \in Identified => id[t] = 0 /\ scope.account # None /\ scope.account.ident = 0
  BY OldBeyond DEF AtHome, Beyond
<1>7. registry'[0] # None /\ registry'[0].ident = 0
  <2>1. registry[0] # None /\ registry[0].ident = 0
    BY DEF OldStore
  <2>2. ASSUME NEW t \in Tab, NEW b \in BOOLEAN, Upload(t, b) \/ Reupload(t, b) PROVE account[t].ident = 0
    <3>1. stage[t] \in Identified /\ account[t] # None
      BY <2>2 DEF Upload, Reupload, TabInv, TabOf, Identified
    <3> QED BY <1>6, <3>1 DEF Owned
  <2> QED BY <1>5, <2>1, <2>2, RegisteredStep
<1>8. Published(0)' \subseteq (IF scope'.account = None THEN OldAccount.otks ELSE scope'.account.otks)
  <2>1. Published(0) \subseteq (IF scope.account = None THEN OldAccount.otks ELSE scope.account.otks)
    BY DEF OldStore
  <2>2. CASE scope.account # None
    <3>1. FirstUpload
      BY DEF OldStore, FirstUpload
    <3>2. Published(0)' \subseteq scope'.account.otks
      BY <1>5, <1>6, <2>1, <2>2, <3>1, CoverStep
    <3> QED BY <1>1, <2>2, <3>2 DEF ScopeKept
  <2>3. CASE scope.account = None
    <3>1. \A t \in Tab : stage[t] \notin Identified
      BY <1>6, <2>3
    <3>2. Published(0)' \subseteq Published(0)
      <4>1. ASSUME NEW t \in Tab, Upload(t, TRUE) \/ TopUpSent(t, TRUE) PROVE FALSE
        BY <3>1, <4>1 DEF Upload, TopUpSent, TabInv, TabOf, Identified
      <4> QED BY <1>5, <4>1, PublishedStep
    <3>3. scope'["account"] \in {None, OldAccount}
      BY <2>3, OldWrites, KeyCases
    <3> QED BY <2>1, <2>3, <3>2, <3>3
  <2> QED BY <2>2, <2>3
<1> QED BY <1>2, <1>3, <1>4, <1>7, <1>8 DEF OldStore

\* The user's data are wiped, wherever they are.
LEMMA WipeStep ==
  ASSUME TypeOK, TabInv, CopyInv, MadeInv, OldStore \/ NewStore, WipeUserData, ~half'
  PROVE  (OldStore \/ NewStore)'
<1>1. /\ scope' = Nothing /\ UNCHANGED <<legacy, stage, todo, copied, id, account, topup, registry, mail>>
      /\ \A t \in Tab : stage[t] = "off"
  BY DEF WipeUserData, migration, memory, pool, backend
<1>2. Present(legacy) = {} \/ Present(scope) = {}
  BY DEF WipeUserData
<1>3. ASSUME NEW s \in Store, Present(s) = {} PROVE s = Nothing
  <2>1. s.deviceId = None /\ s.account = None
    BY <1>3, KeyCases DEF Present
  <2> QED BY <2>1 DEF Store, Nothing
<1>4. CASE legacy = Nothing
  <2>1. scope'.deviceId = None /\ scope'.account = None
    BY <1>1 DEF Nothing
  <2>2. None # 0
    BY NoneAssumption, CountsAssumption DEF DeviceId
  <2> QED BY <1>1, <1>4, <2>1, <2>2 DEF NewStore, Registered, Naming, FirstUpload, Moving
<1>5. CASE scope = Nothing /\ legacy # Nothing
  <2>1. OldStore
    BY <1>5 DEF NewStore
  <2>2. scope' = scope
    BY <1>1, <1>5
  <2> QED BY <1>1, <2>1, <2>2 DEF OldStore, Through, Beyond, Moved, Published
<1> QED BY <1>2, <1>3, <1>4, <1>5 DEF TypeOK

-----------------------------------------------------------------------------
\* A store of the user's own

\* There is nothing to move any more.
LEMMA NewMoves ==
  ASSUME TypeOK, TabInv, MadeInv, NewStore, [Next]_vars
  PROVE  /\ legacy' = Nothing
         /\ \A s \in Tab : stage'[s] \notin Moving
         /\ \A t \in Tab, k \in Key : ~WriteScope(t, k)
<1>1. legacy = Nothing /\ \A t \in Tab : stage[t] \notin Moving
  BY DEF NewStore
<1>2. \A t \in Tab, k \in Key : ~ReadLegacy(t, k) /\ ~WriteScope(t, k) /\ ~DeleteLegacy(t, k)
  BY <1>1 DEF ReadLegacy, WriteScope, DeleteLegacy, Moving
<1>3. legacy' = Nothing
  BY <1>1, <1>2, LegacyStays
<1>4. ASSUME NEW s \in Tab PROVE stage'[s] \notin Moving
  <2>1. ASSUME NEW t \in Tab, Boot(t) \/ Activate(t) \/ KeepPool(t) \/ Close(t), s # t PROVE stage'[s] \notin Moving
    BY <1>1, <2>1, OthersStay DEF Stays, Moving
  <2>2. CASE ListLegacy(s)
    <3>1. Present(legacy) = {}
      BY <1>1, KeyCases DEF Present
    <3> QED BY <2>2, <3>1 DEF ListLegacy, Go, TypeOK, Moving
  <2>3. CASE Boot(s) /\ ~ListLegacy(s)
    BY <1>2, <2>3 DEF Boot, Connect, Migrate, ListScope, Load, Identify, NameIt, Mint, FindLock, Go, TypeOK, Moving
  <2>4. CASE Activate(s)
    BY <2>4 DEF Activate, Promote, TakeOver, Ensure, Opens, Reopens, Upload, Fails, Go, TypeOK, migration, Moving
  <2>5. CASE KeepPool(s) \/ (\E d \in DeviceId : Claim(d)) \/ WipeUserData \/ UNCHANGED vars
    BY <1>1, <2>5 DEF KeepPool, Counted, CountFails, TopUpSent, Reupload, OpenMail, Claim, WipeUserData, vars, migration
  <2>6. CASE Close(s)
    BY <2>6 DEF Close, Go, TypeOK, Moving
  <2> QED BY <2>1, <2>2, <2>3, <2>4, <2>5, <2>6 DEF Next
<1> QED BY <1>2, <1>3, <1>4

\* The stored id and account come from who makes them.
LEMMA NewWrites ==
  ASSUME TypeOK, TabInv, CopyInv, MadeInv, NewStore, [Next]_vars, ~clobbered', ~stale', ~WipeUserData,
         \A s \in Tab : Owned(s)
  PROVE  /\ scope'.deviceId = scope.deviceId \/ \E t \in Tab : NameIt(t)
         /\ \/ scope.account = None /\ scope'.account = None
            \/ scope.account # None
            \/ \E t \in Tab : Ensure(t)
<1>1. \A t \in Tab, k \in Key : ~WriteScope(t, k)
  BY NewMoves
<1>2. ASSUME NEW t \in Tab, Counted(t)
      PROVE  scope'.deviceId = scope.deviceId /\ scope.account # None
  BY <1>2, CountedFacts DEF Replenished, Persisted, TabInv, TabOf, Owned
<1>3. ASSUME NEW t \in Tab, NEW k \in 1..MaxKeys, OpenMail(t, k)
      PROVE  scope'.deviceId = scope.deviceId /\ scope.account # None
  <2>1. k \in Nat
    BY CountsAssumption
  <2> QED BY <1>3, <2>1, OpenMailFacts DEF Persisted, OpenMail, TabInv, TabOf, Owned
<1>4. ASSUME NEW t \in Tab, Ensure(t) PROVE scope'.deviceId = scope.deviceId
  BY <1>4, EnsureFacts
<1>5. (\E d \in DeviceId : Claim(d)) \/ UNCHANGED vars => UNCHANGED scope
  BY DEF Claim, vars
<1>6. ASSUME NEW t \in Tab, CountFails(t) \/ (\E b \in BOOLEAN : TopUpSent(t, b) \/ Reupload(t, b))
      PROVE  UNCHANGED scope
  BY <1>6, ScopeStays
<1>7. ASSUME NEW t \in Tab, NameIt(t) PROVE scope'.account = scope.account
  BY <1>7, NameItFacts
<1> QED BY <1>1, <1>2, <1>3, <1>4, <1>5, <1>6, <1>7, ScopeStays DEF Next, KeepPool

\* How a tab comes by its id, and when it loses it.
LEMMA IdStep ==
  ASSUME TypeOK, TabInv, MadeInv, [Next]_vars, NEW r \in Tab
  PROVE  \/ id'[r] \in {id[r], None}
         \/ Identify(r) /\ id'[r] = IF scope.deviceId # None THEN scope.deviceId ELSE ids + 1
<1>1. ASSUME NEW t \in Tab, Boot(t) \/ Activate(t) \/ KeepPool(t) \/ Close(t), r # t PROVE id'[r] = id[r]
  BY <1>1, OthersStay DEF Stays
<1>2. CASE Identify(r)
  BY <1>2 DEF Identify, TypeOK
<1>3. CASE Boot(r) /\ ~Identify(r)
  BY <1>3 DEF Boot, Connect, Migrate, ListScope, ListLegacy, ReadLegacy, WriteScope, DeleteLegacy,
     Load, NameIt, Mint, FindLock, memory
<1>4. CASE Activate(r) \/ KeepPool(r)
  BY <1>4 DEF Activate, Promote, TakeOver, Ensure, Opens, Reopens, Upload,
     KeepPool, Counted, CountFails, TopUpSent, Reupload, OpenMail, memory
<1>5. CASE Close(r)
  BY <1>5 DEF Close, TypeOK
<1>6. CASE WipeUserData \/ (\E d \in DeviceId : Claim(d)) \/ UNCHANGED vars
  BY <1>6 DEF WipeUserData, Claim, vars, memory
<1> QED BY <1>1, <1>2, <1>3, <1>4, <1>5, <1>6 DEF Next

\* How a tab comes to name the device, or to upload, and what it does then.
LEMMA NamingStep ==
  ASSUME TypeOK, TabInv, MadeInv, [Next]_vars, NEW s \in Tab, stage'[s] = "naming"
  PROVE  \/ stage[s] = "naming" /\ ~NameIt(s) /\ id'[s] = id[s]
         \/ Identify(s) /\ scope.deviceId = None
<1>1. ASSUME NEW t \in Tab, Boot(t) \/ Activate(t) \/ KeepPool(t) \/ Close(t), s # t
      PROVE  stage[s] = "naming" /\ id'[s] = id[s]
  BY <1>1, OthersStay DEF Stays
<1>2. ~NameIt(s)
  BY DEF NameIt, Go, TypeOK
<1>3. CASE Boot(s)
  <2>1. Identify(s) => scope.deviceId = None
    BY DEF Identify, Go, TypeOK
  <2>2. ~(Connect(s) \/ Migrate(s))
    BY DEF Connect, Migrate, ListScope, ListLegacy, ReadLegacy, WriteScope, DeleteLegacy, AfterKey, Go, TypeOK
  <2>3. ~(Load(s) \/ Mint(s) \/ FindLock(s))
    BY DEF Load, Mint, FindLock, Go, TypeOK
  <2> QED BY <1>2, <1>3, <2>1, <2>2, <2>3 DEF Boot
<1>4. ~Activate(s)
  <2>1. ~(Promote(s) \/ TakeOver(s) \/ Ensure(s))
    BY DEF Promote, TakeOver, Ensure, Go, TypeOK
  <2>2. ~(Opens(s) \/ Reopens(s))
    BY DEF Opens, Reopens, Fails, Go, TypeOK, migration
  <2>3. \A b \in BOOLEAN : ~Upload(s, b)
    BY DEF Upload, Fails, Go, TypeOK
  <2> QED BY <2>1, <2>2, <2>3 DEF Activate
<1>5. CASE KeepPool(s) \/ (\E d \in DeviceId : Claim(d)) \/ WipeUserData \/ UNCHANGED vars
  BY <1>2, <1>5 DEF KeepPool, Counted, CountFails, TopUpSent, Reupload, OpenMail, Claim, WipeUserData, vars, migration, memory
<1>6. CASE Close(s)
  BY <1>6 DEF Close, Go, TypeOK
<1> QED BY <1>1, <1>2, <1>3, <1>4, <1>5, <1>6 DEF Next

LEMMA UploadingStep ==
  ASSUME TypeOK, TabInv, MadeInv, [Next]_vars, NEW s \in Tab, stage'[s] = "uploading"
  PROVE  \/ /\ stage[s] = "uploading" /\ (\A b \in BOOLEAN : ~Upload(s, b))
            /\ id'[s] = id[s] /\ (account'[s] = account[s] \/ Counted(s))
         \/ Ensure(s)
<1>1. ASSUME NEW t \in Tab, Boot(t) \/ Activate(t) \/ KeepPool(t) \/ Close(t), s # t
      PROVE  stage[s] = "uploading" /\ id'[s] = id[s] /\ account'[s] = account[s]
  BY <1>1, OthersStay DEF Stays
<1>2. \A b \in BOOLEAN : ~Upload(s, b)
  BY DEF Upload, Fails, Go, TypeOK
<1>3. CASE Boot(s)
  BY <1>3 DEF Boot, Connect, Migrate, ListScope, ListLegacy, ReadLegacy, WriteScope, DeleteLegacy, AfterKey,
     Load, Identify, NameIt, Mint, FindLock, Go, TypeOK
<1>4. CASE Activate(s)
  BY <1>2, <1>4 DEF Activate, Promote, TakeOver, Opens, Reopens, Fails, Go, TypeOK, migration, memory
<1>5. CASE KeepPool(s)
  <2>1. \A k \in 1..MaxKeys : ~OpenMail(s, k)
    BY <1>5 DEF OpenMail, TypeOK, migration
  <2> QED BY <1>2, <1>5, <2>1 DEF KeepPool, Counted, CountFails, TopUpSent, Reupload, TypeOK, migration, memory
<1>6. CASE (\E d \in DeviceId : Claim(d)) \/ WipeUserData \/ UNCHANGED vars
  BY <1>2, <1>6 DEF Claim, WipeUserData, vars, migration, memory
<1>7. CASE Close(s)
  BY <1>7 DEF Close, Go, TypeOK
<1> QED BY <1>1, <1>2, <1>3, <1>4, <1>5, <1>6, <1>7 DEF Next

LEMMA UploadingEnds ==
  ASSUME TypeOK, TabInv, MadeInv, [Next]_vars, NEW s \in Tab, stage[s] = "uploading"
  PROVE  stage'[s] = "uploading" \/ Close(s) \/ \E b \in BOOLEAN : Upload(s, b)
<1>1. ASSUME NEW t \in Tab, Boot(t) \/ Activate(t) \/ KeepPool(t) \/ Close(t), s # t PROVE stage'[s] = "uploading"
  BY <1>1, OthersStay DEF Stays
<1>2. ~Boot(s)
  BY DEF Boot, Connect, Migrate, ListScope, ListLegacy, ReadLegacy, WriteScope, DeleteLegacy,
     Load, Identify, NameIt, Mint, FindLock
<1>3. Activate(s) => \E b \in BOOLEAN : Upload(s, b)
  BY DEF Activate, Promote, TakeOver, Ensure, Opens, Reopens
<1>4. CASE KeepPool(s) \/ (\E d \in DeviceId : Claim(d)) \/ WipeUserData \/ UNCHANGED vars
  BY <1>4 DEF KeepPool, Counted, CountFails, TopUpSent, Reupload, OpenMail, Claim, WipeUserData, vars, migration
<1> QED BY <1>1, <1>2, <1>3, <1>4 DEF Next

LEMMA TopupStarts ==
  ASSUME TypeOK, TabInv, MadeInv, [Next]_vars, NEW r \in Tab, topup'[r] # "idle"
  PROVE  topup[r] # "idle" \/ Opens(r) \/ Reopens(r)
<1>1. ASSUME NEW t \in Tab, Boot(t) \/ Activate(t) \/ KeepPool(t) \/ Close(t), r # t PROVE topup[r] # "idle"
  BY <1>1, OthersStay DEF Stays
<1>2. CASE Boot(r)
  BY <1>2 DEF Boot, Connect, Migrate, ListScope, ListLegacy, ReadLegacy, WriteScope, DeleteLegacy,
     Load, Identify, NameIt, Mint, FindLock, pool
<1>3. CASE Activate(r)
  BY <1>3 DEF Activate, Promote, TakeOver, Ensure, Upload, pool
<1>4. CASE KeepPool(r)
  BY <1>4 DEF KeepPool, Counted, CountFails, TopUpSent, Reupload, OpenMail, pool
<1>5. CASE Close(r)
  BY <1>5 DEF Close, TypeOK
<1>6. CASE (\E d \in DeviceId : Claim(d)) \/ WipeUserData \/ UNCHANGED vars
  BY <1>6 DEF Claim, WipeUserData, vars, pool
<1> QED BY <1>1, <1>2, <1>3, <1>4, <1>5, <1>6 DEF Next

LEMMA NewNaming ==
  ASSUME TypeOK, TabInv, CopyInv, MadeInv, NewStore, [Next]_vars, ~clobbered', ~stale', ~WipeUserData,
         \A r \in Tab : Owned(r), NEW s \in Tab
  PROVE  Naming(s)'
<1> SUFFICES ASSUME stage'[s] = "naming"
             PROVE  /\ id'[s] # scope'.deviceId /\ id'[s] # 0 /\ registry'[id'[s]] = None
                    /\ \A r \in Tab \ {s} : id'[r] # id'[s]
  BY DEF Naming
<1>1. 0 \in DeviceId /\ ids \in DeviceId /\ ids \in Nat /\ DeviceId \subseteq Nat
  BY CountsAssumption DEF TypeOK, DeviceId
<1>2. CASE stage[s] = "naming" /\ ~NameIt(s) /\ id'[s] = id[s]
  <2>1. id[s] \in DeviceId /\ id[s] # None /\ id[s] <= ids
    BY <1>2 DEF TypeOK, TabInv, TabOf, MadeInv
  <2>2. /\ id[s] # scope.deviceId /\ id[s] # 0 /\ registry[id[s]] = None
        /\ \A r \in Tab \ {s} : id[r] # id[s]
    BY <1>2 DEF NewStore, Naming
  <2>3. id[s] # scope'.deviceId
    <3>1. ASSUME NEW t \in Tab, NameIt(t) PROVE scope'.deviceId # id[s]
      BY <1>2, <2>2, <3>1, NameItFacts
    <3> QED BY <2>2, <3>1, NewWrites
  <2>4. registry'[id[s]] = None
    <3>1. ASSUME NEW t \in Tab, NEW b \in BOOLEAN, Upload(t, b) \/ Reupload(t, b) PROVE id[s] # id[t]
      BY <1>2, <2>2, <3>1 DEF Upload, Reupload
    <3> QED BY <2>1, <2>2, <3>1, RegisteredStep
  <2>5. ASSUME NEW r \in Tab \ {s} PROVE id'[r] # id[s]
    <3>1. CASE id'[r] \in {id[r], None}
      BY <2>1, <2>2, <3>1
    <3>2. CASE id'[r] = IF scope.deviceId # None THEN scope.deviceId ELSE ids + 1
      BY <1>1, <2>1, <2>2, <3>2
    <3> QED BY <3>1, <3>2, IdStep
  <2> QED BY <1>2, <2>2, <2>3, <2>4, <2>5
<1>3. CASE Identify(s) /\ scope.deviceId = None
  <2>1. ids < MaxDevices /\ id'[s] = ids + 1 /\ UNCHANGED <<scope, registry>>
    BY <1>3 DEF Identify, TypeOK, backend
  <2>2. ids + 1 \in DeviceId
    BY <1>1, <2>1, CountsAssumption DEF DeviceId
  <2>3. registry[ids + 1] = None
    BY <1>1, <2>2 DEF MadeInv
  <2>4. ASSUME NEW r \in Tab \ {s} PROVE id'[r] # ids + 1
    <3>1. id'[r] = id[r]
      BY <1>3 DEF Identify, TypeOK
    <3>2. id[r] = None \/ (id[r] \in Nat /\ id[r] <= ids)
      BY <1>1 DEF MadeInv, TypeOK
    <3> QED BY <1>1, <2>2, <3>1, <3>2, NoneAssumption
  <2> QED BY <1>1, <1>3, <2>1, <2>2, <2>3, <2>4, NoneAssumption
<1> QED BY <1>2, <1>3, NamingStep

LEMMA NewUpload ==
  ASSUME TypeOK, TabInv, CopyInv, MadeInv, NewStore, [Next]_vars, ~clobbered', ~stale', ~WipeUserData,
         AtHome, \A r \in Tab : Owned(r)
  PROVE  FirstUpload'
<1> SUFFICES ASSUME NEW s \in Tab, stage'[s] = "uploading"
             PROVE  /\ account'[s] = scope'.account /\ registry'[id'[s]] = None
                    /\ \A r \in Tab : topup'[r] = "idle"
  BY DEF FirstUpload
<1>1. CASE /\ stage[s] = "uploading" /\ (\A b \in BOOLEAN : ~Upload(s, b))
           /\ id'[s] = id[s] /\ (account'[s] = account[s] \/ Counted(s))
  <2>1. /\ account[s] = scope.account /\ registry[id[s]] = None
        /\ \A r \in Tab : topup[r] = "idle"
    BY <1>1 DEF NewStore, FirstUpload
  <2>2. id[s] \in DeviceId /\ account[s] # None
    BY <1>1 DEF TypeOK, TabInv, TabOf, Identified
  <2>3. \A t \in Tab : stage[t] \in Active => t = s
    BY <1>1 DEF TabInv, TabOf, Active
  <2>4. \A t \in Tab : ~Counted(t) /\ ~Ensure(t) /\ ~Opens(t) /\ ~Reopens(t)
    BY <1>1, <2>1, <2>3 DEF Counted, Ensure, Opens, Reopens, Active
  <2>5. \A t \in Tab, k \in 1..MaxKeys : ~OpenMail(t, k)
    BY <1>1, <2>3 DEF OpenMail, Active
  <2>6. \A t \in Tab, b \in BOOLEAN : ~Upload(t, b) /\ ~Reupload(t, b)
    BY <1>1, <2>3 DEF Upload, Reupload, Active
  <2>7. \A r \in Tab : topup'[r] = "idle"
    BY <2>1, <2>4, TopupStarts
  <2>8. registry'[id[s]] = None
    BY <2>1, <2>2, <2>6, RegisteredStep
  <2>9. scope'.account = scope.account
    <3>1. UNCHANGED scope => scope'.account = scope.account
      OBVIOUS
    <3>2. ASSUME NEW t \in Tab, NameIt(t) PROVE scope'.account = scope.account
      BY <3>2, NameItFacts
    <3>3. (\E d \in DeviceId : Claim(d)) \/ UNCHANGED vars => UNCHANGED scope
      BY DEF Claim, vars
    <3>4. \A t \in Tab, k \in Key : ~WriteScope(t, k)
      BY NewMoves
    <3> QED BY <2>4, <2>5, <3>1, <3>2, <3>3, <3>4, ScopeStays DEF Next, KeepPool
  <2> QED BY <1>1, <2>1, <2>4, <2>7, <2>8, <2>9
<1>2. CASE Ensure(s)
  <2>1. account[s] = None /\ scope.account = None /\ scope'.account = account'[s]
    BY <1>2, EnsureFacts DEF Go, TypeOK
  <2>2. id[s] # None /\ id[s] = scope.deviceId /\ UNCHANGED <<id, registry, topup>>
    BY <1>2 DEF Ensure, TabInv, TabOf, AtHome, Identified, pool, backend
  <2>3. registry[id[s]] = None
    BY <2>1, <2>2 DEF NewStore, Registered
  <2>4. \A r \in Tab : topup[r] = "idle"
    BY <2>1 DEF TabInv, TabOf, Owned
  <2> QED BY <2>1, <2>2, <2>3, <2>4
<1> QED BY <1>1, <1>2, UploadingStep

LEMMA SentStep ==
  ASSUME TypeOK, TabInv, MadeInv, Registered, [Next]_vars, AtHome,
         scope.account # None, scope'.deviceId = scope.deviceId
  PROVE  registry'[scope.deviceId] # None \/ unsent' \/ \E t \in Tab : stage'[t] = "uploading"
<1>1. scope.deviceId \in DeviceId
  BY DEF Registered, TypeOK, Store
<1>2. CASE registry[scope.deviceId] # None
  BY <1>1, <1>2, RegistryStays
<1>3. CASE unsent
  BY <1>3, HistoryStep DEF HistoryGrows
<1>4. ASSUME NEW t \in Tab, stage[t] = "uploading"
      PROVE  registry'[scope.deviceId] # None \/ unsent' \/ stage'[t] = "uploading"
  <2>1. CASE Close(t)
    BY <1>4, <2>1 DEF Close
  <2>2. ASSUME NEW b \in BOOLEAN, Upload(t, b) PROVE registry'[scope.deviceId] # None \/ unsent'
    <3>1. CASE b
      <4>1. id[t] = scope.deviceId /\ account[t] # None
        BY <1>4 DEF AtHome, Identified, TabInv, TabOf
      <4> QED BY <1>1, <2>2, <3>1, <4>1 DEF Upload, TypeOK
    <3>2. CASE ~b
      BY <2>2, <3>2 DEF Upload
    <3> QED BY <3>1, <3>2
  <2> QED BY <1>4, <2>1, <2>2, UploadingEnds
<1> QED BY <1>2, <1>3, <1>4 DEF Registered

LEMMA RegisteredStays ==
  ASSUME TypeOK, TabInv, CopyInv, MadeInv, NewStore, PoolInv, [Next]_vars, ~clobbered', ~stale', ~WipeUserData,
         AtHome, \A r \in Tab : Owned(r)
  PROVE  Registered'
<1>1. ScopeKept
  BY ScopeStep
<1>2. \A t \in Tab : account[t] # None => scope.account # None /\ account[t].ident = scope.account.ident
  BY DEF Owned
<1>3. scope.deviceId \in DeviceId \cup {None}
  BY DEF TypeOK, Store
<1>4. ASSUME NEW t \in Tab, NameIt(t) PROVE Registered'
  <2>1. scope.deviceId = None /\ scope'.deviceId = id[t] /\ scope'.account = scope.account /\ UNCHANGED registry
    BY <1>4, NameItFacts DEF NameIt, backend
  <2>2. registry[id[t]] = None /\ scope.account = None
    BY <1>4, <2>1 DEF NameIt, NewStore, Registered, Naming
  <2> QED BY <2>1, <2>2 DEF Registered
<1>5. ASSUME NEW t \in Tab, Ensure(t), scope.account = None PROVE Registered'
  <2>1. scope'.account = account'[t] /\ scope'.deviceId = scope.deviceId /\ stage'[t] = "uploading" /\ stage[t] = "ensuring"
    BY <1>5, EnsureFacts, <1>2 DEF Go, TypeOK
  <2>2. scope.deviceId # None /\ scope.deviceId = id[t] /\ UNCHANGED <<registry, mail>>
    BY <1>5, <2>1 DEF Ensure, AtHome, TabInv, TabOf, Identified, backend
  <2>3. registry[scope.deviceId] = None
    BY <1>5, <2>2 DEF NewStore, Registered
  <2>4. Published(scope.deviceId)' = {}
    <3>1. Published(scope.deviceId) = {}
      BY <1>3, <2>2, <2>3, PublishedNone
    <3> QED BY <2>1, <2>2, <3>1 DEF Published
  <2> QED BY <2>1, <2>2, <2>3, <2>4 DEF Registered
<1>6. CASE scope'.deviceId = scope.deviceId /\ scope.account = None /\ scope'.account = None
  <2>1. ASSUME scope.deviceId # None PROVE registry'[scope.deviceId] = None
    <3>1. registry[scope.deviceId] = None
      BY <1>6, <2>1 DEF NewStore, Registered
    <3>2. \A t \in Tab, b \in BOOLEAN : ~Upload(t, b) /\ ~Reupload(t, b)
      BY <1>2, <1>6 DEF Upload, Reupload, TabInv, TabOf
    <3> QED BY <1>3, <2>1, <3>1, <3>2, RegisteredStep
  <2> QED BY <1>6, <2>1 DEF Registered
<1>7. CASE scope'.deviceId = scope.deviceId /\ scope.account # None
  <2>1. /\ scope.deviceId # None
        /\ registry[scope.deviceId] # None => registry[scope.deviceId].ident = scope.account.ident
        /\ Published(scope.deviceId) \subseteq scope.account.otks
        /\ FirstUpload /\ Registered
    BY <1>7 DEF NewStore, Registered
  <2>2. PICK d \in DeviceId : d = scope.deviceId
    BY <1>3, <2>1
  <2>3. scope'.account # None /\ scope'.account.ident = scope.account.ident
    BY <1>1, <1>7 DEF ScopeKept
  <2>4. registry'[d] # None => registry'[d].ident = scope'.account.ident
    <3>1. ASSUME NEW t \in Tab, NEW b \in BOOLEAN, Upload(t, b) \/ Reupload(t, b)
          PROVE  account[t].ident = scope.account.ident
      BY <1>2, <3>1 DEF Upload, Reupload, TabInv, TabOf
    <3> QED BY <2>1, <2>2, <2>3, <3>1, RegisteredStep
  <2>5. Published(d)' \subseteq scope'.account.otks
    BY <1>7, <2>1, <2>2, CoverStep DEF AtHome
  <2>6. registry'[d] # None \/ unsent' \/ \E t \in Tab : stage'[t] = "uploading"
    BY <1>7, <2>1, <2>2, SentStep
  <2>7. Published(scope.deviceId)' = Published(d)'
    BY <1>7, <2>2 DEF Published
  <2> QED BY <1>7, <2>1, <2>2, <2>3, <2>4, <2>5, <2>6, <2>7 DEF Registered
<1> QED BY <1>4, <1>5, <1>6, <1>7, NewWrites

LEMMA NewStep ==
  ASSUME TypeOK, TabInv, CopyInv, MadeInv, NewStore, PoolInv, [Next]_vars, ~clobbered', ~stale', ~WipeUserData,
         AtHome, \A r \in Tab : Owned(r)
  PROVE  NewStore'
<1>1. legacy' = Nothing /\ \A t \in Tab : stage'[t] \notin Moving
  BY NewMoves
<1>2. scope'.deviceId # 0
  <2>1. ASSUME NEW t \in Tab, NameIt(t) PROVE scope'.deviceId # 0
    BY <2>1, NameItFacts DEF NameIt, NewStore, Naming
  <2> QED BY <2>1, NewWrites DEF NewStore
<1>3. Registered'
  BY RegisteredStays
<1>4. \A t \in Tab : Naming(t)'
  BY NewNaming
<1>5. FirstUpload'
  BY NewUpload
<1> QED BY <1>1, <1>2, <1>3, <1>4, <1>5 DEF NewStore

LEMMA StoreStep ==
  ASSUME TypeOK, TabInv, CopyInv, MadeInv, OneDevice, IdentityInv, StoreInv, [Next]_vars
  PROVE  StoreInv'
<1> SUFFICES ASSUME ~half', ~clobbered', ~stale' PROVE (OldStore \/ NewStore)' /\ PoolInv'
  BY DEF StoreInv, Undisturbed
<1>1. ~half /\ ~clobbered /\ ~stale
  BY HistoryStep DEF HistoryGrows
<1>2. (OldStore \/ NewStore) /\ PoolInv
  BY <1>1 DEF StoreInv, Undisturbed
<1>3. AtHome /\ \A t \in Tab : Written(t) /\ Owned(t)
  BY <1>1 DEF OneDevice, AtHome, IdentityInv
<1>4. FirstUpload
  BY <1>2 DEF OldStore, NewStore, FirstUpload
<1>5. ClaimedOnce'
  BY <1>2, <1>4, ClaimedStep
<1>6. \A t \in Tab : Sound(t)'
  BY <1>2, <1>3, <1>4, SoundStep
<1>7. (OldStore \/ NewStore)'
  BY <1>2, <1>3, OldStep, NewStep, WipeStep
<1> QED BY <1>5, <1>6, <1>7 DEF PoolInv

-----------------------------------------------------------------------------
\* What holds of every start

LEMMA BootInit == Init => BootInv
<1> SUFFICES ASSUME Init PROVE BootInv
  OBVIOUS
<1> USE DEF Init
<1>1. upgraded \in BOOLEAN /\ 0 \in DeviceId /\ 0 # None /\ OldAccount # None /\ OldAccount.otks = 1..Target
      /\ OldAccount.ident = 0
  BY CountsAssumption, NoneAssumption, NothingIsStore DEF DeviceId, OldAccount
<1>2. TypeOK
  <2>1. registry \in [DeviceId -> Account \cup {None}]
    BY NothingIsStore
  <2> QED BY <1>1, <2>1, NothingIsStore, CountsAssumption DEF TypeOK, Stage
<1>3. TabInv
  BY DEF TabInv, TabOf, Identified, Booting, Active
<1>4. CopyInv
  <2>1. \A k \in Key : legacy[k] \in {None, Old[k]}
    BY KeyCases
  <2> QED BY <2>1, KeyCases DEF CopyInv
<1>5. MadeInv
  <2>1. scope.deviceId = None /\ scope.account = None
    BY DEF Nothing
  <2>2. \A d \in DeviceId : registry[d] # None => d = 0 /\ registry[d].otks \subseteq 1..keys
    BY <1>1
  <2> QED BY <2>1, <2>2, CountsAssumption DEF MadeInv, Made
<1>6. OneDevice
  BY DEF OneDevice, Identified
<1>7. upgraded => Kept /\ \A k \in Key : scope[k] = None /\ legacy[k] # None
  BY <1>1, KeyCases DEF Kept
<1>8. IdentityInv
  BY <1>7 DEF IdentityInv, Written, Owned
<1>9. CASE upgraded
  <2>1. registry[0] = OldAccount
    BY <1>1, <1>9
  <2>2. Published(0) \subseteq OldAccount.otks /\ scope.account = None
    BY <1>1, <2>1 DEF Published, Nothing
  <2>3. OldStore
    BY <1>1, <1>7, <1>9, <2>1, <2>2 DEF OldStore, Through, Beyond, Moving, Identified
  <2>4. PoolInv
    BY DEF PoolInv, ClaimedOnce, Sound
  <2> QED BY <1>2, <1>3, <1>4, <1>5, <1>6, <1>8, <2>3, <2>4 DEF BootInv, StoreInv
<1>10. CASE ~upgraded
  <2>1. scope.deviceId = None /\ scope.account = None /\ legacy = Nothing
    BY <1>10 DEF Nothing
  <2>2. NewStore
    BY <1>1, <2>1 DEF NewStore, Registered, Naming, FirstUpload, Moving
  <2>3. PoolInv
    BY DEF PoolInv, ClaimedOnce, Sound
  <2> QED BY <1>2, <1>3, <1>4, <1>5, <1>6, <1>8, <2>2, <2>3 DEF BootInv, StoreInv
<1> QED BY <1>1, <1>9, <1>10

LEMMA BootStep == BootInv /\ [Next]_vars => BootInv'
BY TypesStep, TabStep, CopyStep, MadeStep, OneDeviceStep, IdentityStep, StoreStep DEF BootInv

\* The invariant holds at every moment of every start.
THEOREM BootHolds == Spec => []BootInv
BY BootInit, BootStep, PTL DEF Spec

\* Stores, tabs and the backend hold what their types say, whatever the tabs
\* do side by side and wherever a page is closed.
THEOREM BootTypes == Spec => []TypeOK
<1>1. BootInv => TypeOK
  BY DEF BootInv
<1> QED BY <1>1, BootHolds, PTL

\* migrateLegacyKeys() moves and never drops: the older version's id and
\* identity are in the old place or in the user's.
THEOREM NothingGetsLost == Spec => []NothingMisplaced
<1>1. BootInv => NothingMisplaced
  <2> SUFFICES ASSUME BootInv, upgraded, ~clobbered, ~stale, ~wiped
               PROVE  /\ 0 \in {legacy.deviceId, scope.deviceId}
                      /\ \/ legacy.account = OldAccount
                         \/ scope.account # None /\ scope.account.ident = 0
    BY DEF NothingMisplaced
  <2>1. \A k \in Key : legacy[k] # None \/ Moved(k)
    BY DEF BootInv, IdentityInv, Kept
  <2>2. \A k \in Key : legacy[k] \in {None, Old[k]}
    BY DEF BootInv, CopyInv
  <2> QED BY <2>1, <2>2, KeyCases DEF Moved
<1> QED BY <1>1, BootHolds, PTL

\* The tabs of an install are one device: whoever is past
\* loadOrCreateDeviceId() goes by the stored id.
THEOREM TabsAreOneDevice == Spec => []OneDevice
<1>1. BootInv => OneDevice
  BY DEF BootInv
<1> QED BY <1>1, BootHolds, PTL

\* A user who comes from an older version keeps the device and the identity.
THEOREM UpgradeKeepsTheDevice == Spec => []Adopted
<1>1. BootInv => Adopted
  <2> SUFFICES ASSUME BootInv, upgraded, Undisturbed, ~stale, ~wiped, NEW t \in Tab, stage[t] \in Identified
               PROVE  id[t] = 0 /\ (account[t] # None => account[t].ident = 0)
    BY DEF Adopted
  <2>1. Kept /\ Owned(t) /\ id[t] = scope.deviceId
    BY DEF BootInv, IdentityInv, OneDevice, Undisturbed
  <2>2. ~NewStore
    BY <2>1, KeyCases DEF NewStore, Kept, Moved
  <2>3. OldStore
    BY <2>2 DEF BootInv, StoreInv
  <2> QED BY <2>1, <2>3, OldBeyond DEF Owned, Beyond
<1> QED BY <1>1, BootHolds, PTL

\* A tab whose socket is open can be reached: activatePrimary() has registered
\* it, unless a bundle was lost.
THEOREM OpenTabsAreRegistered == Spec => []OpenIsRegistered
<1>1. BootInv => OpenIsRegistered
  <2> SUFFICES ASSUME BootInv, Undisturbed, ~unsent, ~stale, NEW t \in Tab, stage[t] = "open"
               PROVE  registry[id[t]] # None /\ registry[id[t]].ident = account[t].ident
    BY DEF OpenIsRegistered
  <2>1. /\ stage[t] \in Identified /\ account[t] # None /\ Owned(t) /\ id[t] = scope.deviceId
        /\ \A s \in Tab : stage[s] \in Active => s = t
    BY DEF BootInv, TabInv, TabOf, IdentityInv, OneDevice, Undisturbed, Identified, Active
  <2>2. CASE OldStore
    BY <2>1, <2>2, OldBeyond DEF OldStore, Owned, Beyond
  <2>3. CASE NewStore
    <3>1. \A s \in Tab : stage[s] # "uploading"
      BY <2>1 DEF Active
    <3> QED BY <2>1, <2>3, <3>1 DEF NewStore, Registered, Owned
  <2> QED BY <2>2, <2>3 DEF BootInv, StoreInv
<1> QED BY <1>1, BootHolds, PTL

\* What the backend hands out has its private half in the stored account, until
\* the message that names it is opened: keys are stored before they are
\* published, and removed from the account when they are spent.
THEOREM HandedOutKeysAreHeld == Spec => []KeysHeld
<1>1. BootInv => KeysHeld
  <2> SUFFICES ASSUME BootInv, Undisturbed, ~stale, scope.deviceId # None, scope.account # None,
                      registry[scope.deviceId] # None
               PROVE  /\ registry[scope.deviceId].otks \subseteq scope.account.otks
                      /\ {k \in 1..MaxKeys : <<scope.deviceId, k>> \in mail} \subseteq scope.account.otks
    BY DEF KeysHeld
  <2>1. Published(scope.deviceId) \subseteq scope.account.otks
    <3>1. CASE OldStore
      <4>1. scope.deviceId = 0
        BY <3>1, KeyCases DEF OldStore, Moved
      <4> QED BY <3>1, <4>1 DEF OldStore
    <3>2. CASE NewStore
      BY <3>2 DEF NewStore, Registered
    <3> QED BY <3>1, <3>2 DEF BootInv, StoreInv
  <2>2. 1..MaxKeys \subseteq Nat
    BY CountsAssumption
  <2> QED BY <2>1, <2>2 DEF Published
<1> QED BY <1>1, BootHolds, PTL
=============================================================================
