---------------------------- MODULE Conversation ----------------------------
(***************************************************************************)
(* One conversation between two users, as each of their devices stores it  *)
(* (src/index.ts, src/message_store.ts, src/conversations.ts): the rows of *)
(* the message store, the row of the conversation index and the delete     *)
(* watermark, under texts, edits, deletes of one message, and deletes of   *)
(* the whole conversation "for me" and "for everyone".                     *)
(*                                                                         *)
(* Every event goes to the other devices of both users and is handled at   *)
(* most once by each of them, in any order: InboundDelivery says why.      *)
(* Handlers suspend at their awaits, so that those of one device may       *)
(* interleave.  Writes to the store are served in the order issued, and a  *)
(* wipe of several rows is one step.                                       *)
(*                                                                         *)
(* Clocks are taken to be synchronised and to tick between any two events: *)
(* an event is named by its clientSentAt, its position in `log`.  The      *)
(* 24-hour edit window, drafts that fail to encrypt and the deprecated     *)
(* deleteConversation() are left out.                                      *)
(***************************************************************************)
EXTENDS Naturals, Sequences, FiniteSets

CONSTANTS
  Mine,      \* the devices of one user
  Theirs,    \* the devices of the other
  MaxEvents, \* bound: events all devices create
  Concurrent, \* bound: the devices on which two jobs may be in progress
  MaxBusy    \* bound: devices with jobs in progress

ASSUME DevicesAssumption == Mine \cap Theirs = {}
ASSUME BoundsAssumption == MaxEvents \in Nat /\ MaxBusy \in Nat

Device == Mine \cup Theirs
Stamp == 1..MaxEvents

\* Two devices of one user.
Siblings(d, e) == d \in Mine <=> e \in Mine

VARIABLES
  log,       \* every event created, in the order of clientSentAt
  mail,      \* copies on their way: the device and the event
  rows,      \* the message store of a device
  index,     \* ConvIndexRow.lastMessageAt, 0 without a row
  watermark, \* the delete watermark of a device
  jobs,      \* handlers and calls in progress on a device
  \* history
  handled,   \* the events a device has handled, in that order
  disturbed, \* devices that began on an event while in the middle of another
  unguarded, \* texts a device stored without raising its watermark
  retro      \* <<wipe, text>>: a peer's wipe removed a text sent after it

store == <<rows, index, watermark>>
chatHistory == <<handled, disturbed, unguarded, retro>>
chatVars == <<log, mail, rows, index, watermark, jobs, handled, disturbed, unguarded, retro>>

Kind == {"text", "edit", "delete", "wipeSelf", "wipeAll"}
Event == [kind : Kind, by : Device, of : Nat]
Row == [at : Stamp, edit : Nat, dead : BOOLEAN]
\* A job names its event, 0 for one not created yet, and keeps what its
\* handler read: the watermark, or the rows it is to write or remove.
Job == [at : Nat, seen : Nat, snap : SUBSET Row,
        phase : {"bump", "put", "index", "ship", "apply", "guard", "wipe", "unindex", "mark"}]

ChatTypeOK ==
  /\ log \in Seq(Event)
  /\ mail \subseteq Device \X Stamp
  /\ rows \in [Device -> SUBSET Row]
  /\ index \in [Device -> Nat]
  /\ watermark \in [Device -> Nat]
  /\ jobs \in [Device -> SUBSET Job]
  /\ handled \in [Device -> Seq(Stamp)]
  /\ disturbed \subseteq Device
  /\ unguarded \in [Device -> SUBSET Stamp]
  /\ retro \in [Device -> SUBSET (Stamp \X Stamp)]

ChatInit ==
  /\ log = <<>>
  /\ mail = {}
  /\ rows = [d \in Device |-> {}]
  /\ index = [d \in Device |-> 0]
  /\ watermark = [d \in Device |-> 0]
  /\ jobs = [d \in Device |-> {}]
  /\ handled = [d \in Device |-> <<>>]
  /\ disturbed = {}
  /\ unguarded = [d \in Device |-> {}]
  /\ retro = [d \in Device |-> {}]

-----------------------------------------------------------------------------
\* The message store.

At(R) == {r.at : r \in R}
Text(t) == [at |-> t, edit |-> 0, dead |-> FALSE]

\* put() of a row, over whatever is stored under its id.
Store(R, new) == {r \in R : r.at \notin At(new)} \cup new

\* Mutant: a tombstone can be edited.
EditableTombstone(R, t) == {r \in R : r.at = t}

\* What applyEdit() finds to edit: not a row that is tombstoned.
Editable(R, t) == {r \in R : r.at = t /\ ~r.dead}

\* What applyDelete() finds to tombstone.
Deletable(R, t) == {r \in R : r.at = t}

\* onMessageStored(): a message older than the last one does not rewind.
LastMessage(last, t) == IF t < last THEN last ELSE t

-----------------------------------------------------------------------------
\* Beginning and ending.

NewJob(t, phase, seen, snap) == [at |-> t, phase |-> phase, seen |-> seen, snap |-> snap]

\* Device d begins on something.  Steps of two devices commute, as a device
\* creates its events when it begins and sends them when it is done: a small
\* MaxBusy leaves out next to nothing.
Begins(d) ==
  /\ Cardinality(jobs[d]) < IF d \in Concurrent THEN 2 ELSE 1
  /\ Cardinality({e \in Device : jobs[e] # {}} \cup {d}) <= MaxBusy
  /\ disturbed' = IF jobs[d] = {} THEN disturbed ELSE disturbed \cup {d}

\* Device d begins on event t.
Began(d, t) ==
  /\ Begins(d)
  /\ handled' = [handled EXCEPT ![d] = Append(@, t)]

Advance(d, j, k) == jobs' = [jobs EXCEPT ![d] = (@ \ {j}) \cup {k}]
Finish(d, j) == jobs' = [jobs EXCEPT ![d] = @ \ {j}]

\* Copies for every other device; "for me" stays among the siblings.
Others(d, kind) == {e \in Device \ {d} : kind = "wipeSelf" => Siblings(d, e)}
Broadcast(d, t, kind) == mail' = mail \cup (Others(d, kind) \X {t})

\* A new event of device d.
Create(kind, d, of) ==
  /\ Len(log) < MaxEvents
  /\ log' = Append(log, [kind |-> kind, by |-> d, of |-> of])

\* The clientSentAt of the event created next.
Now == Len(log) + 1

\* An event of the device itself.
Own(d, j) == log[j.at].by = d

\* The row event t of a device changes, and what becomes of it.
Target(d, t) ==
  IF log[t].kind = "edit" THEN Editable(rows[d], log[t].of) ELSE Deletable(rows[d], log[t].of)
Change(r, t) ==
  IF log[t].kind = "edit" THEN [r EXCEPT !.edit = t] ELSE [r EXCEPT !.dead = TRUE]

-----------------------------------------------------------------------------
\* Calls of the application.

\* sendText(), up to the read of the watermark.
SendText(d) ==
  /\ Create("text", d, 0)
  /\ Began(d, Now)
  /\ jobs' = [jobs EXCEPT ![d] = @ \cup {NewJob(Now, "bump", watermark[d], {})}]
  /\ UNCHANGED <<mail, store, unguarded, retro>>

\* editMessage() and deleteMessage() of an own message, up to the send.
ChangeMessage(d, kind, t) ==
  /\ t \in At(rows[d])
  /\ Siblings(d, log[t].by)
  /\ Create(kind, d, t)
  /\ Began(d, Now)
  /\ jobs' = [jobs EXCEPT ![d] = @ \cup {NewJob(Now, "ship", 0, {})}]
  /\ UNCHANGED <<mail, store, unguarded, retro>>

\* deleteConversationForEveryone(), up to the list of rows to remove.
DeleteForEveryone(d) ==
  /\ Create("wipeAll", d, 0)
  /\ Began(d, Now)
  /\ jobs' = [jobs EXCEPT ![d] = @ \cup {NewJob(Now, "wipe", 0, rows[d])}]
  /\ UNCHANGED <<mail, store, unguarded, retro>>

\* deleteConversationForMe(), up to the list of rows to remove; its event is
\* created when they are gone.
DeleteForMe(d) ==
  /\ Len(log) < MaxEvents
  /\ \A j \in jobs[d] : j.at # 0
  /\ Begins(d)
  /\ jobs' = [jobs EXCEPT ![d] = @ \cup {NewJob(0, "wipe", 0, rows[d])}]
  /\ UNCHANGED <<log, mail, store, handled, unguarded, retro>>

-----------------------------------------------------------------------------
\* Events of other devices, dispatchInboundEvent().

Arrives(d, t, kind) ==
  /\ <<d, t>> \in mail
  /\ log[t].kind = kind
  /\ mail' = mail \ {<<d, t>>}
  /\ Began(d, t)
  /\ UNCHANGED log

\* A text of the peer: the watermark is read first.
PeerText(d, t) ==
  /\ Arrives(d, t, "text")
  /\ ~Siblings(d, log[t].by)
  /\ jobs' = [jobs EXCEPT ![d] = @ \cup {NewJob(t, "bump", watermark[d], {})}]
  /\ UNCHANGED <<store, unguarded, retro>>

\* A self-echoed text is stored whatever the watermark is.
EchoText(d, t) ==
  /\ Arrives(d, t, "text")
  /\ Siblings(d, log[t].by)
  /\ rows' = [rows EXCEPT ![d] = Store(@, {Text(t)})]
  /\ unguarded' = [unguarded EXCEPT ![d] = @ \cup {t}]
  /\ jobs' = [jobs EXCEPT ![d] = @ \cup {NewJob(t, "index", 0, {})}]
  /\ UNCHANGED <<index, watermark, retro>>

\* An edit or the tombstone of one message, of the peer or self-echoed: the row
\* is read first.
Changed(d, t, kind) ==
  /\ Arrives(d, t, kind)
  /\ jobs' = [jobs EXCEPT ![d] = @ \cup {NewJob(t, "apply", 0, Target(d, t))}]
  /\ UNCHANGED <<store, unguarded, retro>>

\* The peer deleted the conversation for everyone: the watermark is read first.
PeerWipe(d, t) ==
  /\ Arrives(d, t, "wipeAll")
  /\ ~Siblings(d, log[t].by)
  /\ jobs' = [jobs EXCEPT ![d] = @ \cup {NewJob(t, "guard", watermark[d], {})}]
  /\ UNCHANGED <<store, unguarded, retro>>

\* A sibling deleted it, for me or for everyone: no look at the watermark.
EchoWipe(d, t) ==
  /\ Arrives(d, t, "wipeAll") \/ Arrives(d, t, "wipeSelf")
  /\ Siblings(d, log[t].by)
  /\ jobs' = [jobs EXCEPT ![d] = @ \cup {NewJob(t, "wipe", 0, rows[d])}]
  /\ UNCHANGED <<store, unguarded, retro>>

-----------------------------------------------------------------------------
\* The rest of a handler or call, await by await.

\* Re-engagement raises the watermark of a conversation deleted before.
Raises(d, j) == j.seen > 0 /\ (Own(d, j) \/ j.at > j.seen)

Bump(d, j) ==
  /\ j.phase = "bump"
  /\ Raises(d, j)
  /\ watermark' = [watermark EXCEPT ![d] = j.at]
  /\ Advance(d, j, [j EXCEPT !.phase = "put"])
  /\ UNCHANGED <<log, mail, rows, index, chatHistory>>

Put(d, j) ==
  /\ j.phase = "put" \/ (j.phase = "bump" /\ ~Raises(d, j))
  /\ rows' = [rows EXCEPT ![d] = Store(@, {Text(j.at)})]
  /\ unguarded' = IF j.phase = "bump" THEN [unguarded EXCEPT ![d] = @ \cup {j.at}] ELSE unguarded
  /\ Advance(d, j, [j EXCEPT !.phase = "index"])
  /\ UNCHANGED <<log, mail, index, watermark, handled, disturbed, retro>>

\* bumpConversation(); an own text is then sent and self-echoed.
Index(d, j) ==
  /\ j.phase = "index"
  /\ index' = [index EXCEPT ![d] = LastMessage(@, j.at)]
  /\ IF Own(d, j) THEN Broadcast(d, j.at, "text") ELSE UNCHANGED mail
  /\ Finish(d, j)
  /\ UNCHANGED <<log, rows, watermark, chatHistory>>

\* An own edit or delete has been sent: applyEdit() or applyDelete() reads.
Ship(d, j) ==
  /\ j.phase = "ship"
  /\ Advance(d, j, [j EXCEPT !.phase = "apply", !.snap = Target(d, j.at)])
  /\ UNCHANGED <<log, mail, store, chatHistory>>

\* The row is put back as it was read, changed.  The copies of an own edit or
\* delete are placed here, where it is self-echoed.
Apply(d, j) ==
  /\ j.phase = "apply"
  /\ rows' = [rows EXCEPT ![d] = Store(@, {Change(r, j.at) : r \in j.snap})]
  /\ IF Own(d, j) THEN Broadcast(d, j.at, log[j.at].kind) ELSE UNCHANGED mail
  /\ Finish(d, j)
  /\ UNCHANGED <<log, index, watermark, chatHistory>>

\* A stale delete-for-everyone is dropped.
GuardDrops(d, j) ==
  /\ j.phase = "guard"
  /\ j.at <= j.seen
  /\ Finish(d, j)
  /\ UNCHANGED <<log, mail, store, chatHistory>>

\* Mutant: a stale wipe is accepted where there is a watermark to compare with.
GuardAcceptsStale(d, j) ==
  /\ j.phase = "guard"
  /\ j.at > j.seen \/ j.seen > 0
  /\ Advance(d, j, [j EXCEPT !.phase = "wipe", !.snap = rows[d]])
  /\ UNCHANGED <<log, mail, store, chatHistory>>

\* A delete-for-everyone sent after the watermark: deleteForPeer() lists.
GuardAccepts(d, j) ==
  /\ j.phase = "guard"
  /\ j.at > j.seen
  /\ Advance(d, j, [j EXCEPT !.phase = "wipe", !.snap = rows[d]])
  /\ UNCHANGED <<log, mail, store, chatHistory>>

\* deleteForPeer() removes what it listed.
Wipe(d, j) ==
  /\ j.phase = "wipe"
  /\ rows' = [rows EXCEPT ![d] = {r \in @ : r.at \notin At(j.snap)}]
  /\ retro' = IF j.at # 0 /\ ~Siblings(d, log[j.at].by)
              THEN [retro EXCEPT ![d] = @ \cup ({j.at} \X {t \in At(j.snap) : t > j.at})]
              ELSE retro
  /\ Advance(d, j, [j EXCEPT !.phase = "unindex", !.snap = {}])
  /\ UNCHANGED <<log, mail, index, watermark, handled, disturbed, unguarded>>

\* conversations.delete().
Unindex(d, j) ==
  /\ j.phase = "unindex"
  /\ index' = [index EXCEPT ![d] = 0]
  /\ Advance(d, j, [j EXCEPT !.phase = "mark"])
  /\ UNCHANGED <<log, mail, rows, watermark, chatHistory>>

\* setDeleteWatermark(); an own delete for everyone is then sent.
Mark(d, j) ==
  /\ j.phase = "mark"
  /\ j.at # 0
  /\ watermark' = [watermark EXCEPT ![d] = j.at]
  /\ IF Own(d, j) THEN Broadcast(d, j.at, "wipeAll") ELSE UNCHANGED mail
  /\ Finish(d, j)
  /\ UNCHANGED <<log, rows, index, chatHistory>>

\* setDeleteWatermark() to now, and the event "for me" for the siblings.
MarkSelf(d, j) ==
  /\ j.phase = "mark"
  /\ j.at = 0
  /\ Create("wipeSelf", d, 0)
  /\ watermark' = [watermark EXCEPT ![d] = Now]
  /\ Broadcast(d, Now, "wipeSelf")
  /\ handled' = [handled EXCEPT ![d] = Append(@, Now)]
  /\ Finish(d, j)
  /\ UNCHANGED <<rows, index, disturbed, unguarded, retro>>

Call(d) ==
  \/ SendText(d)
  \/ \E t \in Stamp : ChangeMessage(d, "edit", t) \/ ChangeMessage(d, "delete", t)
  \/ DeleteForEveryone(d)
  \/ DeleteForMe(d)

Inbound(d, t) ==
  \/ PeerText(d, t)
  \/ EchoText(d, t)
  \/ Changed(d, t, "edit")
  \/ Changed(d, t, "delete")
  \/ PeerWipe(d, t)
  \/ EchoWipe(d, t)

Step(d, j) ==
  \/ Bump(d, j)
  \/ Put(d, j)
  \/ Index(d, j)
  \/ Ship(d, j)
  \/ Apply(d, j)
  \/ GuardDrops(d, j)
  \/ GuardAccepts(d, j)
  \/ Wipe(d, j)
  \/ Unindex(d, j)
  \/ Mark(d, j)
  \/ MarkSelf(d, j)

ChatNext ==
  \E d \in Device :
    \/ Call(d)
    \/ \E t \in Stamp : Inbound(d, t)
    \/ \E j \in jobs[d] : Step(d, j)

ChatSpec == ChatInit /\ [][ChatNext]_chatVars

-----------------------------------------------------------------------------
AtRest(d) == jobs[d] = {} /\ d \notin disturbed

HandledOn(d) == {handled[d][i] : i \in 1..Len(handled[d])}
InOrder(d) == \A i, k \in 1..Len(handled[d]) : i < k => handled[d][i] < handled[d][k]

\* What a conversation should look like after the events E of a log l: the texts
\* since the last wipe, each with its last edit and its tombstone.
Wipes(l, E) == {w \in E : l[w].kind \in {"wipeSelf", "wipeAll"}}
Texts(l, E) == {t \in E : l[t].kind = "text" /\ \A w \in Wipes(l, E) : w < t}
Tombs(l, E, t) == {x \in E : l[x].kind = "delete" /\ l[x].of = t}
Edits(l, E, t) == {e \in E : l[e].kind = "edit" /\ l[e].of = t /\ \A x \in Tombs(l, E, t) : e < x}
Newest(S) == IF S = {} THEN 0 ELSE CHOOSE e \in S : \A f \in S : f <= e
Shown(l, E, t) == [at |-> t, edit |-> Newest(Edits(l, E, t)), dead |-> Tombs(l, E, t) # {}]
View(l, E) == {Shown(l, E, t) : t \in Texts(l, E)}

\* A device that handles the events in the order they were sent, one at a time,
\* stores exactly what they say (index.ts dispatchInboundEvent and the calls,
\* message_store.ts): no watermark drops what it should not, no edit revives
\* what is deleted.
OrderedView ==
  \A d \in Device : AtRest(d) /\ InOrder(d) => rows[d] = View(log, HandledOn(d))

\* A delete for everyone of the peer removes a message sent after it only when
\* that message did not raise the watermark: an own or echoed one, or one that
\* came while no watermark was set (index.ts 2004-2012, 2115-2135).
RaisedIsSafe ==
  \A d \in Device \ disturbed : \A p \in retro[d] : p[2] \in unguarded[d]

\* A row that an edit or tombstone is to put back was written or removed after
\* it was read.
Stale(d) == \E j \in jobs[d] : j.phase = "apply" /\ ~(j.snap \subseteq rows[d])

\* Whatever overlaps, and in whatever order the events come: a row appears only
\* as a new text, and a tombstone stays as it is until it is removed.  What was
\* removed or tombstoned comes back only by way of a stale row (message_store.ts
\* applyEdit(), applyDelete(): get() and put() with an await in between).
NothingReturns ==
  [][\A d \in Device : ~Stale(d) =>
       \A r \in rows'[d] :
         \/ r = Text(r.at) /\ r.at \notin At(rows[d])
         \/ \E s \in rows[d] : s.at = r.at /\ (s.dead => r = s)]_chatVars

=============================================================================
