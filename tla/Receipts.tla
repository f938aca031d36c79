------------------------------- MODULE Receipts -------------------------------
(***************************************************************************)
(* Receipts between this device and one peer (src/index.ts): the read      *)
(* watermark markRead() moves, tells the peer and records as told; the     *)
(* self-echo by which a sibling says that it told the peer; the unread     *)
(* count of the conversation list (src/conversations.ts); and the batch of *)
(* `received' receipts.                                                    *)
(*                                                                         *)
(* Texts are numbered by their sentAt.  Others run between the steps of    *)
(* markRead(), of the self-echo's handler and of setLastReadSent(); a look *)
(* into the message store belongs to the step it serves, and so does the   *)
(* count behind a badge.  A write to the store is durable when it is made. *)
(***************************************************************************)
EXTENDS Naturals, Sequences, FiniteSets, SequencesExt

CONSTANTS
  LastSentAt,  \* bound: texts are sent at 1..LastSentAt
  Own,         \* those this user sends; the others are the peer's
  Call,        \* runs of markRead(), and of the handler of a sibling's `read'
  FlushSize,   \* RECEIVED_BATCH_FLUSH_SIZE
  MaxCrashes   \* bound

ASSUME ReceiptsAssumption == LastSentAt \in Nat /\ FlushSize \in Nat \ {0} /\ MaxCrashes \in Nat /\ Own \subseteq 1..LastSentAt

Text == 1..LastSentAt

VARIABLES
  stored, dead,       \* texts in the message store; those that are tombstones
  lastMessageAt, lastReadFromPeerAt, \* the row of the conversation; 0 where there is none
  lastReadSent,       \* the watermark told to the peer, in the store; 0 is none
  readReceipts,       \* the preference
  call,               \* where each run is, and its watermark
  pendingReceived, receivedFlushTimer, \* receipts waiting, and their timer
  badge,              \* the totalUnread dispatched last
  crashes,            \* counted for the bound
  \* history
  tellings,           \* watermarks given to the outbox, and those siblings said they told
  highest,            \* the highest given to the outbox or recorded here
  raced,              \* two runs were recording what was told at the same time
  cut,                \* a crash between telling and recording
  settled,            \* `received' receipts given to sendContent(), or gone with the page
  unlisted            \* a late text or a tombstone changed the count since the last event

store == <<stored, dead, lastMessageAt, lastReadFromPeerAt>>
told == <<tellings, highest, raced, cut>>
batch == <<pendingReceived, receivedFlushTimer, settled>>
list == <<badge, unlisted>>
receiptVars == <<store, lastReadSent, readReceipts, call, batch, list, crashes, told>>

Idle == [at |-> "idle", upTo |-> 0]
At == {"idle", "bumping", "gating", "sending", "adopting", "recalling", "storing"}

ReceiptsTypeOK ==
  /\ stored \subseteq Text /\ dead \subseteq Text
  /\ lastMessageAt \in 0..LastSentAt /\ lastReadFromPeerAt \in 0..LastSentAt
  /\ lastReadSent \in 0..LastSentAt /\ readReceipts \in BOOLEAN
  /\ call \in [Call -> [at : At, upTo : 0..LastSentAt]]
  /\ receivedFlushTimer \in BOOLEAN
  /\ badge \in Nat /\ crashes \in Nat
  /\ tellings \subseteq Text /\ highest \in 0..LastSentAt
  /\ raced \in BOOLEAN /\ cut \in BOOLEAN /\ unlisted \in BOOLEAN

ReceiptsInit ==
  /\ stored = {} /\ dead = {}
  /\ lastMessageAt = 0 /\ lastReadFromPeerAt = 0 /\ lastReadSent = 0
  /\ readReceipts = TRUE
  /\ call = [c \in Call |-> Idle]
  /\ pendingReceived = <<>> /\ receivedFlushTimer = FALSE
  /\ settled = {}
  /\ badge = 0 /\ unlisted = FALSE
  /\ crashes = 0
  /\ tellings = {} /\ highest = 0 /\ raced = FALSE /\ cut = FALSE

Larger(a, b) == IF a >= b THEN a ELSE b

-----------------------------------------------------------------------------
\* The conversation list

Unread(texts, tombs, read) == Cardinality({t \in texts : t \notin Own \cup tombs /\ t > read})

\* emitConversationsChanged(), when the row changed.
Emit(changed, silent) ==
  IF changed THEN badge' = Unread(stored', dead', lastReadFromPeerAt') /\ unlisted' = FALSE
  ELSE unlisted' = (unlisted \/ silent) /\ UNCHANGED badge

\* A text is put, and the row follows (onMessageStored).  A late text of the
\* peer leaves the row alone, and then nothing is emitted.  A text that comes
\* again, as it was retried, replaces what was made of it.
Store(t) ==
  /\ stored' = stored \cup {t} /\ dead' = dead \ {t}
  /\ lastMessageAt' = Larger(lastMessageAt, t)
  /\ lastReadFromPeerAt' = IF t \in Own THEN Larger(lastReadFromPeerAt, t) ELSE lastReadFromPeerAt
  /\ Emit(lastMessageAt' # lastMessageAt \/ lastReadFromPeerAt' # lastReadFromPeerAt,
          t \in dead \/ (t \notin Own /\ t < lastMessageAt))

\* applyDelete() of a text of the peer.
Bury(t) ==
  /\ dead' = IF t \in stored \ Own THEN dead \cup {t} ELSE dead
  /\ unlisted' = (unlisted \/ t \in stored \ Own)
  /\ UNCHANGED <<stored, lastMessageAt, lastReadFromPeerAt, badge>>

\* The messages and the row go.
Wipe ==
  /\ stored' = {} /\ dead' = {}
  /\ lastMessageAt' = 0 /\ lastReadFromPeerAt' = 0
  /\ Emit(TRUE, FALSE)

DeleteConversation == Wipe /\ UNCHANGED <<lastReadSent, readReceipts, call, batch, crashes, told>>

-----------------------------------------------------------------------------
\* markRead(), and the handler of a self-echoed `read'

Move(c, at) == call' = [call EXCEPT ![c].at = at]
Done(c) == call' = [call EXCEPT ![c] = Idle]

\* Runs that have told the peer, or are about to, and not recorded it yet.
Recording == {c \in Call : call[c].at \in {"sending", "recalling", "storing"}}
Race == raced' = (raced \/ Cardinality(Recording') > 1)

MarkRead(c, t) ==
  /\ call[c].at = "idle"
  /\ call' = [call EXCEPT ![c] = [at |-> "bumping", upTo |-> t]]
  /\ UNCHANGED <<store, lastReadSent, readReceipts, batch, list, crashes, told>>

\* The handler of an echo that says a sibling has told the peer.
HearEcho(c, t) ==
  /\ call[c].at = "idle"
  /\ call' = [call EXCEPT ![c] = [at |-> "adopting", upTo |-> t]]
  /\ UNCHANGED <<store, lastReadSent, readReceipts, batch, list, crashes, highest, raced, cut>>

\* Mutant: the row changes and nobody hears of it.
BumpQuietly(c) ==
  LET t == call[c].upTo
  IN /\ call[c].at \in {"bumping", "adopting"}
     /\ lastReadFromPeerAt' = IF t \in stored THEN Larger(lastReadFromPeerAt, t) ELSE lastReadFromPeerAt
     /\ IF call[c].at = "bumping" THEN Move(c, "gating") ELSE Done(c)
     /\ UNCHANGED <<stored, dead, lastMessageAt, list, lastReadSent, readReceipts, batch, crashes, told>>

\* bumpReadWatermark(): nothing for a text that is not stored.
Bump(c) ==
  LET t == call[c].upTo
  IN /\ call[c].at \in {"bumping", "adopting"}
     /\ lastReadFromPeerAt' = IF t \in stored THEN Larger(lastReadFromPeerAt, t) ELSE lastReadFromPeerAt
     /\ IF call[c].at = "bumping" THEN Move(c, "gating")
        ELSE IF t \in stored THEN Move(c, "recalling") ELSE Done(c)
     /\ Race
     /\ UNCHANGED <<stored, dead, lastMessageAt>>
     /\ Emit(lastReadFromPeerAt' # lastReadFromPeerAt, FALSE)
     /\ UNCHANGED <<lastReadSent, readReceipts, batch, crashes, tellings, highest, cut>>

\* Mutant: the last watermark told does not matter.
GateOpen(c) ==
  /\ call[c].at = "gating"
  /\ IF readReceipts /\ call[c].upTo \in stored THEN Move(c, "sending") ELSE Done(c)
  /\ Race
  /\ UNCHANGED <<store, lastReadSent, readReceipts, batch, list, crashes, tellings, highest, cut>>

\* The preference, the text and the last watermark told are read.
Gate(c) ==
  /\ call[c].at = "gating"
  /\ IF readReceipts /\ call[c].upTo \in stored /\ call[c].upTo > lastReadSent
     THEN Move(c, "sending") ELSE Done(c)
  /\ Race
  /\ UNCHANGED <<store, lastReadSent, readReceipts, batch, list, crashes, tellings, highest, cut>>

\* Mutant: a send that throws is not looked at.
SendReadCareless(c) ==
  /\ call[c].at = "sending"
  /\ \/ /\ tellings' = tellings \cup {call[c].upTo}
        /\ highest' = Larger(highest, call[c].upTo)
     \/ UNCHANGED <<tellings, highest>>
  /\ Move(c, "recalling")
  /\ UNCHANGED <<store, lastReadSent, readReceipts, batch, list, crashes, raced, cut>>

\* sendContent() puts the receipt into the outbox, or throws: the peer has no
\* devices, a request failed, encryption failed.
SendRead(c) ==
  /\ call[c].at = "sending"
  /\ \/ /\ tellings' = tellings \cup {call[c].upTo}
        /\ highest' = Larger(highest, call[c].upTo)
        /\ Move(c, "recalling")
     \/ /\ Done(c)
        /\ UNCHANGED <<tellings, highest>>
  /\ UNCHANGED <<store, lastReadSent, readReceipts, batch, list, crashes, raced, cut>>

\* When the siblings have been told, setLastReadSent() reads what is recorded ...
Recall(c) ==
  /\ call[c].at = "recalling"
  /\ IF lastReadSent >= call[c].upTo THEN Done(c) ELSE Move(c, "storing")
  /\ UNCHANGED <<store, lastReadSent, readReceipts, batch, list, crashes, told>>

\* ... and records a higher watermark.
Record(c) ==
  /\ call[c].at = "storing"
  /\ lastReadSent' = call[c].upTo
  /\ highest' = Larger(highest, call[c].upTo)
  /\ Done(c)
  /\ UNCHANGED <<store, readReceipts, batch, list, crashes, tellings, raced, cut>>

SetReadReceiptsEnabled ==
  /\ readReceipts' = ~readReceipts
  /\ UNCHANGED <<store, lastReadSent, call, batch, list, crashes, told>>

-----------------------------------------------------------------------------
\* `received' receipts

\* flushReceivedBatch(): whether the send works is not looked at.
Flush(events) ==
  /\ receivedFlushTimer' = FALSE
  /\ pendingReceived' = <<>>
  /\ settled' = settled \cup ToSet(events)

\* queueReceivedAck(): a full batch is flushed at once, the others by the timer.
QueueReceivedAck(e) ==
  IF Len(pendingReceived) + 1 >= FlushSize
  THEN Flush(Append(pendingReceived, e))
  ELSE /\ pendingReceived' = Append(pendingReceived, e)
       /\ receivedFlushTimer' = TRUE
       /\ UNCHANGED settled

FlushTimer ==
  /\ receivedFlushTimer
  /\ Flush(pendingReceived)
  /\ UNCHANGED <<store, lastReadSent, readReceipts, call, list, crashes, told>>

\* The page is closed or reloaded: what is in the store is left.
Crash ==
  /\ crashes < MaxCrashes /\ crashes' = crashes + 1
  /\ cut' = (cut \/ Recording # {})
  /\ call' = [c \in Call |-> Idle]
  /\ settled' = settled \cup ToSet(pendingReceived)
  /\ pendingReceived' = <<>> /\ receivedFlushTimer' = FALSE
  /\ UNCHANGED <<store, lastReadSent, readReceipts, list>>
  /\ UNCHANGED <<tellings, highest, raced>>

Run(c) == Bump(c) \/ Gate(c) \/ SendRead(c) \/ Recall(c) \/ Record(c)

-----------------------------------------------------------------------------
\* What this device has recorded as told, the peer was told: by this device,
\* whose outbox had the receipt before, or by a sibling that said so.  A send
\* that throws leaves the record alone, so that the next markRead() repeats it.
RecordedIsTold == lastReadSent \in tellings \cup {0}

\* Every read receipt says more than those before it and than what siblings were
\* heard to have said: reloads, repeated calls and failed sends do not make it
\* repeat itself.  The exceptions are two runs that record at once, as
\* setLastReadSent() reads and then writes, and a crash between telling and
\* recording.
ReceiptsAdvance ==
  [][\A c \in Call : call[c].at = "sending" /\ call'[c].at = "recalling"
                     => raced \/ cut \/ call[c].upTo > highest]_receiptVars

\* The badge the application was told last is the unread count, except that a
\* late text and a tombstone change the count without an event.
BadgeCurrent ==
  ~unlisted => badge = Unread(stored, dead, lastReadFromPeerAt)
=============================================================================
