-------------------------------- MODULE Typing --------------------------------
(***************************************************************************)
(* The typing indicator (src/typing.ts): keystrokes become `started' and   *)
(* `stopped' signals, `started' is repeated at most every StartedRefresh   *)
(* while the user types, and a timer stops what nobody stopped.            *)
(*                                                                         *)
(* Time is kept relative: `since' is how long ago `started' was emitted,   *)
(* up to StartedRefresh, and `timer' how long the auto-stop timer still    *)
(* runs.  A timer fires at its time or late, never early.  What is emitted *)
(* goes out as an ephemeral; what becomes of it there is not modelled.     *)
(***************************************************************************)
EXTENDS Naturals

CONSTANTS
  Peer,
  StartedRefresh,   \* STARTED_REFRESH_MS
  AutoStoppedAfter, \* AUTO_STOPPED_AFTER_MS
  NoTimer

ASSUME TimesAssumption ==
  /\ StartedRefresh \in Nat \ {0} /\ AutoStoppedAfter \in Nat \ {0}
  /\ NoTimer \notin Nat

VARIABLES
  isActive, \* of the peers the manager knows
  since,    \* how long ago lastStartedAt is
  timer,    \* autoStopTimer
  said      \* history: what was emitted last

typing == <<isActive, since, timer, said>>

State == {"none", "active", "inactive"}

TypingTypeOK ==
  /\ isActive \in [Peer -> State]
  /\ since \in [Peer -> 0..StartedRefresh]
  /\ timer \in [Peer -> 0..AutoStoppedAfter \cup {NoTimer}]
  /\ said \in [Peer -> {"stopped", "started"}]

TypingInit ==
  /\ isActive = [p \in Peer |-> "none"]
  /\ since = [p \in Peer |-> 0]
  /\ timer = [p \in Peer |-> NoTimer]
  /\ said = [p \in Peer |-> "stopped"]

Started(p) == said' = [said EXCEPT ![p] = "started"]
Stopped(p) == said' = [said EXCEPT ![p] = "stopped"]

\* Mutant: the timer of the run before is not replaced.
ScheduleOnce(p) ==
  timer' = [timer EXCEPT ![p] = IF isActive[p] = "none" THEN AutoStoppedAfter ELSE @]

scheduleAutoStop(p) == timer' = [timer EXCEPT ![p] = AutoStoppedAfter]
cancelAutoStop(p) == timer' = [timer EXCEPT ![p] = NoTimer]

\* setTyping(p, true), when the peer is new or its run has ended ...
StartTyping(p) ==
  /\ isActive[p] # "active"
  /\ isActive' = [isActive EXCEPT ![p] = "active"]
  /\ since' = [since EXCEPT ![p] = 0]
  /\ scheduleAutoStop(p)
  /\ Started(p)

\* ... and in the middle of one.
KeepTyping(p) ==
  /\ isActive[p] = "active"
  /\ scheduleAutoStop(p)
  /\ IF since[p] >= StartedRefresh
     THEN since' = [since EXCEPT ![p] = 0] /\ Started(p)
     ELSE UNCHANGED <<since, said>>
  /\ UNCHANGED isActive

\* setTyping(p, false), and clearOnSend(p): nothing unless a run is going on.
StopTyping(p) ==
  /\ isActive[p] = "active"
  /\ isActive' = [isActive EXCEPT ![p] = "inactive"]
  /\ cancelAutoStop(p)
  /\ Stopped(p)
  /\ UNCHANGED since

\* The auto-stop timer; isActive is looked at again.
AutoStop(p) ==
  /\ timer[p] = 0
  /\ cancelAutoStop(p)
  /\ IF isActive[p] = "active"
     THEN isActive' = [isActive EXCEPT ![p] = "inactive"] /\ Stopped(p)
     ELSE UNCHANGED <<isActive, said>>
  /\ UNCHANGED since

\* shutdown(): the timers are gone, and nothing is emitted.
Shutdown ==
  /\ isActive' = [p \in Peer |-> "none"]
  /\ timer' = [p \in Peer |-> NoTimer]
  /\ UNCHANGED <<since, said>>

Later(n) == IF n < StartedRefresh THEN n + 1 ELSE n

Tick ==
  /\ since' = [p \in Peer |-> Later(since[p])]
  /\ timer' = [p \in Peer |-> IF timer[p] \in {NoTimer, 0} THEN timer[p] ELSE timer[p] - 1]
  /\ UNCHANGED <<isActive, said>>

TypingNext ==
  \/ \E p \in Peer : StartTyping(p) \/ KeepTyping(p) \/ StopTyping(p) \/ AutoStop(p)
  \/ Shutdown
  \/ Tick

TypingSpec == TypingInit /\ [][TypingNext]_typing

-----------------------------------------------------------------------------
\* The peer never sees an indicator that nobody will stop: what was said last
\* is `started' just as long as a run is going on, and a run has a timer, which
\* ends it at most AutoStoppedAfter after the last keystroke.  A shutdown is
\* the exception: it forgets the run and says nothing.
IndicatorEnds ==
  \A p \in Peer :
    /\ isActive[p] = "active" <=> timer[p] # NoTimer
    /\ said[p] = "started" => isActive[p] \in {"active", "none"}
    /\ said[p] = "stopped" => isActive[p] # "active"
=============================================================================
