----------------------------- MODULE LiveFollowUp -----------------------------
(***************************************************************************)
(* The queue of one session and the delivery of its live inputs: follow-up *)
(* messages that go into the turn that is running instead of waiting for   *)
(* the next one (services/liveFollowUp.ts, services/claudeLiveFollowUp.ts, *)
(* deliverLiveFollowUp and processNextCommand of index.ts).                *)
(*                                                                         *)
(* The module has no variables: a handler of the server runs to its end    *)
(* without interruption and calls the next one synchronously, so each is   *)
(* an operator from the state of the session before it to the state after  *)
(* it, and SessionTurns composes them.  A state of the session is a record *)
(* w of type Session.                                                      *)
(***************************************************************************)
EXTENDS Lists

CONSTANTS
  Commands,  \* bound: the commands a user gives the session
  OwnTurn,   \* commands that never share a turn: needsOwnTurn
  None

ASSUME FollowUpAssumption == OwnTurn \subseteq Commands /\ None \notin Commands

Modes == {"wait", "steer", "immediate"}
\* A command that has left the queue is done, recorded under a turn, or deleted.
Statuses == {"new", "queued", "executing", "done", "recorded", "deleted"}
Deliveries == {"none", "sending", "received", "uncertain", "unavailable"}
\* What the channel knows of an input; "none" is one it does not follow in this turn.
Phases == {"none", "sent", "received", "accepted", "rejected"}

CommandType ==
  [status: Statuses, mode: Modes, delivery: Deliveries, target: Commands \cup {None},
   resumed: BOOLEAN]
TurnType ==
  [inFlight: Commands \cup {None}, spoke: BOOLEAN, cut: BOOLEAN, early: BOOLEAN,
   fallback: BOOLEAN, stopping: BOOLEAN]
SealType == [on: {"no", "turn", "sleep"}, of: Commands \cup {None}]
ChildType ==
  [state: {"none", "live", "closing", "exited"}, ready: BOOLEAN, intentional: BOOLEAN,
   tasks: BOOLEAN, notices: BOOLEAN]
ChannelType ==
  [phase: [Commands -> Phases], timed: SUBSET Commands, closed: BOOLEAN,
   finalizing: BOOLEAN, hold: BOOLEAN, waitFor: SUBSET Commands, due: SUBSET Commands]
ItemType == [kind: {"prompt", "input", "interrupt"}, of: Commands \cup {None}]
Session ==
  [queue: Seq(Commands), cmds: [Commands -> CommandType],
   followUps: [Commands -> Seq(Commands)], pending: SUBSET Commands,
   sender: Commands \cup {None}, turn: TurnType, seal: SealType, child: ChildType,
   chan: ChannelType, stdin: Seq(ItemType), given: [Commands -> Nat]]

Status(w, s) == { c \in Commands : w.cmds[c].status = s }
Executing(w) == Status(w, "executing")
Unsettled(w) == { c \in Commands : w.chan.phase[c] \in {"sent", "received"} }
Followed(w) == { c \in Commands : w.chan.phase[c] # "none" }

\* Mutant: only an input that is being delivered is protected.
LockedWhileSent(w, c) == c \in w.pending
Locked(w, c) ==
  c \in w.pending \/ w.cmds[c].delivery \in {"sending", "received", "uncertain"}
\* The record of an input whose delivery is unknown: nothing sends it again.
LockedRecord(w, c) ==
  w.cmds[c].status = "queued" /\ w.cmds[c].mode = "steer" /\ w.cmds[c].delivery = "uncertain"

\* ---- the channel to the engine ----
CanSend(w) ==
  /\ w.child.state = "live" /\ ~w.chan.closed /\ ~w.chan.finalizing
  /\ w.turn.inFlight # None /\ ~w.turn.cut /\ w.seal.on = "no"

NewChannel ==
  [phase |-> [c \in Commands |-> "none"], timed |-> {}, closed |-> FALSE,
   finalizing |-> FALSE, hold |-> FALSE, waitFor |-> {}, due |-> {}]
BeginTurn(w) == [w EXCEPT !.chan = [NewChannel EXCEPT !.closed = w.chan.closed]]

\* A newer result version voids the result that is held.
NoHold(w) == [w EXCEPT !.chan.hold = FALSE, !.chan.waitFor = {}]

\* The promises of S settle; what their callers do with it follows (Continue).
Settled(w, S, outcome) ==
  [w EXCEPT !.chan.phase = [c \in Commands |-> IF c \in S THEN outcome ELSE @[c]],
            !.chan.timed = @ \ S,
            !.chan.due = @ \cup S]
Accept(w, c) ==
  IF c \notin Unsettled(w) THEN w
  ELSE LET v == Settled(w, {c}, "accepted")
       IN IF c \in w.chan.waitFor THEN NoHold(v) ELSE v
Reject(w, S) == Settled(w, S \cap Unsettled(w), "rejected")
CancelPending(w) == Reject(NoHold(w), Commands)
\* Mutant: nobody tells those who wait for a receipt that the process is gone.
CancelQuietly(w) == [NoHold(w) EXCEPT !.chan.closed = TRUE]
Cancel(w) == [CancelPending(w) EXCEPT !.chan.closed = TRUE]

\* ---- one input into the turn that runs ----
TurnTakesInput(w) ==
  Cardinality(Executing(w)) = 1 /\ Executing(w) \cap OwnTurn = {} /\ CanSend(w)

Refuse(w, S) ==
  [w EXCEPT !.cmds = [c \in Commands |->
     IF c \in S THEN [@[c] EXCEPT !.delivery = "unavailable"] ELSE @[c]]]
Send(w, c) ==
  [w EXCEPT !.cmds[c].delivery = "sending",
            !.cmds[c].target = CHOOSE b \in Executing(w) : TRUE,
            !.pending = @ \cup {c}, !.sender = c,
            !.chan.phase[c] = "sent", !.chan.timed = @ \cup {c},
            !.stdin = Append(@, [kind |-> "input", of |-> c]),
            !.given[c] = @ + 1]

\* Mutant: an input that was refused may be tried again.
UntouchedOrRefused(w) ==
  { c \in Commands : /\ w.cmds[c].status = "queued" /\ w.cmds[c].mode = "steer"
                     /\ w.cmds[c].delivery \in {"none", "uncertain"} }
\* A live input that nothing has been tried with yet.
Untouched(w) ==
  { c \in Commands : /\ w.cmds[c].status = "queued" /\ w.cmds[c].mode = "steer"
                     /\ w.cmds[c].delivery = "none" }

TrySend(w, c) ==
  IF c \notin Untouched(w) \/ w.sender # None THEN w
  ELSE IF TurnTakesInput(w) /\ c \notin OwnTurn THEN Send(w, c)
  ELSE Refuse(w, {c})

\* In the order of the queue: refused ones are passed over, the first that goes out ends it.
Drain(w) ==
  LET sendable == IF TurnTakesInput(w) THEN Untouched(w) \ OwnTurn ELSE {}
  IN IF w.sender # None THEN w
     ELSE IF sendable = {} THEN Refuse(w, Untouched(w))
     ELSE LET p == FirstOf(w.queue, sendable)
              passed == { w.queue[i] : i \in 1..(p - 1) } \cap Untouched(w)
          IN Send(Refuse(w, passed), w.queue[p])

Release(w, c) == [w EXCEPT !.sender = IF @ = c THEN None ELSE @]

\* The engine has queued the input: the session may send its next one.
Receive(w, c) ==
  IF w.chan.phase[c] # "sent" THEN w
  ELSE LET v == [w EXCEPT !.chan.phase[c] = "received", !.chan.timed = @ \ {c}]
       IN IF c \notin w.pending \/ w.cmds[c].delivery # "sending" THEN v
          ELSE Drain(Release([v EXCEPT !.cmds[c].delivery = "received"], c))

Fresh == [status |-> "new", mode |-> "wait", delivery |-> "none", target |-> None,
          resumed |-> FALSE]
\* The command c leaves the queue: only why is of interest then.
Left(w, c, why) ==
  [w EXCEPT !.queue = Without(@, c),
            !.cmds[c] = [Fresh EXCEPT !.status = why, !.resumed = w.cmds[c].resumed]]
Record(w, c, b) == Left([w EXCEPT !.followUps[b] = Append(@, c)], c, "recorded")

\* What trySendLiveFollowUp does once the promise of send() has settled, up to onSettled.
Concluded(w, c) ==
  LET v == IF w.chan.phase[c] = "accepted" THEN Record(w, c, w.cmds[c].target)
           ELSE [w EXCEPT !.cmds[c].delivery = "uncertain"]
  IN Drain(Release([v EXCEPT !.pending = @ \ {c}, !.chan.due = @ \ {c}], c))

\* The transcript of the engine shows it took an input whose delivery was unknown.
SettleLocked(w, c) ==
  LET b == w.cmds[c].target
  IN IF c \in Members(w.followUps[b])
     THEN Left(w, c, "recorded")
     ELSE Record(w, c, b)

\* ---- the queue ----
\* Mutant: the command is inserted before it is taken out.
PrioritizedTwice(q, c, waiting) ==
  LET p == FirstOf(q, waiting)
  IN IF Members(q) \cap waiting = {} THEN q
     ELSE SubSeq(q, 1, p - 1) \o <<c>> \o SubSeq(q, p, Len(q))
\* An immediate command goes before the first command that waits.
Prioritized(q, c, waiting) ==
  LET r == Without(q, c)
      p == FirstOf(r, waiting)
  IN IF Members(r) \cap waiting = {} THEN q
     ELSE SubSeq(r, 1, p - 1) \o <<c>> \o SubSeq(r, p, Len(r))

\* The member at place i goes to place j; the others close the gap and make room.
Moved(q, i, j) ==
  LET r == Without(q, q[i])
  IN SubSeq(r, 1, j - 1) \o <<q[i]>> \o SubSeq(r, j, Len(r))

Busy(w) == Executing(w) # {} \/ w.pending # {}
Waiting(w) == { c \in Commands : w.cmds[c].status = "queued" /\ w.cmds[c].mode # "steer" }
=============================================================================
