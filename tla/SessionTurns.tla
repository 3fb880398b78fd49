----------------------------- MODULE SessionTurns -----------------------------
(***************************************************************************)
(* One session of an agent: its queue of commands, the engine process that *)
(* stays alive from one turn to the next, and the end of each turn         *)
(* (services/subAgentManager.ts, services/turnSeal.ts, index.ts).          *)
(*                                                                         *)
(* The engine speaks in lines: an input was queued, an input was taken,    *)
(* the model says something, a background task starts or ends, a result.   *)
(* A result is not yet the end of the command: it is held while an input   *)
(* of the turn is unacknowledged (the channel), put aside when the command *)
(* has not spoken yet (an early result), and held for a grace period while *)
(* background work may resume the turn (the provisional seal).  The user,  *)
(* timers, the death of the process and late answers race with all three.  *)
(***************************************************************************)
EXTENDS LiveFollowUp

CONSTANTS
  MaxLines,       \* bound: lines in the pipe from the engine to the server
  MaxInputs,      \* bound: items in its input when the user asks for something
  MaxTasks,       \* bound: background tasks the engine starts
  MaxExits,       \* bound: processes that die by themselves
  MaxRestarts,    \* bound: restarts of the server
  EngineDrops,    \* whether the engine may drop an input it has queued
  ClosesInGrace,  \* whether a dead process may be noticed while the end of its turn is held
  Deletable       \* the commands a delete request meets: "queued", or started meanwhile

ASSUME SessionAssumption ==
  /\ MaxLines \in Nat /\ MaxInputs \in Nat
  /\ MaxTasks \in Nat /\ MaxExits \in Nat /\ MaxRestarts \in Nat
  /\ EngineDrops \in BOOLEAN /\ ClosesInGrace \in BOOLEAN
  /\ Deletable \subseteq {"queued", "executing"}

VARIABLES
  session,  \* the state of the server
  stdout,   \* the lines from the engine
  engine    \* the engine process (external)

vars == <<session, stdout, engine>>

NoTurn == [inFlight |-> None, spoke |-> FALSE, cut |-> FALSE, early |-> FALSE,
           fallback |-> FALSE, stopping |-> FALSE]
NoSeal == [on |-> "no", of |-> None]
NoChild == [state |-> "none", ready |-> FALSE, intentional |-> FALSE,
            tasks |-> FALSE, notices |-> FALSE]

Init ==
  /\ session =
       [queue |-> <<>>,
        cmds |-> [c \in Commands |-> Fresh],
        followUps |-> [c \in Commands |-> <<>>], pending |-> {}, sender |-> None,
        turn |-> NoTurn, seal |-> NoSeal, child |-> NoChild, chan |-> NewChannel,
        stdin |-> <<>>, given |-> [c \in Commands |-> 0]]
  /\ stdout = <<>>
  /\ engine = [busy |-> FALSE, said |-> FALSE, waiting |-> <<>>, named |-> {},
               task |-> FALSE, notice |-> FALSE, tasks |-> 0, exits |-> 0, restarts |-> 0, took |-> {}]

Line(kind, c) == [kind |-> kind, of |-> c]
ResultLine(left, names) == [kind |-> "result", left |-> left, names |-> names]

\* ---- starting a turn ----
Prompted(w, c) ==
  [w EXCEPT !.cmds[c].status = "executing",
            !.turn = [NoTurn EXCEPT !.inFlight = c],
            !.child.ready = FALSE,
            !.stdin = Append(@, [kind |-> "prompt", of |-> c]),
            !.given[c] = @ + 1]
Spawned(w) ==
  [w EXCEPT !.child.state = "live", !.child.intentional = FALSE,
            !.chan = NewChannel, !.stdin = <<>>]

\* A process whose input is closed is neither used nor replaced: the command stays queued.
Execute(w, c) ==
  IF w.child.state \in {"closing", "exited"} THEN [w EXCEPT !.child.ready = FALSE]
  ELSE IF w.child.state = "live" /\ w.child.ready THEN Prompted(BeginTurn(w), c)
  ELSE Prompted(Spawned(w), c)

ProcessNext(w) ==
  IF Busy(w) \/ Members(w.queue) \cap Waiting(w) = {} THEN w
  ELSE Execute(w, w.queue[FirstOf(w.queue, Waiting(w))])

\* ---- ending a turn ----
\* The command b is over; its completion moves it to the archive and starts the next one.
Archived(w, b) ==
  [NoHold(Left(w, b, "done")) EXCEPT !.turn = NoTurn]
\* Mutant: an end of the turn that is still held outlives the turn.
FinalizeUnderTheSeal(w, b, ready) ==
  ProcessNext([Archived(w, b) EXCEPT !.child.ready = ready])
Finalize(w, b, ready) ==
  ProcessNext([Archived(w, b) EXCEPT !.seal = NoSeal, !.child.ready = ready])

\* The held closure runs: the end of a turn, or the sleep of a session that was resumed.
RunSeal(w, seal) ==
  LET v == [w EXCEPT !.seal = NoSeal, !.child.notices = FALSE]
  IN IF seal.on = "turn" THEN Finalize(v, seal.of, TRUE) ELSE v
MayResume(w) == w.child.tasks \/ w.child.notices
SealTurn(w, seal) ==
  IF MayResume(w) THEN [w EXCEPT !.seal = seal] ELSE RunSeal(w, seal)
SealInFlight(w) ==
  SealTurn([w EXCEPT !.turn.early = FALSE], [on |-> "turn", of |-> w.turn.inFlight])

\* A result the channel does not hold (any longer).
BeforeOwnTurn(w) == ~w.turn.cut /\ ~w.turn.spoke
ResultEnds(w) ==
  IF w.turn.inFlight = None THEN SealTurn(w, [on |-> "sleep", of |-> None])
  ELSE IF BeforeOwnTurn(w)
  THEN [w EXCEPT !.seal = NoSeal, !.child.notices = FALSE, !.turn.early = TRUE]
  ELSE SealInFlight(w)

\* ---- a line of the engine ----
\* Mutant: the result does not wait for the open inputs.
DeferForNothing(w, line) ==
  LET named == line.names \cap Unsettled(w)
      v == Settled(NoHold(w), named, "accepted")
  IN IF line.left THEN [v EXCEPT !.chan.finalizing = TRUE]
     ELSE [v EXCEPT !.chan.finalizing = TRUE, !.chan.hold = TRUE]
\* Without queued work the inputs that are still unsettled get a bound of their own.
Defer(w, line) ==
  LET named == line.names \cap Unsettled(w)
      v == Settled(NoHold(w), named, "accepted")
  IN IF line.left THEN [v EXCEPT !.chan.finalizing = TRUE]
     ELSE [v EXCEPT !.chan.finalizing = TRUE, !.chan.hold = TRUE,
                    !.chan.waitFor = Unsettled(v), !.chan.timed = @ \cup Unsettled(v)]
Says(w) ==
  LET v == [NoHold(w) EXCEPT !.chan.finalizing = FALSE,
                             !.child.notices = IF w.seal.on = "no" THEN @ ELSE FALSE,
                             !.seal = NoSeal]
  IN IF w.turn.inFlight = None THEN v
     ELSE [v EXCEPT !.turn.spoke = TRUE, !.turn.early = FALSE]
HandleLine(w, line) ==
  CASE line.kind = "queued" -> Receive(w, line.of)
    [] line.kind = "taken" -> Accept(w, line.of)
    [] line.kind = "says" -> Says(w)
    [] line.kind = "taskStart" -> [w EXCEPT !.child.tasks = TRUE]
    [] line.kind = "taskEnd" -> [w EXCEPT !.child.tasks = FALSE, !.child.notices = TRUE]
    [] line.kind = "result" ->
         IF Followed(w) # {} THEN Defer(w, line) ELSE ResultEnds(w)

\* ---- interrupting and stopping ----
SettleStopped(w) ==
  LET v == [w EXCEPT !.turn.early = FALSE, !.turn.stopping = FALSE]
  IN IF w.seal.on # "no" THEN [RunSeal(v, w.seal) EXCEPT !.child.ready = FALSE]
     ELSE IF w.turn.inFlight = None THEN v
     ELSE Finalize(v, w.turn.inFlight, FALSE)
Stop(w) ==
  LET u == [w EXCEPT !.child.tasks = FALSE, !.child.notices = FALSE]
      v == [u EXCEPT !.child.intentional = TRUE,
                     !.child.state = IF @ = "live" THEN "closing" ELSE @]
  IN IF w.child.state = "none" THEN u
     ELSE IF Followed(w) # {} THEN [Cancel(v) EXCEPT !.turn.stopping = TRUE]
     ELSE SettleStopped(v)

SoftInterrupt(w) ==
  [CancelPending(w) EXCEPT
     !.turn.cut = TRUE, !.turn.fallback = TRUE,
     !.stdin = IF w.child.state = "live"
               THEN Append(@, [kind |-> "interrupt", of |-> None]) ELSE @]

Processing(w) == w.turn.inFlight # None \/ (w.child.state # "none" /\ ~w.child.ready)

\* The command c is to run now; what ends the turn that runs starts it.
Interrupted(w, c) ==
  LET v == [w EXCEPT !.queue = Prioritized(@, c, Status(w, "queued"))]
  IN IF ~Processing(v) THEN ProcessNext(v)
     ELSE IF v.seal.on # "no" THEN RunSeal(v, v.seal)
     ELSE IF v.turn.inFlight # None /\ v.child.state \in {"live", "closing"}
     THEN SoftInterrupt(v)
     ELSE Stop(v)

\* ---- what the user asks for ----
\* Continuations of settled promises come before any other event of the server.
Quiet == session.chan.due = {}
UserMay == Quiet /\ Len(session.stdin) < MaxInputs

Dispatched(w, c, m) ==
  CASE m = "immediate" -> Interrupted(w, c)
    [] m = "steer" -> ProcessNext(TrySend(w, c))
    [] m = "wait" -> ProcessNext(w)

Become(w) ==
  /\ session' = w
  /\ stdout' = stdout

Post(c, m) ==
  /\ UserMay
  /\ session.cmds[c].status = "new"
  /\ Become(Dispatched([session EXCEPT !.queue = Append(@, c), !.cmds[c].mode = m,
                                       !.cmds[c].status = "queued"], c, m))
  /\ UNCHANGED engine

\* A command that waits keeps its turn without a push; leaving "steer" makes it due.
ChangeMode(c, m) ==
  /\ UserMay
  /\ session.cmds[c].status = "queued" /\ ~Locked(session, c)
  /\ LET w == [session EXCEPT !.cmds[c].mode = m, !.cmds[c].delivery = "none"]
     IN Become(IF m = "wait" /\ session.cmds[c].mode # "steer" THEN w
               ELSE Dispatched(w, c, m))
  /\ UNCHANGED engine

Delete(c) ==
  /\ Quiet
  /\ session.cmds[c].status \in Deletable
  /\ ~Locked(session, c)
  /\ LET w == Left(session, c, "deleted")
     IN Become(IF session.cmds[c].status = "queued" THEN ProcessNext(w) ELSE w)
  /\ UNCHANGED engine

\* A command is dragged to another place; nothing is started.
Reorder(i, j) ==
  /\ Quiet
  /\ i # j
  /\ Become([session EXCEPT !.queue = Moved(@, i, j)])
  /\ UNCHANGED engine

\* What waits is dropped first, then the turn is stopped; a turn without a process is closed.
Dropped(w) == { c \in Status(w, "queued") : ~Locked(w, c) }
WithoutDropped(w) ==
  [w EXCEPT !.queue = Kept(@, Commands \ Dropped(w)),
            !.cmds = [c \in Commands |-> IF c \in Dropped(w)
                                         THEN Left(w, c, "deleted").cmds[c] ELSE @[c]]]
SealedIfDead(w) ==
  IF w.child.state # "none" \/ Executing(w) = {} THEN w
  ELSE LET b == CHOOSE c \in Executing(w) : TRUE
       IN Left(w, b, "done")
StopSession ==
  /\ Quiet
  /\ Become(SealedIfDead(Stop(WithoutDropped(session))))
  /\ UNCHANGED engine

\* ---- what happens to the server ----
ReadLine ==
  /\ stdout # <<>>
  /\ session' = HandleLine(session, Head(stdout))
  /\ stdout' = Tail(stdout)
  /\ UNCHANGED engine

Continue(c) ==
  /\ c \in session.chan.due
  /\ Become(ProcessNext(Concluded(session, c)))
  /\ UNCHANGED engine

\* Every delivery of the turn has been recorded and no newer result has come.
HeldResultEnds ==
  /\ Quiet
  /\ session.chan.hold /\ ~session.chan.closed
  /\ session.chan.waitFor \cap Unsettled(session) = {}
  /\ Become(ResultEnds(NoHold(session)))
  /\ UNCHANGED engine

ReceiptTimesOut(c) ==
  /\ Quiet
  /\ c \in session.chan.timed
  /\ Become(Reject(session, {c}))
  /\ UNCHANGED engine

\* After 90 s the early result is taken for the end of the turn, open inputs or not.
EarlyResultExpires ==
  /\ Quiet
  /\ session.turn.early
  /\ Become(SealInFlight(session))
  /\ UNCHANGED engine

\* Mutant: the held end of a turn is dropped instead of run.
SealDropped ==
  /\ Quiet
  /\ session.seal.on # "no"
  /\ Become([session EXCEPT !.seal = NoSeal, !.child.notices = FALSE])
  /\ UNCHANGED engine
SealExpires ==
  /\ Quiet
  /\ session.seal.on # "no"
  /\ Become(RunSeal(session, session.seal))
  /\ UNCHANGED engine

InterruptExpires ==
  /\ Quiet
  /\ session.turn.fallback
  /\ LET w == [session EXCEPT !.turn.fallback = FALSE]
     IN Become(IF w.seal.on # "no" THEN RunSeal(w, w.seal) ELSE Stop(w))
  /\ UNCHANGED engine

StopSettles ==
  /\ Quiet
  /\ session.turn.stopping
  /\ Become(SettleStopped(session))
  /\ UNCHANGED engine

Dead == [engine EXCEPT !.busy = FALSE, !.said = FALSE, !.waiting = <<>>, !.named = {},
                       !.task = FALSE, !.notice = FALSE]

\* The end of the process is noticed twice: at its exit and when its pipes are closed.
ChildExits ==
  /\ Quiet
  /\ \/ session.child.state = "closing"
     \/ session.child.state = "live" /\ engine.exits < MaxExits
  /\ session' = [Cancel(session) EXCEPT !.child.state = "exited", !.stdin = <<>>]
  /\ engine' = [Dead EXCEPT !.exits = IF session.child.state = "live" THEN @ + 1 ELSE @]
  /\ UNCHANGED stdout

Closed(w) ==
  LET v == [w EXCEPT !.child = [NoChild EXCEPT !.notices = w.child.notices /\ ~w.child.tasks],
                     !.turn = NoTurn]
      b == w.turn.inFlight
  IN IF w.child.intentional
     THEN IF b = None THEN ProcessNext(v) ELSE Finalize(v, b, FALSE)
     ELSE IF b = None THEN v ELSE ProcessNext(Archived(v, b))
ChildCloses ==
  /\ Quiet
  /\ session.child.state = "exited" /\ stdout = <<>>
  /\ ClosesInGrace \/ session.child.intentional \/ session.seal.on # "turn"
  /\ Become(Closed(session))
  /\ UNCHANGED engine

\* Every five seconds: a session with commands to run and none that runs is pushed again.
Watchdog ==
  /\ Quiet
  /\ Executing(session) = {}
  /\ \E c \in Status(session, "queued") : ~LockedRecord(session, c)
  /\ Become(ProcessNext(session))
  /\ UNCHANGED engine

TranscriptShows(c) ==
  /\ Quiet
  /\ LockedRecord(session, c) /\ c \in engine.took
  /\ session.cmds[session.cmds[c].target].status \in {"queued", "executing", "done"}
  /\ Become(SettleLocked(session, c))
  /\ UNCHANGED engine

\* The server restarts from its checkpoint.  What was being delivered is unknown, what was
\* running is sent again (a custom agent's session) or closed.
Restored(w, resumes) ==
  LET back(c) ==
        CASE w.cmds[c].delivery \in {"sending", "received"} ->
               [w.cmds[c] EXCEPT !.delivery = "uncertain"]
          [] c \in Untouched(w) -> [w.cmds[c] EXCEPT !.delivery = "unavailable"]
          [] w.cmds[c].status = "executing" ->
               [w.cmds[c] EXCEPT !.status = "queued", !.resumed = TRUE]
          [] OTHER -> w.cmds[c]
      v == [w EXCEPT !.cmds = [c \in Commands |-> back(c)], !.pending = {}, !.sender = None,
                     !.turn = NoTurn, !.seal = NoSeal, !.child = NoChild,
                     !.chan = NewChannel, !.stdin = <<>>]
  IN IF resumes \/ Executing(w) = {} THEN v
     ELSE Left(v, CHOOSE c \in Executing(w) : TRUE, "done")
Restart ==
  /\ engine.restarts < MaxRestarts
  /\ \E resumes \in BOOLEAN : session' = Restored(session, resumes)
  /\ stdout' = <<>>
  /\ engine' = [Dead EXCEPT !.restarts = @ + 1]

\* ---- the engine (external) ----
Alive == session.child.state \in {"live", "closing"}
Room == Len(stdout) < MaxLines
Emit(line) == stdout' = Append(stdout, line)
Inputs == { i \in DOMAIN engine.waiting : engine.waiting[i].kind = "input" }
At(i) == engine.waiting[i].of
Unqueued(i) ==
  SubSeq(engine.waiting, 1, i - 1) \o SubSeq(engine.waiting, i + 1, Len(engine.waiting))

EngineReads ==
  /\ Alive /\ Room /\ session.stdin # <<>>
  /\ session' = [session EXCEPT !.stdin = Tail(@)]
  /\ LET item == Head(session.stdin)
     IN CASE item.kind = "interrupt" ->
               IF ~engine.busy THEN UNCHANGED <<stdout, engine>>
               ELSE /\ Emit(ResultLine(engine.waiting # <<>>, engine.named))
                    /\ engine' = [engine EXCEPT !.busy = FALSE, !.named = {}]
          [] item.kind = "input" ->
               /\ Emit(Line("queued", item.of))
               /\ engine' = [engine EXCEPT !.waiting = Append(@, item)]
          [] item.kind = "prompt" ->
               /\ UNCHANGED stdout
               /\ engine' = [engine EXCEPT !.waiting = Append(@, item)]

\* A notice of a background task opens a turn of its own; otherwise the first in line does.
EngineStarts ==
  /\ Alive /\ Room /\ ~engine.busy
  /\ \/ /\ engine.notice
        /\ UNCHANGED stdout
        /\ engine' = [engine EXCEPT !.busy = TRUE, !.said = FALSE, !.notice = FALSE]
     \/ /\ engine.waiting # <<>>
        /\ LET item == Head(engine.waiting)
           IN /\ engine' = [engine EXCEPT !.busy = TRUE, !.said = FALSE, !.waiting = Tail(@),
                              !.took = IF item.kind = "input" THEN @ \cup {item.of} ELSE @]
              /\ IF item.kind = "input" THEN Emit(Line("taken", item.of)) ELSE UNCHANGED stdout
  /\ UNCHANGED session

\* At a step boundary the turn takes the first input: it is told at once, or by the result.
EngineTakes ==
  /\ Alive /\ Room /\ engine.busy /\ Inputs # {}
  /\ LET i == CHOOSE i \in Inputs : \A j \in Inputs : i <= j
     IN \/ /\ Emit(Line("taken", At(i)))
           /\ engine' = [engine EXCEPT !.waiting = Unqueued(i), !.said = FALSE,
                                       !.took = @ \cup {At(i)}]
        \/ /\ UNCHANGED stdout
           /\ engine' = [engine EXCEPT !.waiting = Unqueued(i), !.said = FALSE,
                                       !.took = @ \cup {At(i)}, !.named = @ \cup {At(i)}]
  /\ UNCHANGED session

EngineLoses ==
  /\ EngineDrops
  /\ Alive /\ Inputs # {}
  /\ \E i \in Inputs : engine' = [engine EXCEPT !.waiting = Unqueued(i)]
  /\ UNCHANGED <<session, stdout>>

EngineSpeaks ==
  /\ Alive /\ Room /\ engine.busy /\ ~engine.said
  /\ Emit(Line("says", None))
  /\ engine' = [engine EXCEPT !.said = TRUE]
  /\ UNCHANGED session

EngineEnds ==
  /\ Alive /\ Room /\ engine.busy
  /\ Emit(ResultLine(engine.waiting # <<>>, engine.named))
  /\ engine' = [engine EXCEPT !.busy = FALSE, !.named = {}]
  /\ UNCHANGED session

EngineTask ==
  /\ Alive /\ Room
  /\ \/ /\ engine.busy /\ ~engine.task /\ engine.tasks < MaxTasks
        /\ Emit(Line("taskStart", None))
        /\ engine' = [engine EXCEPT !.task = TRUE, !.tasks = @ + 1]
     \/ /\ engine.task
        /\ Emit(Line("taskEnd", None))
        /\ engine' = [engine EXCEPT !.task = FALSE, !.notice = TRUE]
  /\ UNCHANGED session

User ==
  \/ \E c \in Commands, m \in Modes : Post(c, m) \/ ChangeMode(c, m)
  \/ \E c \in Commands : Delete(c)
  \/ \E i, j \in DOMAIN session.queue : Reorder(i, j)
  \/ StopSession

Server ==
  \/ ReadLine \/ HeldResultEnds \/ EarlyResultExpires \/ SealExpires \/ InterruptExpires
  \/ StopSettles \/ ChildExits \/ ChildCloses \/ Restart \/ Watchdog
  \/ \E c \in Commands : Continue(c) \/ ReceiptTimesOut(c) \/ TranscriptShows(c)

Engine ==
  EngineReads \/ EngineStarts \/ EngineTakes \/ EngineLoses \/ EngineSpeaks \/ EngineEnds
  \/ EngineTask

Next == User \/ Server \/ Engine

Spec == Init /\ [][Next]_vars

\* A line of the pipe, as ReadLine takes it.
LineType ==
  [kind : {"queued", "taken"}, of : Commands]
    \cup [kind : {"says", "taskStart", "taskEnd"}, of : {None}]
    \cup [kind : {"result"}, left : BOOLEAN, names : SUBSET Commands]
EngineType ==
  [busy : BOOLEAN, said : BOOLEAN, waiting : Seq(ItemType), named : SUBSET Commands,
   task : BOOLEAN, notice : BOOLEAN, tasks : 0..MaxTasks, exits : 0..MaxExits, restarts : 0..MaxRestarts,
   took : SUBSET Commands]
TypeOK == session \in Session /\ stdout \in Seq(LineType) /\ engine \in EngineType

Recorders(c) == { b \in Commands : c \in Members(session.followUps[b]) }

\* A command is in the queue once, or over, or recorded once under exactly one turn, however
\* its receipt, a restart and the transcript found it (trySendLiveFollowUp's splice,
\* settleLockedLiveFollowUp, archiveCompletedCommands, prioritizeImmediateFollowUp).
EveryCommandHasItsPlace ==
  /\ NoRepeat(session.queue)
  /\ \A c \in Commands :
       /\ c \in Members(session.queue) <=> session.cmds[c].status \in {"queued", "executing"}
       /\ Cardinality(Recorders(c)) = IF session.cmds[c].status = "recorded" THEN 1 ELSE 0
       /\ NoRepeat(session.followUps[c])

\* No text reaches an engine twice, except a turn that restarts cut and sent again; an input
\* said to be unsent was never written; one said to be delivered was taken by the engine
\* (liveFollowUp.ts:105, "never replay it").
NothingIsGivenTwice ==
  \A c \in Commands :
    /\ session.given[c] <= IF session.cmds[c].resumed THEN 1 + engine.restarts ELSE 1
    /\ session.cmds[c].delivery = "unavailable" /\ ~session.cmds[c].resumed
         => session.given[c] = 0
    /\ session.cmds[c].status = "recorded" => c \in engine.took

\* One turn at a time: the queue, the manager's in-flight entry, the held end of the turn and
\* the open inputs all speak of the same command, and a living process is idle exactly when
\* nothing is in flight, so that no process is ever spawned over one that lives (the guards
\* of processNextCommand, execute and sealTurn).
OneTurnAtATime ==
  /\ Executing(session) = {session.turn.inFlight} \ {None}
  /\ session.turn.inFlight # None => session.child.state # "none"
  /\ session.seal.on = "turn" => session.seal.of = session.turn.inFlight
  /\ session.child.state = "live" => (session.child.ready <=> session.turn.inFlight = None)
  /\ \A c \in session.pending : Executing(session) \subseteq {session.cmds[c].target}

\* An input whose delivery is unknown is never sent again, closed or dropped: it stays as it
\* is until the transcript shows that the engine took it, whoever stops or restarts what.
UnknownStaysUnknown ==
  [][\A c \in Commands :
       session.cmds[c].delivery = "uncertain" =>
         \/ /\ session'.cmds[c] = session.cmds[c]
            /\ session'.given[c] = session.given[c]
         \/ session'.cmds[c].status = "recorded" /\ c \in engine.took]_vars

\* A result that came before the command had said anything is taken for its end, or is held
\* as its end.
GivesUp(w) == w.turn.early \/ (w.seal.on # "no" /\ ~w.turn.spoke)

\* While its process lives, the turn of an open input ends only when that input is recorded
\* or known to be unknown (`deferResult`), with one exception: a command that never spoke is
\* given up 90 s after an early result, and its input stays open beyond its turn.  Then the
\* session starts nothing until the input is settled (OneTurnAtATime).
TurnsEndWithTheirInputs ==
  [][\A b \in Executing(session), c \in session.pending :
       /\ session'.cmds[b].status = "done" /\ session.cmds[c].target = b
       /\ session'.child.state = "live"
       => c \notin session'.pending \/ GivesUp(session)]_vars

\* The loop of the server runs: of the lines, continuations, timers that are due and ends of
\* processes told to end, something is handled.  A living engine reads its input, starts what
\* it was given and ends what it started.
Loop ==
  \/ ReadLine \/ \E c \in session.chan.due : Continue(c)
  \/ HeldResultEnds \/ EarlyResultExpires \/ SealExpires \/ InterruptExpires \/ StopSettles
  \/ \E c \in session.chan.timed : ReceiptTimesOut(c)
  \/ (session.child.state = "closing" /\ ChildExits) \/ ChildCloses \/ Watchdog
EngineGoesOn == EngineReads \/ EngineStarts \/ EngineEnds
Fairness == WF_vars(Loop) /\ WF_vars(EngineGoesOn)
FairSpec == Spec /\ Fairness

\* Every input that was sent is settled one way or the other: while one is open the queue
\* starts nothing, and it does not wait for ever (pendingSessions, pendingCommands).
InputsSettle == session.pending # {} ~> session.pending = {}

\* Every command that waits or runs comes to an end of that: it is done, stopped, deleted or
\* made an input, through held results, provisional seals, early results, crashes and restarts.
CommandsMoveOn ==
  \A c \in Commands :
    c \in Waiting(session) \cup Executing(session)
      ~> c \notin Waiting(session) \cup Executing(session)

\* subAgentManager.ts:1696 on a held end that is merely dropped: the command would stay
\* "executing" in the queue for ever; and :6080, an end still held when the process exits or
\* crashes is discarded, for that path settles the command.
NobodyRunsUnwatched == Executing(session) \subseteq {session.turn.inFlight}
=============================================================================
