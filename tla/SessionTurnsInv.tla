--------------------------- MODULE SessionTurnsInv ---------------------------
(***************************************************************************)
(* What is always true of a session and its engine, strong enough to be    *)
(* proved by induction.  A handler composes many operators, so most of it  *)
(* is said of a state w of the session; n is the number of restarts and T  *)
(* the inputs the engine took.                                             *)
(***************************************************************************)
EXTENDS SessionTurns

\* What is written to the engine, what it has not begun yet, and what it says: nothing it
\* has not taken is said to be taken.
WrittenType ==
  [kind : {"prompt", "input"}, of : Commands] \cup [kind : {"interrupt"}, of : {None}]
UnreadType == [kind : {"prompt", "input"}, of : Commands]
SaidType(T) ==
  [kind : {"queued"}, of : Commands] \cup [kind : {"taken"}, of : T]
    \cup [kind : {"says", "taskStart", "taskEnd"}, of : {None}]
    \cup [kind : {"result"}, left : BOOLEAN, names : SUBSET T]

\* The queue holds what is queued or executing, once; a turn records an input once, and no
\* other turn does.
Placed(w) ==
  /\ NoRepeat(w.queue)
  /\ \A c \in Commands :
       c \in Members(w.queue) <=> w.cmds[c].status \in {"queued", "executing"}
  /\ \A c \in Commands :
       w.cmds[c].status = "recorded" <=> \E b \in Commands : c \in Members(w.followUps[b])
  /\ \A a, b, c \in Commands :
       c \in Members(w.followUps[a]) /\ c \in Members(w.followUps[b]) => a = b
  /\ \A b \in Commands : NoRepeat(w.followUps[b])

\* Only an input that still is in the queue has a delivery, and one that was sent a target.
Tried(w) ==
  \A c \in Commands : w.cmds[c].delivery # "none" =>
    /\ w.cmds[c].status = "queued" /\ w.cmds[c].mode = "steer"
    /\ w.cmds[c].delivery # "unavailable" => w.cmds[c].target \in Commands

\* The open inputs are those the channel has not settled and those whose continuation has
\* not run.  The held result waits for all of them, and the end of a turn that spoke is held
\* only when there are none; the turn that an early result may end has not spoken.
OpenInputs(w) ==
  /\ \A c \in w.pending : w.cmds[c].delivery \in {"sending", "received"}
  /\ w.pending = Unsettled(w) \cup w.chan.due
  /\ \A c \in w.chan.due : w.chan.phase[c] \in {"accepted", "rejected"}
  /\ w.sender # None => w.sender \in w.pending
  /\ w.child.state # "live" => Unsettled(w) = {}
  /\ w.chan.hold => w.chan.finalizing /\ Unsettled(w) \subseteq w.chan.waitFor
  /\ w.seal.on # "no" => ~w.turn.spoke \/ w.pending = {}

\* What is in flight and what is held is of a command that ran.
Began == {"executing", "done", "deleted"}
TurnKnown(w) ==
  /\ w.seal.on = "turn" => w.seal.of \in Commands /\ w.cmds[w.seal.of].status \in Began
  /\ w.turn.inFlight # None => w.cmds[w.turn.inFlight].status \in Began
  /\ w.turn.early => w.turn.inFlight # None /\ ~w.turn.spoke
  /\ w.turn.stopping => w.child.state \in {"closing", "exited"}

\* How often a command may have been written: once, and again after each restart.
Again(w, c, n) == IF w.cmds[c].resumed THEN n ELSE 0
GivenOnce(w, n) ==
  \A c \in Commands :
    /\ w.given[c] <= 1 + Again(w, c, n)
    /\ w.cmds[c].status = "new" => w.given[c] = 0
    /\ w.cmds[c].status = "queued" /\ w.cmds[c].delivery \in {"none", "unavailable"}
         => w.given[c] <= Again(w, c, n)

TakenOnly(w, T) ==
  \A c \in Commands : w.cmds[c].status = "recorded" \/ w.chan.phase[c] = "accepted" => c \in T

Good(w, n, T) ==
  /\ n \in Nat /\ w \in Session /\ w.stdin \in Seq(WrittenType)
  /\ Placed(w) /\ Tried(w) /\ OpenInputs(w) /\ TurnKnown(w) /\ GivenOnce(w, n) /\ TakenOnly(w, T)

EngineGood(e, lines) ==
  /\ e \in EngineType
  /\ e.waiting \in Seq(UnreadType)
  /\ e.named \subseteq e.took
  /\ lines \in Seq(SaidType(e.took))

TurnsInv == Good(session, engine.restarts, engine.took) /\ EngineGood(engine, stdout)

\* One turn at a time: OneTurnAtATime, said of a state of the session.
OneTurn(w) ==
  /\ Executing(w) = {w.turn.inFlight} \ {None}
  /\ w.turn.inFlight # None => w.child.state # "none"
  /\ w.seal.on = "turn" => w.seal.of = w.turn.inFlight
  /\ w.child.state = "live" => (w.child.ready <=> w.turn.inFlight = None)
  /\ \A c \in w.pending : Executing(w) \subseteq {w.cmds[c].target}

\* From w to v a turn that was one stays one, and no turn ends over an open input unless an
\* early result is given up or the process does not live.
Finishes(w, v) == \E b \in Executing(w) : v.cmds[b].status = "done"
EndsInOrder(w, v) ==
  Finishes(w, v) => GivesUp(w) \/ w.pending = {} \/ v.child.state # "live"
Orderly(w, v) == (OneTurn(w) => OneTurn(v)) /\ EndsInOrder(w, v)

\* From w to v an input whose delivery is unknown stays as it is.
Leaves(w, v) ==
  \A c \in Commands : w.cmds[c].delivery = "uncertain" =>
    v.cmds[c] = w.cmds[c] /\ v.given[c] = w.given[c]

(***************************************************************************)
(* What becomes of an open input: its receipt runs, or the engine has it,  *)
(* or a line that tells what became of it is in the pipe.                  *)
(***************************************************************************)
InPhase(w, p) == { c \in Commands : w.chan.phase[c] = p }

\* The inputs that were handed to an engine: never handed out again.
Handed(w) ==
  { c \in Commands : \/ w.cmds[c].status = "recorded"
                     \/ w.cmds[c].delivery \in {"sending", "received", "uncertain"} }

\* The inputs the engine has not read, and those it said it queued; those it holds; and those
\* whose fate is in the pipe.
Written(w) ==
  { c \in Commands : \E i \in DOMAIN w.stdin : w.stdin[i] = [kind |-> "input", of |-> c] }
Announced == { c \in Commands : \E i \in DOMAIN stdout : stdout[i] = Line("queued", c) }
WithEngine == { At(i) : i \in Inputs } \cup engine.named
Told ==
  { c \in Commands : \E i \in DOMAIN stdout :
      \/ stdout[i] = Line("taken", c)
      \/ stdout[i].kind = "result" /\ c \in stdout[i].names }

TraceInv ==
  /\ Written(session) \cup Announced \subseteq Handed(session)
  /\ InPhase(session, "sent") \subseteq session.chan.timed
  /\ EngineDrops \/ InPhase(session, "received") \cup (InPhase(session, "sent") \cap Announced)
                      \subseteq WithEngine \cup Told

\* The safety half of InputsSettle.  An input the queue waits for has its continuation due, or
\* its receipt still runs, or the engine that lives has it or has told what became of it:
\* unless the engine drops inputs, nothing is waited for that nobody is going to settle.
OpenInputsAreTraced ==
  \A c \in session.pending :
    \/ c \in session.chan.due
    \/ c \in session.chan.timed
    \/ /\ session.chan.phase[c] = "received" /\ session.child.state = "live"
       /\ EngineDrops \/ c \in WithEngine \cup Told

\* From w to v what was handed out stays so, only what is handed out is written, no input is
\* received, and one is sent with its timer and only if it never was before.
Carries(w, v) ==
  /\ Handed(w) \subseteq Handed(v)
  /\ Written(v) \subseteq Written(w) \cup Handed(v)
  /\ InPhase(v, "received") \subseteq InPhase(w, "received")
  /\ InPhase(v, "sent") \subseteq InPhase(w, "sent") \cup (Commands \ Handed(w))
  /\ InPhase(v, "sent") \ v.chan.timed \subseteq InPhase(w, "sent") \ w.chan.timed
=============================================================================
