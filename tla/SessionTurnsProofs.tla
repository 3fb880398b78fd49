--------------------------- MODULE SessionTurnsProofs ---------------------------
(***************************************************************************)
(* The inductive invariant of a session and its engine, and what follows   *)
(* from it.  The lemmas follow the operators from the inside out: each     *)
(* keeps a session good and leaves alone what is unknown.                  *)
(***************************************************************************)
EXTENDS SessionTurnsInv, ListsProofs

\* An immediate command that is moved ahead of those that wait (prioritizeImmediateFollowUp).
LEMMA PutAhead ==
  ASSUME NEW X, NEW q \in Seq(X), NoRepeat(q), NEW c \in X, c \in Members(q), NEW waiting
  PROVE  LET r == Prioritized(q, c, waiting)
         IN r \in Seq(X) /\ NoRepeat(r) /\ Members(r) = Members(q)
<1> DEFINE r == Without(q, c)
           p == FirstOf(r, waiting)
<1>1. r \in Seq(X) /\ NoRepeat(r) /\ Members(r) = Members(q) \ {c}
  BY TakenOut
<1>2. CASE Members(r) \cap waiting = {}
  BY <1>2 DEF Prioritized
<1>3. CASE Members(r) \cap waiting # {}
  <2>1. p \in 1..(Len(r) + 1)
    <3>1. p \in DOMAIN r
      BY <1>1, <1>3, FirstIsFound
    <3> QED
      BY <3>1, <1>1
  <2> HIDE DEF p, r
  <2>2. LET s == SubSeq(r, 1, p - 1) \o <<c>> \o SubSeq(r, p, Len(r))
        IN s \in Seq(X) /\ NoRepeat(s) /\ Members(s) = Members(r) \cup {c}
    BY <1>1, <2>1, PutIn
  <2> QED
    BY <1>1, <1>3, <2>2 DEF Prioritized, r, p
<1> QED
  BY <1>2, <1>3

\* A command that is dragged to another place (the reorder route).
LEMMA PutElsewhere ==
  ASSUME NEW X, NEW q \in Seq(X), NoRepeat(q), NEW i \in DOMAIN q, NEW j \in DOMAIN q
  PROVE  LET r == Moved(q, i, j)
         IN r \in Seq(X) /\ NoRepeat(r) /\ Members(r) = Members(q)
<1> DEFINE c == q[i]
           r == Without(q, c)
<1>1. r \in Seq(X) /\ NoRepeat(r) /\ Members(r) = Members(q) \ {c}
  BY TakenOut
<1>2. c \in Members(q) /\ c \in X
  BY DEF Members
<1>3. Len(r) = Len(q) - 1
  BY <1>2 DEF Without
<1>4. j \in 1..(Len(r) + 1)
  BY <1>3
<1> HIDE DEF r
<1>5. LET s == SubSeq(r, 1, j - 1) \o <<c>> \o SubSeq(r, j, Len(r))
      IN s \in Seq(X) /\ NoRepeat(s) /\ Members(s) = Members(r) \cup {c}
  BY <1>1, <1>2, <1>4, PutIn
<1> QED
  BY <1>1, <1>2, <1>5 DEF Moved, r

LEMMA Fields ==
  ASSUME NEW w \in Session
  PROVE  /\ w.queue \in Seq(Commands) /\ w.cmds \in [Commands -> CommandType]
         /\ w.followUps \in [Commands -> Seq(Commands)] /\ w.pending \in SUBSET Commands
         /\ w.sender \in Commands \cup {None} /\ w.turn \in TurnType /\ w.seal \in SealType
         /\ w.child \in ChildType /\ w.chan \in ChannelType /\ w.stdin \in Seq(ItemType)
         /\ w.given \in [Commands -> Nat]
BY DEF Session

\* A step that touches neither queue nor commands nor which inputs are open.
LEMMA Aside ==
  ASSUME NEW n, NEW T, NEW w, Good(w, n, T), NEW v \in Session,
         v.queue = w.queue, v.cmds = w.cmds, v.followUps = w.followUps, v.given = w.given,
         v.stdin \in Seq(WrittenType), OpenInputs(v), TurnKnown(v), TakenOnly(v, T)
  PROVE  Good(v, n, T) /\ Leaves(w, v)
<1>1. Placed(v) /\ Tried(v)
  BY DEF Good, Placed, Tried
<1>2. GivenOnce(v, n)
  BY DEF Good, GivenOnce, Again
<1> QED
  BY <1>1, <1>2 DEF Good, Leaves

LEMMA LeavesAll ==
  ASSUME NEW u, NEW v, NEW w, Leaves(u, v), Leaves(v, w)
  PROVE  Leaves(u, w)
BY DEF Leaves

LEMMA LeavesItself ==
  ASSUME NEW w
  PROVE  Leaves(w, w)
BY DEF Leaves

\* A step of the channel changes nothing else.
ChannelOnly(w, v) == v = [w EXCEPT !.chan = v.chan]

LEMMA ChannelOnlyFields ==
  ASSUME NEW w \in Session, NEW v, ChannelOnly(w, v)
  PROVE  /\ v.queue = w.queue /\ v.cmds = w.cmds /\ v.followUps = w.followUps
         /\ v.pending = w.pending /\ v.sender = w.sender /\ v.turn = w.turn /\ v.seal = w.seal
         /\ v.child = w.child /\ v.stdin = w.stdin /\ v.given = w.given
BY DEF ChannelOnly, Session

LEMMA ChannelOnlyAll ==
  ASSUME NEW u \in Session, NEW v \in Session, NEW w \in Session, ChannelOnly(u, v), ChannelOnly(v, w)
  PROVE  ChannelOnly(u, w)
BY DEF ChannelOnly, Session

(***************************************************************************)
(* The channel.                                                            *)
(***************************************************************************)
LEMMA GoodNoHold ==
  ASSUME NEW n, NEW T, NEW w, Good(w, n, T)
  PROVE  Good(NoHold(w), n, T) /\ Leaves(w, NoHold(w)) /\ ChannelOnly(w, NoHold(w))
<1> DEFINE v == NoHold(w)
<1>1. w \in Session
  BY DEF Good
<1>2. v = [w EXCEPT !.chan = [w.chan EXCEPT !.hold = FALSE, !.waitFor = {}]]
  BY <1>1 DEF NoHold, Session
<1>3. [w.chan EXCEPT !.hold = FALSE, !.waitFor = {}] \in ChannelType
  BY <1>1, Fields DEF ChannelType
<1>4. v \in Session
  BY <1>1, <1>2, <1>3 DEF Session
<1>5. /\ v.queue = w.queue /\ v.cmds = w.cmds /\ v.followUps = w.followUps /\ v.given = w.given
      /\ v.stdin = w.stdin /\ v.pending = w.pending /\ v.sender = w.sender /\ v.turn = w.turn
      /\ v.seal = w.seal /\ v.child = w.child
  BY <1>1 DEF NoHold, Session
<1>11. ChannelOnly(w, v)
  BY <1>1, <1>2 DEF ChannelOnly, Session
<1>6. v.chan.phase = w.chan.phase /\ v.chan.due = w.chan.due /\ ~v.chan.hold
  <2> DEFINE chan == [w.chan EXCEPT !.hold = FALSE, !.waitFor = {}]
  <2>1. chan.phase = w.chan.phase /\ chan.due = w.chan.due /\ ~chan.hold
    BY <1>1, Fields DEF ChannelType
  <2> HIDE DEF chan
  <2>2. v.chan = chan
    BY <1>1, <1>2 DEF Session, chan
  <2> QED
    BY <2>1, <2>2
<1> HIDE DEF v
<1>7. OpenInputs(v)
  BY <1>5, <1>6 DEF Good, OpenInputs, Unsettled
<1>8. TurnKnown(v) /\ TakenOnly(v, T)
  BY <1>5, <1>6 DEF Good, TurnKnown, TakenOnly
<1>9. v.stdin \in Seq(WrittenType)
  BY <1>5 DEF Good
<1>10. Good(v, n, T) /\ Leaves(w, v)
  BY <1>4, <1>5, <1>7, <1>8, <1>9, Aside
<1> QED
  BY <1>10, <1>11 DEF v

LEMMA GoodSettled ==
  ASSUME NEW n, NEW T, NEW w, Good(w, n, T), NEW S, S \subseteq Unsettled(w),
         NEW outcome \in {"accepted", "rejected"}, outcome = "accepted" => S \subseteq T
  PROVE  LET v == Settled(w, S, outcome)
         IN Good(v, n, T) /\ Leaves(w, v) /\ ChannelOnly(w, v) /\ Unsettled(v) = Unsettled(w) \ S
<1> DEFINE v == Settled(w, S, outcome)
           phase == [c \in Commands |-> IF c \in S THEN outcome ELSE w.chan.phase[c]]
           chan == [w.chan EXCEPT !.phase = phase, !.timed = w.chan.timed \ S, !.due = w.chan.due \cup S]
<1>1. w \in Session /\ S \subseteq Commands
  BY DEF Good, Unsettled
<1>2. v = [w EXCEPT !.chan = chan]
  BY <1>1 DEF Settled, Session, ChannelType
<1>3. chan \in ChannelType
  <2>1. phase \in [Commands -> Phases]
    BY <1>1, Fields DEF ChannelType, Phases
  <2> HIDE DEF phase
  <2> QED
    BY <1>1, <2>1, Fields DEF ChannelType
<1>4. /\ chan.phase = phase /\ chan.due = w.chan.due \cup S /\ chan.hold = w.chan.hold
      /\ chan.finalizing = w.chan.finalizing /\ chan.waitFor = w.chan.waitFor
  BY <1>1, Fields DEF ChannelType
<1> HIDE DEF chan
<1>5. v \in Session
  BY <1>1, <1>2, <1>3 DEF Session
<1>6. /\ v.queue = w.queue /\ v.cmds = w.cmds /\ v.followUps = w.followUps /\ v.given = w.given
      /\ v.stdin = w.stdin /\ v.pending = w.pending /\ v.sender = w.sender /\ v.turn = w.turn
      /\ v.seal = w.seal /\ v.child = w.child /\ v.chan = chan
  BY <1>1, <1>2 DEF Session
<1> HIDE DEF v
<1>7. \A c \in Commands : chan.phase[c] = IF c \in S THEN outcome ELSE w.chan.phase[c]
  BY <1>4
<1>8. Unsettled(v) = Unsettled(w) \ S
  BY <1>6, <1>7 DEF Unsettled
<1>9. OpenInputs(v)
  <2>1. v.pending = Unsettled(v) \cup v.chan.due
    BY <1>6, <1>8, <1>4 DEF Good, OpenInputs
  <2>2. \A c \in v.chan.due : v.chan.phase[c] \in {"accepted", "rejected"}
    BY <1>6, <1>7, <1>4, <1>1, Fields DEF Good, OpenInputs, ChannelType
  <2> QED
    BY <1>6, <1>8, <1>4, <2>1, <2>2 DEF Good, OpenInputs
<1>10. TurnKnown(v)
  BY <1>6 DEF Good, TurnKnown
<1>11. TakenOnly(v, T)
  BY <1>6, <1>7 DEF Good, TakenOnly
<1>12. v.stdin \in Seq(WrittenType)
  BY <1>6 DEF Good
<1>13. Good(v, n, T) /\ Leaves(w, v)
  BY <1>5, <1>6, <1>9, <1>10, <1>11, <1>12, Aside
<1>14. ChannelOnly(w, v)
  BY <1>1, <1>2, <1>6 DEF ChannelOnly
<1> QED
  BY <1>13, <1>14, <1>8 DEF v

LEMMA GoodAccept ==
  ASSUME NEW n, NEW T, NEW w, Good(w, n, T), NEW c \in Commands \cap T
  PROVE  LET v == Accept(w, c) IN Good(v, n, T) /\ Leaves(w, v) /\ ChannelOnly(w, v)
<1>1. CASE c \notin Unsettled(w)
  <2>1. Accept(w, c) = w
    BY <1>1 DEF Accept
  <2>2. ChannelOnly(w, w)
    BY DEF Good, ChannelOnly, Session
  <2> QED
    BY <2>1, <2>2, LeavesItself
<1>2. CASE c \in Unsettled(w)
  <2> DEFINE v == Settled(w, {c}, "accepted")
  <2>1. Good(v, n, T) /\ Leaves(w, v) /\ ChannelOnly(w, v)
    BY <1>2, GoodSettled
  <2>2. Accept(w, c) = IF c \in w.chan.waitFor THEN NoHold(v) ELSE v
    BY <1>2 DEF Accept
  <2> HIDE DEF v
  <2>3. Good(NoHold(v), n, T) /\ Leaves(v, NoHold(v)) /\ ChannelOnly(v, NoHold(v))
    BY <2>1, GoodNoHold
  <2>4. w \in Session /\ v \in Session /\ NoHold(v) \in Session
    BY <2>1, <2>3 DEF Good
  <2>5. Leaves(w, NoHold(v)) /\ ChannelOnly(w, NoHold(v))
    BY <2>1, <2>3, <2>4, LeavesAll, ChannelOnlyAll
  <2> QED
    BY <2>1, <2>2, <2>3, <2>5
<1> QED
  BY <1>1, <1>2

LEMMA GoodReject ==
  ASSUME NEW n, NEW T, NEW w, Good(w, n, T), NEW S
  PROVE  LET v == Reject(w, S)
         IN Good(v, n, T) /\ Leaves(w, v) /\ ChannelOnly(w, v) /\ Unsettled(v) = Unsettled(w) \ S
<1> DEFINE R == S \cap Unsettled(w)
<1>1. R \subseteq Unsettled(w) /\ Unsettled(w) \ R = Unsettled(w) \ S
  OBVIOUS
<1>2. Reject(w, S) = Settled(w, R, "rejected")
  BY DEF Reject
<1> HIDE DEF R
<1> QED
  BY <1>1, <1>2, GoodSettled

LEMMA GoodCancelPending ==
  ASSUME NEW n, NEW T, NEW w, Good(w, n, T)
  PROVE  LET v == CancelPending(w)
         IN /\ Good(v, n, T) /\ Leaves(w, v) /\ ChannelOnly(w, v)
            /\ Unsettled(v) = {} /\ v.chan.hold = FALSE
<1> DEFINE u == NoHold(w)
           v == Reject(u, Commands)
<1>1. Good(u, n, T) /\ Leaves(w, u) /\ ChannelOnly(w, u)
  BY GoodNoHold
<1>2. u.chan.hold = FALSE
  BY DEF NoHold, Good, Session, ChannelType
<1> HIDE DEF u
<1>3. Good(v, n, T) /\ Leaves(u, v) /\ ChannelOnly(u, v) /\ Unsettled(v) = Unsettled(u) \ Commands
  BY <1>1, GoodReject
<1>4. v.chan.hold = FALSE
  BY <1>2, <1>1 DEF Reject, Settled, Good, Session, ChannelType
<1>5. Unsettled(v) = {}
  BY <1>3 DEF Unsettled
<1> HIDE DEF v
<1>6. w \in Session /\ u \in Session /\ v \in Session
  BY <1>1, <1>3 DEF Good
<1>7. Leaves(w, v) /\ ChannelOnly(w, v)
  BY <1>1, <1>3, <1>6, LeavesAll, ChannelOnlyAll
<1>8. CancelPending(w) = v
  BY DEF CancelPending, u, v
<1> QED
  BY <1>3, <1>4, <1>5, <1>7, <1>8

LEMMA GoodCancel ==
  ASSUME NEW n, NEW T, NEW w, Good(w, n, T)
  PROVE  LET v == Cancel(w)
         IN /\ Good(v, n, T) /\ Leaves(w, v) /\ ChannelOnly(w, v)
            /\ Unsettled(v) = {} /\ v.chan.hold = FALSE
<1> DEFINE u == CancelPending(w)
           v == [u EXCEPT !.chan.closed = TRUE]
<1>1. /\ Good(u, n, T) /\ Leaves(w, u) /\ ChannelOnly(w, u)
      /\ Unsettled(u) = {} /\ u.chan.hold = FALSE
  BY GoodCancelPending
<1> HIDE DEF u
<1>2. u \in Session /\ w \in Session
  BY <1>1 DEF Good
<1>3. v = [u EXCEPT !.chan = [u.chan EXCEPT !.closed = TRUE]]
  BY <1>2 DEF Session
<1>4. [u.chan EXCEPT !.closed = TRUE] \in ChannelType
  BY <1>2, Fields DEF ChannelType
<1>5. v \in Session
  BY <1>2, <1>3, <1>4 DEF Session
<1>6. /\ v.queue = u.queue /\ v.cmds = u.cmds /\ v.followUps = u.followUps /\ v.given = u.given
      /\ v.stdin = u.stdin /\ v.pending = u.pending /\ v.sender = u.sender /\ v.turn = u.turn
      /\ v.seal = u.seal /\ v.child = u.child
  BY <1>2 DEF Session
<1>7. /\ v.chan.phase = u.chan.phase /\ v.chan.due = u.chan.due /\ v.chan.hold = u.chan.hold
  BY <1>2, <1>3, Fields DEF ChannelType, Session
<1>8. ChannelOnly(u, v)
  BY <1>2, <1>3 DEF ChannelOnly, Session
<1> HIDE DEF v
<1>9. OpenInputs(v) /\ Unsettled(v) = {}
  BY <1>1, <1>6, <1>7 DEF Good, OpenInputs, Unsettled
<1>10. TurnKnown(v) /\ TakenOnly(v, T)
  BY <1>1, <1>6, <1>7 DEF Good, TurnKnown, TakenOnly
<1>11. v.stdin \in Seq(WrittenType)
  BY <1>1, <1>6 DEF Good
<1>12. Good(v, n, T) /\ Leaves(u, v)
  BY <1>1, <1>5, <1>6, <1>9, <1>10, <1>11, Aside
<1>13. Leaves(w, v) /\ ChannelOnly(w, v)
  BY <1>1, <1>2, <1>5, <1>8, <1>12, LeavesAll, ChannelOnlyAll
<1>14. Cancel(w) = v
  BY DEF Cancel, u, v
<1> QED
  BY <1>1, <1>7, <1>9, <1>12, <1>13, <1>14

(***************************************************************************)
(* One input into the turn that runs.                                      *)
(***************************************************************************)
\* What the follow-up channel leaves alone: the turn, its end and the process.  A new input
\* is one of the turn that runs.
Beside(w, v) ==
  /\ v.turn = w.turn /\ v.seal = w.seal /\ v.child = w.child
  /\ Executing(v) = Executing(w)
  /\ \A c \in v.pending :
       \/ v.cmds[c].target \in Executing(w)
       \/ c \in w.pending /\ v.cmds[c].target = w.cmds[c].target

LEMMA BesideAll ==
  ASSUME NEW u, NEW v, NEW w, Beside(u, v), Beside(v, w)
  PROVE  Beside(u, w)
<1>1. /\ w.turn = u.turn /\ w.seal = u.seal /\ w.child = u.child
      /\ Executing(w) = Executing(u) /\ Executing(v) = Executing(u)
  BY DEF Beside
<1>2. ASSUME NEW c \in w.pending
      PROVE  \/ w.cmds[c].target \in Executing(u)
             \/ c \in u.pending /\ w.cmds[c].target = u.cmds[c].target
  <2>1. \/ w.cmds[c].target \in Executing(v)
        \/ c \in v.pending /\ w.cmds[c].target = v.cmds[c].target
    BY DEF Beside
  <2>2. c \in v.pending =>
          \/ v.cmds[c].target \in Executing(u)
          \/ c \in u.pending /\ v.cmds[c].target = u.cmds[c].target
    BY DEF Beside
  <2> QED
    BY <1>1, <2>1, <2>2
<1> QED
  BY <1>1, <1>2 DEF Beside

LEMMA BesideItself ==
  ASSUME NEW w
  PROVE  Beside(w, w)
BY DEF Beside

LEMMA GoodRefuse ==
  ASSUME NEW n, NEW T, NEW w, Good(w, n, T), NEW S, S \subseteq Untouched(w)
  PROVE  LET v == Refuse(w, S)
         IN /\ Good(v, n, T) /\ Leaves(w, v) /\ Beside(w, v)
            /\ v.queue = w.queue /\ v.chan = w.chan /\ v.sender = w.sender
            /\ \A c \in Commands : c \notin S => v.cmds[c] = w.cmds[c]
<1> DEFINE v == Refuse(w, S)
           cmds == [c \in Commands |->
                      IF c \in S THEN [w.cmds[c] EXCEPT !.delivery = "unavailable"] ELSE w.cmds[c]]
<1>1. w \in Session
  BY DEF Good
<1>2. v = [w EXCEPT !.cmds = cmds]
  BY <1>1 DEF Refuse, Session
<1>3. /\ cmds \in [Commands -> CommandType]
      /\ \A c \in Commands :
           /\ cmds[c].status = w.cmds[c].status /\ cmds[c].mode = w.cmds[c].mode
           /\ cmds[c].target = w.cmds[c].target /\ cmds[c].resumed = w.cmds[c].resumed
           /\ cmds[c].delivery = IF c \in S THEN "unavailable" ELSE w.cmds[c].delivery
           /\ c \notin S => cmds[c] = w.cmds[c]
  <2> SUFFICES ASSUME NEW c \in Commands
               PROVE  /\ cmds[c] \in CommandType
                      /\ cmds[c].status = w.cmds[c].status /\ cmds[c].mode = w.cmds[c].mode
                      /\ cmds[c].target = w.cmds[c].target /\ cmds[c].resumed = w.cmds[c].resumed
                      /\ cmds[c].delivery = IF c \in S THEN "unavailable" ELSE w.cmds[c].delivery
                      /\ c \notin S => cmds[c] = w.cmds[c]
    OBVIOUS
  <2>1. w.cmds[c] \in CommandType
    BY <1>1, Fields
  <2>2. cmds[c] = IF c \in S THEN [w.cmds[c] EXCEPT !.delivery = "unavailable"] ELSE w.cmds[c]
    OBVIOUS
  <2> HIDE DEF cmds
  <2> QED
    BY <2>1, <2>2 DEF CommandType, Deliveries
<1> HIDE DEF cmds
<1>4. v \in Session
  BY <1>1, <1>2, <1>3 DEF Session
<1>5. /\ v.queue = w.queue /\ v.cmds = cmds /\ v.followUps = w.followUps /\ v.given = w.given
      /\ v.stdin = w.stdin /\ v.pending = w.pending /\ v.sender = w.sender /\ v.turn = w.turn
      /\ v.seal = w.seal /\ v.child = w.child /\ v.chan = w.chan
  BY <1>1, <1>2 DEF Session
<1>6. \A c \in S : c \in Commands /\ w.cmds[c].status = "queued" /\ w.cmds[c].mode = "steer"
                   /\ w.cmds[c].delivery = "none"
  BY DEF Untouched
<1> HIDE DEF v
<1>7. Placed(v) /\ TurnKnown(v) /\ TakenOnly(v, T)
  <2>1. Placed(v)
    BY <1>3, <1>5 DEF Good, Placed
  <2>2. w.turn.inFlight \in Commands \cup {None}
    BY <1>1, Fields DEF TurnType
  <2>3. TurnKnown(v)
    BY <2>2, <1>3, <1>5 DEF Good, TurnKnown
  <2>4. TakenOnly(v, T)
    BY <1>3, <1>5 DEF Good, TakenOnly
  <2> QED
    BY <2>1, <2>3, <2>4
<1>8. Tried(v) /\ GivenOnce(v, n)
  BY <1>3, <1>5, <1>6 DEF Good, Tried, GivenOnce, Again
<1>9. OpenInputs(v)
  <2>1. OpenInputs(w)
    BY DEF Good
  <2>2. Unsettled(v) = Unsettled(w)
    BY <1>5 DEF Unsettled
  <2>3. w.pending \subseteq Commands
    BY <1>1, Fields
  <2>4. \A c \in w.pending : cmds[c].delivery = w.cmds[c].delivery
    <3> SUFFICES ASSUME NEW c \in w.pending
                 PROVE  cmds[c].delivery = w.cmds[c].delivery
      OBVIOUS
    <3>1. w.cmds[c].delivery # "none"
      BY <2>1 DEF OpenInputs
    <3>2. c \notin S
      BY <3>1, <1>6
    <3> QED
      BY <2>3, <3>2, <1>3
  <2> QED
    BY <2>1, <2>2, <2>4, <1>5 DEF OpenInputs
<1>10. Good(v, n, T)
  BY <1>4, <1>5, <1>7, <1>8, <1>9 DEF Good
<1>11. Leaves(w, v) /\ Beside(w, v)
  <2>1. \A c \in w.pending : c \in Commands
    BY <1>1, Fields
  <2> QED
    BY <2>1, <1>3, <1>5, <1>6 DEF Leaves, Beside, Executing, Status
<1>12. v.queue = w.queue /\ v.chan = w.chan /\ v.sender = w.sender
  BY <1>5
<1>13. \A c \in Commands : c \notin S => v.cmds[c] = w.cmds[c]
  BY <1>3, <1>5
<1> QED
  BY <1>10, <1>11, <1>12, <1>13 DEF v

LEMMA GoodSend ==
  ASSUME NEW n, NEW T, NEW w, Good(w, n, T), NEW c \in Untouched(w), TurnTakesInput(w)
  PROVE  LET v == Send(w, c)
         IN Good(v, n, T) /\ Leaves(w, v) /\ Beside(w, v)
<1> DEFINE v == Send(w, c)
           b == CHOOSE b \in Executing(w) : TRUE
           cmds == [w.cmds EXCEPT ![c].delivery = "sending", ![c].target = b]
           chan == [w.chan EXCEPT !.phase[c] = "sent", !.timed = @ \cup {c}]
           item == [kind |-> "input", of |-> c]
<1>1. /\ w \in Session /\ c \in Commands
      /\ w.cmds[c].status = "queued" /\ w.cmds[c].mode = "steer" /\ w.cmds[c].delivery = "none"
  BY DEF Good, Untouched
<1>2. b \in Executing(w) /\ b \in Commands
  <2>1. Executing(w) # {}
    BY FS_EmptySet DEF TurnTakesInput
  <2> QED
    BY <2>1 DEF Executing, Status
<1> HIDE DEF b
<1>3. /\ v.cmds = cmds /\ v.chan = chan
      /\ v.queue = w.queue /\ v.followUps = w.followUps
      /\ v.given = [w.given EXCEPT ![c] = @ + 1] /\ v.stdin = Append(w.stdin, item)
      /\ v.pending = w.pending \cup {c} /\ v.sender = c /\ v.turn = w.turn
      /\ v.seal = w.seal /\ v.child = w.child
  <2>1. w.cmds[c] \in CommandType /\ w.cmds \in [Commands -> CommandType] /\ w.chan \in ChannelType
    BY <1>1, Fields
  <2>2. v.cmds = cmds
    BY <1>1, <2>1 DEF Send, Session, CommandType, b
  <2>3. v.chan = chan
    BY <1>1, <2>1 DEF Send, Session, ChannelType
  <2>4. /\ v.queue = w.queue /\ v.followUps = w.followUps
        /\ v.given = [w.given EXCEPT ![c] = @ + 1] /\ v.stdin = Append(w.stdin, item)
        /\ v.pending = w.pending \cup {c} /\ v.sender = c /\ v.turn = w.turn
        /\ v.seal = w.seal /\ v.child = w.child
    BY <1>1 DEF Send, Session
  <2> QED
    BY <2>2, <2>3, <2>4
<1>4. /\ cmds \in [Commands -> CommandType]
      /\ cmds[c].status = "queued" /\ cmds[c].mode = "steer" /\ cmds[c].delivery = "sending"
      /\ cmds[c].target = b /\ cmds[c].resumed = w.cmds[c].resumed
      /\ \A d \in Commands : d # c => cmds[d] = w.cmds[d]
  <2> DEFINE k == [w.cmds[c] EXCEPT !.delivery = "sending", !.target = b]
  <2>1. w.cmds[c] \in CommandType /\ w.cmds \in [Commands -> CommandType]
    BY <1>1, Fields
  <2>2. /\ k \in CommandType /\ k.status = "queued" /\ k.mode = "steer"
        /\ k.delivery = "sending" /\ k.target = b /\ k.resumed = w.cmds[c].resumed
    BY <1>1, <1>2, <2>1 DEF CommandType, Deliveries
  <2>3. cmds = [w.cmds EXCEPT ![c] = k]
    BY <1>1, <2>1
  <2> HIDE DEF k, cmds
  <2> QED
    BY <1>1, <2>1, <2>2, <2>3
<1>5. /\ chan \in ChannelType
      /\ chan.phase[c] = "sent" /\ \A d \in Commands : d # c => chan.phase[d] = w.chan.phase[d]
      /\ chan.due = w.chan.due /\ chan.hold = w.chan.hold
  BY <1>1, Fields DEF ChannelType, Phases
<1>6. /\ Append(w.stdin, item) \in Seq(ItemType)
      /\ Append(w.stdin, item) \in Seq(WrittenType)
  <2>1. item \in ItemType /\ item \in WrittenType
    BY <1>1 DEF ItemType, WrittenType
  <2>2. w.stdin \in Seq(ItemType) /\ w.stdin \in Seq(WrittenType)
    BY <1>1, Fields DEF Good
  <2> HIDE DEF item
  <2> QED
    BY <2>1, <2>2
<1>7. v \in Session
  <2>1. [w.given EXCEPT ![c] = @ + 1] \in [Commands -> Nat]
    BY <1>1, Fields
  <2>2. w.pending \cup {c} \in SUBSET Commands /\ c \in Commands \cup {None}
    BY <1>1, Fields
  <2> QED
    BY <1>1, <1>4, <1>5, <1>6, <2>1, <2>2 DEF Send, Session, b
<1> HIDE DEF cmds, chan
<1> HIDE DEF v
<1>9. CanSend(w)
  BY DEF TurnTakesInput
<1>10. \A d \in Commands : v.cmds[d].status = w.cmds[d].status
                           /\ v.cmds[d].resumed = w.cmds[d].resumed
  BY <1>1, <1>4, <1>3
<1>11. Placed(v) /\ TurnKnown(v)
  <2>1. Placed(v)
    BY <1>3, <1>10 DEF Good, Placed
  <2>2. w.turn.inFlight \in Commands \cup {None}
    BY <1>1, Fields DEF TurnType
  <2>3. TurnKnown(v)
    BY <2>2, <1>3, <1>10 DEF Good, TurnKnown
  <2> QED
    BY <2>1, <2>3
<1>12. TakenOnly(v, T)
  BY <1>1, <1>5, <1>3, <1>10 DEF Good, TakenOnly
<1>13. Tried(v)
  BY <1>2, <1>4, <1>3 DEF Good, Tried
<1>14. GivenOnce(v, n)
  <2> SUFFICES ASSUME NEW d \in Commands
               PROVE  /\ v.given[d] <= 1 + Again(v, d, n)
                      /\ v.cmds[d].status = "new" => v.given[d] = 0
                      /\ v.cmds[d].status = "queued" /\ v.cmds[d].delivery \in {"none", "unavailable"}
                           => v.given[d] <= Again(v, d, n)
    BY DEF GivenOnce
  <2>1. Again(v, d, n) = Again(w, d, n)
    BY <1>10 DEF Again
  <2>2. CASE d = c
    <3>1. v.given[c] = w.given[c] + 1
      BY <1>1, <1>3, Fields
    <3>2. w.given[c] <= Again(w, c, n)
      BY <1>1 DEF Good, GivenOnce
    <3>3. w.given[c] \in Nat /\ Again(w, c, n) \in Nat
      BY <1>1, Fields DEF Good, Again
    <3> QED
      BY <2>1, <2>2, <3>1, <3>2, <3>3, <1>4, <1>3
  <2>3. CASE d # c
    BY <2>1, <2>3, <1>4, <1>3, Fields, <1>1 DEF Good, GivenOnce
  <2> QED
    BY <2>2, <2>3
<1>15. OpenInputs(v)
  <2>1. c \notin w.pending
    BY <1>1 DEF Good, OpenInputs
  <2>2. Unsettled(v) = Unsettled(w) \cup {c}
    BY <1>1, <1>5, <1>3 DEF Unsettled
  <2>3. w.chan.hold = FALSE
    BY <1>9, <1>1, Fields DEF Good, OpenInputs, CanSend, ChannelType
  <2>4. \A d \in w.chan.due : d \in w.pending /\ d \in Commands
    BY <1>1, Fields DEF Good, OpenInputs
  <2>5. \A d \in v.pending : v.cmds[d].delivery \in {"sending", "received"}
    <3>1. \A d \in w.pending : d \in Commands /\ w.cmds[d].delivery \in {"sending", "received"}
      BY <1>1, Fields DEF Good, OpenInputs
    <3> QED
      BY <3>1, <2>1, <1>4, <1>3
  <2>6. \A d \in v.chan.due : v.chan.phase[d] \in {"accepted", "rejected"}
    BY <2>1, <2>4, <1>5, <1>3 DEF Good, OpenInputs
  <2> QED
    BY <2>1, <2>2, <2>3, <2>5, <2>6, <1>5, <1>3, <1>9 DEF Good, OpenInputs, CanSend
<1>16. v.stdin \in Seq(WrittenType)
  BY <1>3, <1>6
<1>17. Good(v, n, T)
  BY <1>7, <1>11, <1>12, <1>13, <1>14, <1>15, <1>16 DEF Good
<1>18. Leaves(w, v)
  BY <1>1, <1>3, <1>4, Fields DEF Leaves
<1>19. Beside(w, v)
  <2>1. Executing(v) = Executing(w)
    BY <1>10 DEF Executing, Status
  <2>2. \A d \in w.pending : d \in Commands
    BY <1>1, Fields
  <2>3. v.cmds[c].target \in Executing(w)
    BY <1>2, <1>3, <1>4
  <2>4. \A d \in Commands : d # c => v.cmds[d].target = w.cmds[d].target
    BY <1>3, <1>4
  <2>5. ASSUME NEW d \in v.pending
        PROVE  \/ v.cmds[d].target \in Executing(w)
               \/ d \in w.pending /\ v.cmds[d].target = w.cmds[d].target
    BY <2>2, <2>3, <2>4, <1>3
  <2>6. v.turn = w.turn /\ v.seal = w.seal /\ v.child = w.child
    BY <1>3
  <2> QED
    BY <2>1, <2>5, <2>6 DEF Beside
<1> QED
  BY <1>17, <1>18, <1>19 DEF v

LEMMA GoodTrySend ==
  ASSUME NEW n, NEW T, NEW w, Good(w, n, T), NEW c \in Commands
  PROVE  LET v == TrySend(w, c)
         IN Good(v, n, T) /\ Leaves(w, v) /\ Beside(w, v)
<1>1. CASE c \notin Untouched(w) \/ w.sender # None
  <2>1. TrySend(w, c) = w
    BY <1>1 DEF TrySend
  <2> QED
    BY <2>1, LeavesItself, BesideItself
<1>2. CASE c \in Untouched(w) /\ w.sender = None /\ TurnTakesInput(w) /\ c \notin OwnTurn
  <2>1. TrySend(w, c) = Send(w, c)
    BY <1>2 DEF TrySend
  <2> QED
    BY <1>2, <2>1, GoodSend
<1>3. CASE c \in Untouched(w) /\ w.sender = None /\ ~(TurnTakesInput(w) /\ c \notin OwnTurn)
  <2>1. TrySend(w, c) = Refuse(w, {c})
    BY <1>3 DEF TrySend
  <2>2. {c} \subseteq Untouched(w)
    BY <1>3
  <2> QED
    BY <2>1, <2>2, GoodRefuse
<1> QED
  BY <1>1, <1>2, <1>3

\* The loop of drainNext over the queue: it refuses, and ends with at most one input sent.
LEMMA GoodDrain ==
  ASSUME NEW n, NEW T, NEW w, Good(w, n, T)
  PROVE  LET v == Drain(w)
         IN Good(v, n, T) /\ Leaves(w, v) /\ Beside(w, v)
<1> DEFINE sendable == IF TurnTakesInput(w) THEN Untouched(w) \ OwnTurn ELSE {}
           p == FirstOf(w.queue, sendable)
           passed == { w.queue[i] : i \in 1..(p - 1) } \cap Untouched(w)
           u == Refuse(w, passed)
           c == w.queue[p]
<1>1. Drain(w) = IF w.sender # None THEN w
                 ELSE IF sendable = {} THEN Refuse(w, Untouched(w))
                 ELSE Send(u, c)
  BY DEF Drain
<1>2. CASE w.sender # None
  BY <1>1, <1>2, LeavesItself, BesideItself
<1>3. CASE w.sender = None /\ sendable = {}
  BY <1>1, <1>3, GoodRefuse
<1>4. CASE w.sender = None /\ sendable # {}
  <2>1. TurnTakesInput(w) /\ sendable = Untouched(w) \ OwnTurn
    BY <1>4
  <2>2. w.queue \in Seq(Commands) /\ Members(w.queue) \cap sendable # {}
    <3>1. \A d \in Untouched(w) : d \in Members(w.queue)
      BY DEF Untouched, Good, Placed
    <3> QED
      BY <1>4, <2>1, <3>1 DEF Good, Session
  <2> HIDE DEF sendable
  <2>3. /\ p \in DOMAIN w.queue /\ c \in sendable
        /\ \A j \in 1..(p - 1) : w.queue[j] \notin sendable
    BY <2>2, FirstIsFound
  <2>4. c \in Untouched(w) /\ c \notin passed /\ c \in Commands
    BY <2>1, <2>3 DEF Untouched
  <2>5. passed \subseteq Untouched(w)
    OBVIOUS
  <2> HIDE DEF p, passed, c
  <2>6. /\ Good(u, n, T) /\ Leaves(w, u) /\ Beside(w, u)
        /\ u.queue = w.queue /\ u.chan = w.chan
        /\ u.cmds[c] = w.cmds[c]
    BY <2>4, <2>5, GoodRefuse
  <2> HIDE DEF u
  <2>7. c \in Untouched(u)
    BY <2>4, <2>6 DEF Untouched
  <2>8. TurnTakesInput(u)
    BY <2>1, <2>6 DEF TurnTakesInput, CanSend, Beside
  <2>9. Good(Send(u, c), n, T) /\ Leaves(u, Send(u, c)) /\ Beside(u, Send(u, c))
    BY <2>6, <2>7, <2>8, GoodSend
  <2>10. Leaves(w, Send(u, c)) /\ Beside(w, Send(u, c))
    BY <2>6, <2>9, LeavesAll, BesideAll
  <2>11. Drain(w) = Send(u, c)
    BY <1>1, <1>4 DEF u
  <2> QED
    BY <2>9, <2>10, <2>11
<1> QED
  BY <1>2, <1>3, <1>4

LEMMA GoodRelease ==
  ASSUME NEW n, NEW T, NEW w, Good(w, n, T), NEW c
  PROVE  LET v == Release(w, c)
         IN Good(v, n, T) /\ Leaves(w, v) /\ Beside(w, v)
<1> DEFINE v == Release(w, c)
<1>1. w \in Session
  BY DEF Good
<1>2. /\ v.queue = w.queue /\ v.cmds = w.cmds /\ v.followUps = w.followUps /\ v.given = w.given
      /\ v.stdin = w.stdin /\ v.pending = w.pending /\ v.turn = w.turn
      /\ v.seal = w.seal /\ v.child = w.child /\ v.chan = w.chan
      /\ v.sender \in {w.sender, None}
  BY <1>1 DEF Release, Session
<1>3. v \in Session
  BY <1>1 DEF Release, Session
<1> HIDE DEF v
<1>4. OpenInputs(v)
  BY <1>2 DEF Good, OpenInputs, Unsettled
<1>5. TurnKnown(v) /\ TakenOnly(v, T)
  BY <1>2 DEF Good, TurnKnown, TakenOnly
<1>6. v.stdin \in Seq(WrittenType)
  BY <1>2 DEF Good
<1>7. Good(v, n, T) /\ Leaves(w, v)
  BY <1>2, <1>3, <1>4, <1>5, <1>6, Aside
<1>8. Beside(w, v)
  BY <1>2 DEF Beside, Executing, Status
<1> QED
  BY <1>7, <1>8 DEF v

\* A command whose delivery alone changes, and that of an input which was sent.
LEMMA GoodDelivery ==
  ASSUME NEW n, NEW T, NEW w, Good(w, n, T), NEW c \in Commands,
         w.cmds[c].delivery \in {"sending", "received"},
         NEW d \in {"received", "uncertain"}, d = "uncertain" => c \notin w.pending
  PROVE  LET v == [w EXCEPT !.cmds[c].delivery = d]
         IN Good(v, n, T) /\ Leaves(w, v) /\ Beside(w, v) /\ v.chan = w.chan /\ v.pending = w.pending
<1> DEFINE v == [w EXCEPT !.cmds[c].delivery = d]
           cmds == [w.cmds EXCEPT ![c].delivery = d]
<1>1. w \in Session
  BY DEF Good
<1>2. /\ cmds \in [Commands -> CommandType]
      /\ cmds[c].status = w.cmds[c].status /\ cmds[c].mode = w.cmds[c].mode
      /\ cmds[c].delivery = d
      /\ cmds[c].target = w.cmds[c].target /\ cmds[c].resumed = w.cmds[c].resumed
      /\ \A e \in Commands : e # c => cmds[e] = w.cmds[e]
  <2> DEFINE k == [w.cmds[c] EXCEPT !.delivery = d]
  <2>1. w.cmds[c] \in CommandType /\ w.cmds \in [Commands -> CommandType]
    BY <1>1, Fields
  <2>2. /\ k \in CommandType /\ k.status = w.cmds[c].status /\ k.mode = w.cmds[c].mode
        /\ k.delivery = d /\ k.target = w.cmds[c].target /\ k.resumed = w.cmds[c].resumed
    BY <2>1 DEF CommandType, Deliveries
  <2>3. cmds = [w.cmds EXCEPT ![c] = k]
    BY <2>1
  <2> HIDE DEF k, cmds
  <2> QED
    BY <2>1, <2>2, <2>3
<1>3. v \in Session
  BY <1>1, <1>2 DEF Session
<1>4. /\ v.queue = w.queue /\ v.cmds = cmds /\ v.followUps = w.followUps /\ v.given = w.given
      /\ v.stdin = w.stdin /\ v.pending = w.pending /\ v.sender = w.sender /\ v.turn = w.turn
      /\ v.seal = w.seal /\ v.child = w.child /\ v.chan = w.chan
  BY <1>1 DEF Session
<1> HIDE DEF v, cmds
<1>5. \A e \in Commands :
        /\ v.cmds[e].status = w.cmds[e].status /\ v.cmds[e].mode = w.cmds[e].mode
        /\ v.cmds[e].target = w.cmds[e].target /\ v.cmds[e].resumed = w.cmds[e].resumed
        /\ v.cmds[e].delivery = IF e = c THEN d ELSE w.cmds[e].delivery
  BY <1>2, <1>4
<1>6. Placed(v)
  BY <1>4, <1>5 DEF Good, Placed
<1>7. Tried(v) /\ GivenOnce(v, n)
  BY <1>4, <1>5 DEF Good, Tried, GivenOnce, Again
<1>8. w.turn.inFlight \in Commands \cup {None} /\ w.pending \subseteq Commands
  BY <1>1, Fields DEF TurnType
<1>9. TurnKnown(v) /\ TakenOnly(v, T)
  BY <1>4, <1>5, <1>8 DEF Good, TurnKnown, TakenOnly
<1>10. OpenInputs(v)
  BY <1>4, <1>5, <1>8 DEF Good, OpenInputs, Unsettled
<1>11. Good(v, n, T)
  BY <1>3, <1>4, <1>6, <1>7, <1>9, <1>10 DEF Good
<1>12. Leaves(w, v)
  BY <1>2, <1>4 DEF Leaves
<1>13. Beside(w, v)
  BY <1>4, <1>5, <1>8 DEF Beside, Executing, Status
<1> QED
  BY <1>4, <1>11, <1>12, <1>13 DEF v

LEMMA ChannelOnlyIsBeside ==
  ASSUME NEW w \in Session, NEW v, ChannelOnly(w, v)
  PROVE  Beside(w, v)
BY ChannelOnlyFields DEF Beside, Executing, Status

LEMMA GoodReceive ==
  ASSUME NEW n, NEW T, NEW w, Good(w, n, T), NEW c \in Commands
  PROVE  LET v == Receive(w, c)
         IN Good(v, n, T) /\ Leaves(w, v) /\ Beside(w, v)
<1>1. CASE w.chan.phase[c] # "sent"
  <2>1. Receive(w, c) = w
    BY <1>1 DEF Receive
  <2> QED
    BY <2>1, LeavesItself, BesideItself
<1>2. CASE w.chan.phase[c] = "sent"
  <2> DEFINE v == [w EXCEPT !.chan.phase[c] = "received", !.chan.timed = @ \ {c}]
             chan == [w.chan EXCEPT !.phase[c] = "received", !.timed = @ \ {c}]
  <2>1. w \in Session
    BY DEF Good
  <2>2. /\ chan \in ChannelType
        /\ chan.phase[c] = "received" /\ \A d \in Commands : d # c => chan.phase[d] = w.chan.phase[d]
        /\ chan.due = w.chan.due /\ chan.hold = w.chan.hold /\ chan.finalizing = w.chan.finalizing
        /\ chan.waitFor = w.chan.waitFor
    BY <2>1, Fields DEF ChannelType, Phases
  <2>3. v.chan = chan
    BY <2>1 DEF Session, ChannelType
  <2>4. /\ v.queue = w.queue /\ v.cmds = w.cmds /\ v.followUps = w.followUps /\ v.given = w.given
        /\ v.stdin = w.stdin /\ v.pending = w.pending /\ v.sender = w.sender /\ v.turn = w.turn
        /\ v.seal = w.seal /\ v.child = w.child
    BY <2>1 DEF Session
  <2>5. v \in Session
    BY <2>1, <2>2 DEF Session
  <2>6. ChannelOnly(w, v)
    BY <2>1, <2>3 DEF ChannelOnly, Session
  <2> HIDE DEF v, chan
  <2>7. Unsettled(v) = Unsettled(w)
    BY <1>2, <2>2, <2>3 DEF Unsettled
  <2>8. OpenInputs(v)
    <3>1. \A d \in w.chan.due : d \in Commands
      BY <2>1, Fields DEF ChannelType
    <3>2. \A d \in v.chan.due : v.chan.phase[d] \in {"accepted", "rejected"}
      BY <3>1, <1>2, <2>2, <2>3 DEF Good, OpenInputs
    <3> QED
      BY <3>2, <2>2, <2>3, <2>4, <2>7 DEF Good, OpenInputs
  <2>9. TurnKnown(v) /\ TakenOnly(v, T)
    BY <2>2, <2>3, <2>4 DEF Good, TurnKnown, TakenOnly
  <2>10. v.stdin \in Seq(WrittenType)
    BY <2>4 DEF Good
  <2>11. Good(v, n, T) /\ Leaves(w, v)
    BY <2>4, <2>5, <2>8, <2>9, <2>10, Aside
  <2>12. Beside(w, v)
    BY <2>1, <2>6, ChannelOnlyIsBeside
  <2>13. Receive(w, c) = IF c \notin w.pending \/ w.cmds[c].delivery # "sending" THEN v
                         ELSE Drain(Release([v EXCEPT !.cmds[c].delivery = "received"], c))
    BY <1>2 DEF Receive, v
  <2>14. CASE c \notin w.pending \/ w.cmds[c].delivery # "sending"
    BY <2>14, <2>13, <2>11, <2>12
  <2>15. CASE ~(c \notin w.pending \/ w.cmds[c].delivery # "sending")
    <3> DEFINE x == [v EXCEPT !.cmds[c].delivery = "received"]
               y == Release(x, c)
    <3>1. Good(x, n, T) /\ Leaves(v, x) /\ Beside(v, x)
      BY <2>15, <2>11, <2>4, GoodDelivery
    <3> HIDE DEF x
    <3>2. Good(y, n, T) /\ Leaves(x, y) /\ Beside(x, y)
      BY <3>1, GoodRelease
    <3> HIDE DEF y
    <3>3. Good(Drain(y), n, T) /\ Leaves(y, Drain(y)) /\ Beside(y, Drain(y))
      BY <3>2, GoodDrain
    <3>4. Leaves(w, Drain(y)) /\ Beside(w, Drain(y))
      BY <2>11, <2>12, <3>1, <3>2, <3>3, LeavesAll, BesideAll
    <3>5. Receive(w, c) = Drain(y)
      BY <2>13, <2>15 DEF x, y
    <3> QED
      BY <3>3, <3>4, <3>5
  <2> QED
    BY <2>14, <2>15
<1> QED
  BY <1>1, <1>2

(***************************************************************************)
(* A command leaves the queue.                                             *)
(***************************************************************************)
\* v is w but for c, which has left the queue.
LeftAs(w, v, c, why) ==
  /\ NoRepeat(v.queue) /\ Members(v.queue) = Members(w.queue) \ {c}
  /\ v.followUps = w.followUps /\ v.given = w.given /\ v.stdin = w.stdin
  /\ v.pending = w.pending /\ v.sender = w.sender /\ v.turn = w.turn
  /\ v.seal = w.seal /\ v.child = w.child /\ v.chan = w.chan
  /\ v.cmds[c].status = why /\ v.cmds[c].delivery = "none"
  /\ v.cmds[c].resumed = w.cmds[c].resumed
  /\ \A d \in Commands : d # c => v.cmds[d] = w.cmds[d]

LEMMA LeftFields ==
  ASSUME NEW w \in Session, NoRepeat(w.queue), NEW c \in Commands, NEW why \in Statuses
  PROVE  Left(w, c, why) \in Session /\ LeftAs(w, Left(w, c, why), c, why)
<1> DEFINE v == Left(w, c, why)
           q == Without(w.queue, c)
           k == [Fresh EXCEPT !.status = why, !.resumed = w.cmds[c].resumed]
<1>1. q \in Seq(Commands) /\ NoRepeat(q) /\ Members(q) = Members(w.queue) \ {c}
  BY Fields, TakenOut
<1>2. w.cmds[c] \in CommandType /\ w.cmds \in [Commands -> CommandType]
  BY Fields
<1>3. /\ k \in CommandType /\ k.status = why /\ k.delivery = "none"
      /\ k.resumed = w.cmds[c].resumed
  BY <1>2 DEF Fresh, CommandType, Modes, Deliveries
<1> HIDE DEF q, k
<1>4. v = [w EXCEPT !.queue = q, !.cmds[c] = k]
  BY DEF Left, q, k
<1> HIDE DEF v
<1>5. /\ v.followUps = w.followUps /\ v.given = w.given /\ v.stdin = w.stdin
      /\ v.pending = w.pending /\ v.sender = w.sender /\ v.turn = w.turn
      /\ v.seal = w.seal /\ v.child = w.child /\ v.chan = w.chan
      /\ v.queue = q /\ v.cmds = [w.cmds EXCEPT ![c] = k]
  BY <1>4 DEF Session
<1>6. [w.cmds EXCEPT ![c] = k] \in [Commands -> CommandType]
  BY <1>2, <1>3
<1>7. v \in Session
  BY <1>1, <1>4, <1>6 DEF Session
<1>8. v.cmds[c] = k /\ \A d \in Commands : d # c => v.cmds[d] = w.cmds[d]
  BY <1>2, <1>5
<1>9. LeftAs(w, v, c, why)
  BY <1>1, <1>3, <1>5, <1>8 DEF LeftAs
<1> QED
  BY <1>7, <1>9 DEF v

\* It is over, or deleted.
LEMMA GoodLeft ==
  ASSUME NEW n, NEW T, NEW w, Good(w, n, T), NEW c \in Commands, NEW why \in {"done", "deleted"},
         w.cmds[c].status \notin {"new", "recorded"},
         c \notin w.pending, w.cmds[c].delivery # "uncertain"
  PROVE  LET v == Left(w, c, why)
         IN /\ Good(v, n, T) /\ Leaves(w, v)
            /\ v.pending = w.pending /\ v.turn = w.turn /\ v.seal = w.seal /\ v.child = w.child
            /\ v.chan = w.chan /\ v.cmds[c].status = why
            /\ \A d \in Commands : d # c => v.cmds[d] = w.cmds[d]
<1> DEFINE v == Left(w, c, why)
<1>1. w \in Session /\ NoRepeat(w.queue) /\ why \in Statuses
  BY DEF Good, Placed, Statuses
<1>2. /\ v \in Session
      /\ NoRepeat(v.queue) /\ Members(v.queue) = Members(w.queue) \ {c}
      /\ v.followUps = w.followUps /\ v.given = w.given /\ v.stdin = w.stdin
      /\ v.pending = w.pending /\ v.sender = w.sender /\ v.turn = w.turn
      /\ v.seal = w.seal /\ v.child = w.child /\ v.chan = w.chan
      /\ v.cmds[c].status = why /\ v.cmds[c].delivery = "none"
      /\ v.cmds[c].resumed = w.cmds[c].resumed
      /\ \A d \in Commands : d # c => v.cmds[d] = w.cmds[d]
  <2>1. v \in Session /\ LeftAs(w, v, c, why)
    BY <1>1, LeftFields
  <2> HIDE DEF v
  <2> QED
    BY <2>1 DEF LeftAs
<1> HIDE DEF v
<1>3. Placed(v)
  <2>1. \A d \in Commands : d \in Members(v.queue) <=> v.cmds[d].status \in {"queued", "executing"}
    BY <1>2 DEF Good, Placed
  <2>2. \A d \in Commands : v.cmds[d].status = "recorded" <=> w.cmds[d].status = "recorded"
    BY <1>2
  <2> QED
    BY <1>2, <2>1, <2>2 DEF Good, Placed
<1>4. Tried(v)
  BY <1>2 DEF Good, Tried
<1>5. w.pending \subseteq Commands /\ w.turn.inFlight \in Commands \cup {None}
  BY <1>1, Fields DEF TurnType
<1>6. OpenInputs(v)
  BY <1>2, <1>5 DEF Good, OpenInputs, Unsettled
<1>7. TurnKnown(v)
  BY <1>2, <1>5 DEF Good, TurnKnown, Began
<1>8. TakenOnly(v, T)
  BY <1>2 DEF Good, TakenOnly
<1>9. GivenOnce(v, n)
  <2>1. \A d \in Commands : v.cmds[d].resumed = w.cmds[d].resumed
    BY <1>2
  <2> QED
    BY <2>1, <1>2 DEF Good, GivenOnce, Again
<1>10. Good(v, n, T)
  BY <1>2, <1>3, <1>4, <1>6, <1>7, <1>8, <1>9 DEF Good
<1>11. Leaves(w, v)
  BY <1>2 DEF Leaves
<1> QED
  BY <1>2, <1>10, <1>11 DEF v

\* It is recorded under the turn it went into.
LEMMA GoodRecord ==
  ASSUME NEW n, NEW T, NEW w, Good(w, n, T), NEW c \in Commands, NEW b \in Commands,
         w.cmds[c].status = "queued", c \notin w.pending, c \in T
  PROVE  LET v == Record(w, c, b)
         IN /\ Good(v, n, T) /\ Beside(w, v)
            /\ v.cmds[c].status = "recorded" /\ v.given = w.given
            /\ \A d \in Commands : d # c => v.cmds[d] = w.cmds[d]
<1> DEFINE u == [w EXCEPT !.followUps[b] = Append(@, c)]
           v == Record(w, c, b)
           f == [w.followUps EXCEPT ![b] = Append(@, c)]
<1>1. w \in Session /\ NoRepeat(w.queue) /\ "recorded" \in Statuses
  BY DEF Good, Placed, Statuses
<1>2. \A a \in Commands : c \notin Members(w.followUps[a])
  BY DEF Good, Placed
<1>3. /\ f \in [Commands -> Seq(Commands)]
      /\ f[b] = Append(w.followUps[b], c)
      /\ \A a \in Commands : a # b => f[a] = w.followUps[a]
  BY <1>1, Fields
<1>4. NoRepeat(f[b]) /\ Members(f[b]) = Members(w.followUps[b]) \cup {c}
  <2>1. w.followUps[b] \in Seq(Commands) /\ NoRepeat(w.followUps[b])
    BY <1>1, Fields DEF Good, Placed
  <2> QED
    BY <1>2, <1>3, <2>1, PutLast
<1> HIDE DEF f
<1>5. u \in Session /\ u = [w EXCEPT !.followUps = f]
  BY <1>1, <1>3 DEF Session, f
<1>6. /\ u.queue = w.queue /\ u.cmds = w.cmds /\ u.followUps = f /\ u.given = w.given
      /\ u.stdin = w.stdin /\ u.pending = w.pending /\ u.sender = w.sender /\ u.turn = w.turn
      /\ u.seal = w.seal /\ u.child = w.child /\ u.chan = w.chan
  BY <1>1, <1>5 DEF Session
<1>7. v = Left(u, c, "recorded")
  BY DEF Record
<1> HIDE DEF u, v
<1>8. /\ v \in Session
      /\ NoRepeat(v.queue) /\ Members(v.queue) = Members(w.queue) \ {c}
      /\ v.followUps = f /\ v.given = w.given /\ v.stdin = w.stdin
      /\ v.pending = w.pending /\ v.sender = w.sender /\ v.turn = w.turn
      /\ v.seal = w.seal /\ v.child = w.child /\ v.chan = w.chan
      /\ v.cmds[c].status = "recorded" /\ v.cmds[c].delivery = "none"
      /\ v.cmds[c].resumed = w.cmds[c].resumed
      /\ \A d \in Commands : d # c => v.cmds[d] = w.cmds[d]
  <2>1. NoRepeat(u.queue)
    BY <1>1, <1>6
  <2>2. v \in Session /\ LeftAs(u, v, c, "recorded")
    BY <2>1, <1>1, <1>5, <1>7, LeftFields
  <2> QED
    BY <2>2, <1>6 DEF LeftAs
<1>9. Placed(v)
  <2>1. \A d \in Commands : d \in Members(v.queue) <=> v.cmds[d].status \in {"queued", "executing"}
    BY <1>8 DEF Good, Placed
  <2>2. \A a, d \in Commands : d # c => (d \in Members(f[a]) <=> d \in Members(w.followUps[a]))
    BY <1>3, <1>4
  <2>3. \A a \in Commands : c \in Members(f[a]) <=> a = b
    BY <1>2, <1>3, <1>4
  <2>4. ASSUME NEW d \in Commands
        PROVE  v.cmds[d].status = "recorded" <=> \E a \in Commands : d \in Members(f[a])
    <3>1. CASE d = c
      BY <3>1, <2>3, <1>8
    <3>2. CASE d # c
      BY <3>2, <2>2, <1>8 DEF Good, Placed
    <3> QED
      BY <3>1, <3>2
  <2>5. ASSUME NEW a \in Commands, NEW e \in Commands, NEW d \in Commands,
               d \in Members(f[a]), d \in Members(f[e])
        PROVE  a = e
    <3>1. CASE d = c
      BY <3>1, <2>3, <2>5
    <3>2. CASE d # c
      BY <3>2, <2>2, <2>5 DEF Good, Placed
    <3> QED
      BY <3>1, <3>2
  <2>6. \A a \in Commands : NoRepeat(f[a])
    BY <1>3, <1>4 DEF Good, Placed
  <2> QED
    BY <1>8, <2>1, <2>4, <2>5, <2>6 DEF Placed
<1>10. Tried(v)
  BY <1>8 DEF Good, Tried
<1>11. w.pending \subseteq Commands /\ w.turn.inFlight \in Commands \cup {None}
  BY <1>1, Fields DEF TurnType
<1>12. OpenInputs(v)
  BY <1>8, <1>11 DEF Good, OpenInputs, Unsettled
<1>13. TurnKnown(v)
  BY <1>8, <1>11 DEF Good, TurnKnown, Began
<1>14. TakenOnly(v, T)
  BY <1>8 DEF Good, TakenOnly
<1>15. GivenOnce(v, n)
  <2>1. \A d \in Commands : v.cmds[d].resumed = w.cmds[d].resumed
    BY <1>8
  <2> QED
    BY <2>1, <1>8 DEF Good, GivenOnce, Again
<1>16. Good(v, n, T)
  BY <1>8, <1>9, <1>10, <1>12, <1>13, <1>14, <1>15 DEF Good
<1>17. Beside(w, v)
  <2>1. Executing(v) = Executing(w)
    BY <1>8 DEF Executing, Status
  <2>2. \A d \in w.pending : v.cmds[d] = w.cmds[d]
    BY <1>8, <1>11
  <2> QED
    BY <2>1, <2>2, <1>8 DEF Beside
<1> QED
  BY <1>8, <1>16, <1>17 DEF v

\* The promise of c has settled and its continuation runs.
Cleared(w, c) == Release([w EXCEPT !.pending = @ \ {c}, !.chan.due = @ \ {c}], c)

LEMMA GoodCleared ==
  ASSUME NEW n, NEW T, NEW w, Good(w, n, T), NEW c \in w.chan.due
  PROVE  LET v == Cleared(w, c)
         IN /\ Good(v, n, T) /\ Leaves(w, v) /\ Beside(w, v)
            /\ v.cmds = w.cmds /\ v.pending = w.pending \ {c}
<1> DEFINE v == Cleared(w, c)
<1>1. w \in Session
  BY DEF Good
<1>2. /\ v.queue = w.queue /\ v.cmds = w.cmds /\ v.followUps = w.followUps /\ v.given = w.given
      /\ v.stdin = w.stdin /\ v.pending = w.pending \ {c} /\ v.turn = w.turn
      /\ v.seal = w.seal /\ v.child = w.child
      /\ v.sender = IF w.sender = c THEN None ELSE w.sender
      /\ v.chan = [w.chan EXCEPT !.due = @ \ {c}]
  BY <1>1 DEF Cleared, Release, Session
<1>3. /\ [w.chan EXCEPT !.due = @ \ {c}] \in ChannelType
      /\ v.chan.phase = w.chan.phase /\ v.chan.due = w.chan.due \ {c}
      /\ v.chan.hold = w.chan.hold /\ v.chan.finalizing = w.chan.finalizing
      /\ v.chan.waitFor = w.chan.waitFor
  BY <1>1, <1>2, Fields DEF ChannelType
<1>4. v \in Session
  BY <1>1, <1>3 DEF Cleared, Release, Session
<1> HIDE DEF v
<1>5. Unsettled(v) = Unsettled(w) /\ c \notin Unsettled(w)
  BY <1>3 DEF Unsettled, Good, OpenInputs
<1>6. OpenInputs(v)
  BY <1>2, <1>3, <1>5 DEF Good, OpenInputs
<1>7. TurnKnown(v) /\ TakenOnly(v, T)
  BY <1>2, <1>3 DEF Good, TurnKnown, TakenOnly
<1>8. v.stdin \in Seq(WrittenType)
  BY <1>2 DEF Good
<1>9. Good(v, n, T) /\ Leaves(w, v)
  BY <1>2, <1>4, <1>6, <1>7, <1>8, Aside
<1>10. Beside(w, v)
  BY <1>2 DEF Beside, Executing, Status
<1> QED
  BY <1>2, <1>9, <1>10 DEF v

LEMMA ClearedCommutes ==
  ASSUME NEW w \in Session, NEW c \in Commands
  PROVE  /\ \A b \in Commands :
              Release([Record(w, c, b) EXCEPT !.pending = @ \ {c}, !.chan.due = @ \ {c}], c)
                = Record(Cleared(w, c), c, b)
         /\ Release([[w EXCEPT !.cmds[c].delivery = "uncertain"]
                       EXCEPT !.pending = @ \ {c}, !.chan.due = @ \ {c}], c)
              = [Cleared(w, c) EXCEPT !.cmds[c].delivery = "uncertain"]
<1>1. ASSUME NEW b \in Commands
      PROVE  Release([Record(w, c, b) EXCEPT !.pending = @ \ {c}, !.chan.due = @ \ {c}], c)
               = Record(Cleared(w, c), c, b)
  <2> DEFINE q == Without(w.queue, c)
             k == [Fresh EXCEPT !.status = "recorded", !.resumed = w.cmds[c].resumed]
             f == [w.followUps EXCEPT ![b] = Append(@, c)]
             x == Cleared(w, c)
  <2>1. x.queue = w.queue /\ x.cmds = w.cmds /\ x.followUps = w.followUps
    BY DEF Release, Cleared, Session
  <2>2. Record(w, c, b) = [w EXCEPT !.followUps = f, !.queue = q, !.cmds[c] = k]
    BY DEF Record, Left, Session
  <2>3. Record(x, c, b) = [x EXCEPT !.followUps = f, !.queue = q, !.cmds[c] = k]
    <3>1. x \in [DOMAIN w -> {w[z] : z \in DOMAIN w} \cup {x[z] : z \in DOMAIN w}]
      BY DEF Release, Cleared, Session
    <3> QED
      BY <2>1, <3>1 DEF Record, Left, Cleared, Release, Session
  <2> HIDE DEF q, k, f
  <2> DEFINE r == Record(w, c, b)
  <2> HIDE DEF r
  <2>6. r = [w EXCEPT !.followUps = f, !.queue = q, !.cmds[c] = k]
    BY <2>2 DEF r
  <2>4. Release([r EXCEPT !.pending = @ \ {c}, !.chan.due = @ \ {c}], c)
          = [x EXCEPT !.followUps = f, !.queue = q, !.cmds[c] = k]
    <3> DEFINE p == w.pending \ {c}
               ch == [w.chan EXCEPT !.due = @ \ {c}]
    <3>1. x = [w EXCEPT !.pending = p, !.chan = ch, !.sender = IF @ = c THEN None ELSE @]
      BY DEF Cleared, Release, Session
    <3>2. [r EXCEPT !.pending = @ \ {c}, !.chan.due = @ \ {c}]
            = [r EXCEPT !.pending = p, !.chan = ch]
      BY <2>6 DEF Session
    <3> HIDE DEF p, ch, x
    <3>3. Release([r EXCEPT !.pending = p, !.chan = ch], c)
            = [r EXCEPT !.pending = p, !.chan = ch, !.sender = IF @ = c THEN None ELSE @]
      BY <2>6 DEF Release, Session
    <3>4. [r EXCEPT !.pending = p, !.chan = ch, !.sender = IF @ = c THEN None ELSE @]
            = [x EXCEPT !.followUps = f, !.queue = q, !.cmds[c] = k]
      BY <2>6, <3>1 DEF Session
    <3> QED
      BY <3>2, <3>3, <3>4
  <2> HIDE DEF x
  <2>5. Record(x, c, b) = Record(Cleared(w, c), c, b)
    BY DEF x
  <2>7. Release([r EXCEPT !.pending = @ \ {c}, !.chan.due = @ \ {c}], c) = Record(Cleared(w, c), c, b)
    BY <2>3, <2>4, <2>5
  <2> QED
    BY <2>7, Zenon DEF r
<1>2. Release([[w EXCEPT !.cmds[c].delivery = "uncertain"]
                 EXCEPT !.pending = @ \ {c}, !.chan.due = @ \ {c}], c)
        = [Cleared(w, c) EXCEPT !.cmds[c].delivery = "uncertain"]
  BY DEF Release, Cleared, Session
<1> QED
  BY <1>1, <1>2

LEMMA GoodConcluded ==
  ASSUME NEW n, NEW T, NEW w, Good(w, n, T), NEW c \in w.chan.due
  PROVE  LET v == Concluded(w, c)
         IN Good(v, n, T) /\ Leaves(w, v) /\ Beside(w, v)
<1>1. /\ w \in Session /\ c \in Commands /\ c \in w.pending
      /\ w.cmds[c].delivery \in {"sending", "received"}
      /\ w.cmds[c].status = "queued" /\ w.cmds[c].target \in Commands
  <2>1. w \in Session /\ c \in Commands
    BY Fields DEF Good, ChannelType
  <2>2. c \in w.pending
    BY DEF Good, OpenInputs
  <2>3. w.cmds[c].delivery \in {"sending", "received"}
    BY <2>2 DEF Good, OpenInputs
  <2> QED
    BY <2>1, <2>2, <2>3 DEF Good, Tried
<1> DEFINE x == Cleared(w, c)
           b == w.cmds[c].target
           y == IF w.chan.phase[c] = "accepted" THEN Record(x, c, b)
                ELSE [x EXCEPT !.cmds[c].delivery = "uncertain"]
<1>2. /\ Good(x, n, T) /\ Leaves(w, x) /\ Beside(w, x)
      /\ x.cmds = w.cmds /\ c \notin x.pending
  BY GoodCleared
<1>3. Concluded(w, c) = Drain(y)
  <2> DEFINE at(v) == Release([v EXCEPT !.pending = @ \ {c}, !.chan.due = @ \ {c}], c)
  <2>1. CASE w.chan.phase[c] = "accepted"
    <3>1. Concluded(w, c) = Drain(at(Record(w, c, b)))
      BY <2>1 DEF Concluded
    <3>2. at(Record(w, c, b)) = Record(x, c, b)
      BY <1>1, ClearedCommutes
    <3> QED
      BY <2>1, <3>1, <3>2
  <2>2. CASE w.chan.phase[c] # "accepted"
    <3>1. Concluded(w, c) = Drain(at([w EXCEPT !.cmds[c].delivery = "uncertain"]))
      BY <2>2 DEF Concluded
    <3>2. at([w EXCEPT !.cmds[c].delivery = "uncertain"]) = [x EXCEPT !.cmds[c].delivery = "uncertain"]
      BY <1>1, ClearedCommutes
    <3> QED
      BY <2>2, <3>1, <3>2
  <2> QED
    BY <2>1, <2>2
<1> HIDE DEF x
<1>4. Good(y, n, T) /\ Leaves(x, y) /\ Beside(x, y)
  <2>1. CASE w.chan.phase[c] = "accepted"
    <3>1. c \in T
      BY <2>1, <1>1 DEF Good, TakenOnly
    <3> DEFINE z == Record(x, c, b)
    <3>2. /\ Good(z, n, T) /\ Beside(x, z)
          /\ z.cmds[c].status = "recorded" /\ z.given = x.given
          /\ \A d \in Commands : d # c => z.cmds[d] = x.cmds[d]
      BY <1>1, <1>2, <3>1, GoodRecord
    <3> HIDE DEF z
    <3>3. Leaves(x, z)
      BY <1>1, <1>2, <3>2 DEF Leaves
    <3> QED
      BY <2>1, <3>2, <3>3 DEF z
  <2>2. CASE w.chan.phase[c] # "accepted"
    BY <2>2, <1>1, <1>2, GoodDelivery
  <2> QED
    BY <2>1, <2>2
<1> HIDE DEF y
<1>5. Good(Drain(y), n, T) /\ Leaves(y, Drain(y)) /\ Beside(y, Drain(y))
  BY <1>4, GoodDrain
<1>6. Leaves(w, Drain(y)) /\ Beside(w, Drain(y))
  BY <1>2, <1>4, <1>5, LeavesAll, BesideAll
<1> QED
  BY <1>3, <1>5, <1>6

(***************************************************************************)
(* A turn starts.                                                          *)
(***************************************************************************)
\* A step that touches only the turn, its end, the process and what is written to it.
LEMMA Turned ==
  ASSUME NEW n, NEW T, NEW w, Good(w, n, T), NEW v \in Session,
         v.queue = w.queue, v.cmds = w.cmds, v.followUps = w.followUps, v.given = w.given,
         v.pending = w.pending, v.sender = w.sender, v.chan = w.chan,
         v.stdin \in Seq(WrittenType), TurnKnown(v),
         v.child.state # "live" => w.child.state # "live" \/ Unsettled(w) = {},
         v.seal.on # "no" => ~v.turn.spoke \/ w.pending = {}
  PROVE  Good(v, n, T) /\ Leaves(w, v) /\ Executing(v) = Executing(w)
<1>1. OpenInputs(v)
  BY DEF Good, OpenInputs, Unsettled
<1>2. TakenOnly(v, T)
  BY DEF Good, TakenOnly
<1>3. Executing(v) = Executing(w)
  BY DEF Executing, Status
<1> QED
  BY <1>1, <1>2, <1>3, Aside

LEMMA GoodFreshChannel ==
  ASSUME NEW n, NEW T, NEW w, Good(w, n, T), w.pending = {}, NEW v \in Session,
         v.queue = w.queue, v.cmds = w.cmds, v.followUps = w.followUps, v.given = w.given,
         v.pending = w.pending, v.sender = w.sender, v.turn = w.turn, v.seal = w.seal,
         v.stdin \in Seq(WrittenType),
         v.chan.phase = NewChannel.phase, v.chan.due = {}, v.chan.hold = FALSE,
         v.child.state = w.child.state \/ ~w.turn.stopping
  PROVE  Good(v, n, T) /\ Leaves(w, v)
<1>1. Unsettled(v) = {}
  BY DEF Unsettled, NewChannel
<1>2. OpenInputs(v)
  BY <1>1 DEF Good, OpenInputs
<1>3. TurnKnown(v)
  BY DEF Good, TurnKnown
<1>4. TakenOnly(v, T)
  BY DEF Good, TakenOnly, NewChannel
<1> QED
  BY <1>2, <1>3, <1>4, Aside

LEMMA NewChannelType == NewChannel \in ChannelType
BY DEF NewChannel, ChannelType, Phases

LEMMA GoodBeginTurn ==
  ASSUME NEW n, NEW T, NEW w, Good(w, n, T), w.pending = {}
  PROVE  LET v == BeginTurn(w)
         IN Good(v, n, T) /\ Leaves(w, v) /\ ChannelOnly(w, v)
<1> DEFINE v == BeginTurn(w)
           chan == [NewChannel EXCEPT !.closed = w.chan.closed]
<1>1. w \in Session
  BY DEF Good
<1>2. /\ chan \in ChannelType /\ chan.phase = NewChannel.phase
      /\ chan.due = {} /\ chan.hold = FALSE
  <2>1. w.chan.closed \in BOOLEAN
    BY <1>1, Fields DEF ChannelType
  <2>2. NewChannel.due = {} /\ NewChannel.hold = FALSE
    BY DEF NewChannel
  <2> QED
    BY <2>1, <2>2, NewChannelType DEF ChannelType
<1>3. v = [w EXCEPT !.chan = chan]
  BY DEF BeginTurn
<1> HIDE DEF v, chan
<1>4. v \in Session /\ v.chan = chan
  BY <1>1, <1>2, <1>3 DEF Session
<1>5. ChannelOnly(w, v)
  BY <1>3, <1>4 DEF ChannelOnly
<1>6. /\ v.queue = w.queue /\ v.cmds = w.cmds /\ v.followUps = w.followUps
      /\ v.pending = w.pending /\ v.sender = w.sender /\ v.turn = w.turn /\ v.seal = w.seal
      /\ v.child = w.child /\ v.stdin = w.stdin /\ v.given = w.given
  BY <1>1, <1>5, ChannelOnlyFields
<1>7. v.stdin \in Seq(WrittenType)
  BY <1>6 DEF Good
<1>8. Good(v, n, T) /\ Leaves(w, v)
  BY <1>2, <1>4, <1>6, <1>7, GoodFreshChannel
<1> QED
  BY <1>5, <1>8 DEF v

LEMMA GoodSpawned ==
  ASSUME NEW n, NEW T, NEW w, Good(w, n, T), w.pending = {},
         w.child.state \notin {"closing", "exited"}
  PROVE  LET v == Spawned(w)
         IN /\ Good(v, n, T) /\ Leaves(w, v)
            /\ v.cmds = w.cmds /\ v.pending = w.pending /\ v.turn = w.turn /\ v.seal = w.seal
            /\ v.child.state = "live" /\ v.child.tasks = w.child.tasks
            /\ v.child.notices = w.child.notices
<1> DEFINE v == Spawned(w)
           child == [w.child EXCEPT !.state = "live", !.intentional = FALSE]
<1>1. w \in Session
  BY DEF Good
<1>2. /\ child \in ChildType /\ child.state = "live"
      /\ child.tasks = w.child.tasks /\ child.notices = w.child.notices
  BY <1>1, Fields DEF ChildType
<1>3. /\ v.child = child /\ v.chan = NewChannel /\ v.stdin = <<>>
      /\ v.queue = w.queue /\ v.cmds = w.cmds /\ v.followUps = w.followUps
      /\ v.pending = w.pending /\ v.sender = w.sender /\ v.turn = w.turn /\ v.seal = w.seal
      /\ v.given = w.given
  BY <1>1 DEF Spawned, Session
<1>4. v \in Session
  <2>1. <<>> \in Seq(ItemType)
    OBVIOUS
  <2> QED
    BY <1>1, <1>2, <2>1, NewChannelType DEF Spawned, Session
<1> HIDE DEF v, child
<1>5. v.stdin \in Seq(WrittenType)
  BY <1>3
<1>6. v.chan.phase = NewChannel.phase /\ v.chan.due = {} /\ v.chan.hold = FALSE
  BY <1>3 DEF NewChannel
<1>7. ~w.turn.stopping
  BY DEF Good, TurnKnown
<1>8. Good(v, n, T) /\ Leaves(w, v)
  BY <1>3, <1>4, <1>5, <1>6, <1>7, GoodFreshChannel
<1> QED
  BY <1>2, <1>3, <1>8 DEF v

LEMMA GoodPrompted ==
  ASSUME NEW n, NEW T, NEW w, Good(w, n, T), NEW c \in Waiting(w), w.pending = {},
         w.child.state = "live"
  PROVE  LET v == Prompted(w, c)
         IN /\ Good(v, n, T) /\ Leaves(w, v) /\ v.pending = w.pending /\ v.seal = w.seal
            /\ v.chan = w.chan
            /\ v.turn = [NoTurn EXCEPT !.inFlight = c]
            /\ v.child = [w.child EXCEPT !.ready = FALSE]
            /\ v.cmds[c].status = "executing"
            /\ \A d \in Commands : d # c => v.cmds[d] = w.cmds[d]
<1> DEFINE v == Prompted(w, c)
           cmds == [w.cmds EXCEPT ![c].status = "executing"]
           turn == [NoTurn EXCEPT !.inFlight = c]
           child == [w.child EXCEPT !.ready = FALSE]
           item == [kind |-> "prompt", of |-> c]
<1>1. /\ w \in Session /\ c \in Commands
      /\ w.cmds[c].status = "queued" /\ w.cmds[c].mode # "steer"
  BY DEF Good, Waiting
<1>2. w.cmds[c].delivery = "none"
  BY <1>1 DEF Good, Tried
<1>3. /\ cmds \in [Commands -> CommandType]
      /\ cmds[c].status = "executing" /\ cmds[c].delivery = "none"
      /\ cmds[c].resumed = w.cmds[c].resumed
      /\ \A d \in Commands : d # c => cmds[d] = w.cmds[d]
  <2> DEFINE k == [w.cmds[c] EXCEPT !.status = "executing"]
  <2>1. w.cmds[c] \in CommandType /\ w.cmds \in [Commands -> CommandType]
    BY <1>1, Fields
  <2>2. /\ k \in CommandType /\ k.status = "executing" /\ k.delivery = "none"
        /\ k.resumed = w.cmds[c].resumed
    BY <1>2, <2>1 DEF CommandType, Statuses
  <2>3. cmds = [w.cmds EXCEPT ![c] = k]
    BY <2>1
  <2> HIDE DEF k, cmds
  <2> QED
    BY <1>1, <2>1, <2>2, <2>3
<1>4. /\ turn \in TurnType /\ turn.inFlight = c /\ turn.early = FALSE /\ turn.stopping = FALSE
  BY <1>1 DEF NoTurn, TurnType
<1>5. child \in ChildType /\ child.state = w.child.state
  BY <1>1, Fields DEF ChildType
<1>6. Append(w.stdin, item) \in Seq(ItemType) /\ Append(w.stdin, item) \in Seq(WrittenType)
  <2>1. item \in ItemType /\ item \in WrittenType
    BY <1>1 DEF ItemType, WrittenType
  <2>2. w.stdin \in Seq(ItemType) /\ w.stdin \in Seq(WrittenType)
    BY <1>1, Fields DEF Good
  <2> HIDE DEF item
  <2> QED
    BY <2>1, <2>2
<1>7. /\ v.cmds = cmds /\ v.turn = turn /\ v.child = child /\ v.stdin = Append(w.stdin, item)
      /\ v.given = [w.given EXCEPT ![c] = @ + 1]
      /\ v.queue = w.queue /\ v.followUps = w.followUps /\ v.pending = w.pending
      /\ v.sender = w.sender /\ v.seal = w.seal /\ v.chan = w.chan
  BY <1>1 DEF Prompted, Session
<1>8. v \in Session
  <2>1. [w.given EXCEPT ![c] = @ + 1] \in [Commands -> Nat]
    BY <1>1, Fields
  <2> QED
    BY <1>1, <1>3, <1>4, <1>5, <1>6, <2>1 DEF Prompted, Session
<1>9. turn = [NoTurn EXCEPT !.inFlight = c] /\ child = [w.child EXCEPT !.ready = FALSE]
  OBVIOUS
<1> HIDE DEF v, cmds, turn, child, item
<1>10. Placed(v)
  <2>1. \A d \in Commands : v.cmds[d].status \in {"queued", "executing"}
                             <=> w.cmds[d].status \in {"queued", "executing"}
    BY <1>1, <1>3, <1>7
  <2>2. \A d \in Commands : v.cmds[d].status = "recorded" <=> w.cmds[d].status = "recorded"
    BY <1>1, <1>3, <1>7
  <2> QED
    BY <2>1, <2>2, <1>7 DEF Good, Placed
<1>11. Tried(v)
  BY <1>3, <1>7 DEF Good, Tried
<1>12. OpenInputs(v)
  BY <1>5, <1>7 DEF Good, OpenInputs, Unsettled
<1>13. TurnKnown(v)
  BY <1>1, <1>3, <1>4, <1>7 DEF Good, TurnKnown, Began
<1>14. TakenOnly(v, T)
  BY <1>1, <1>3, <1>7 DEF Good, TakenOnly
<1>15. GivenOnce(v, n)
  <2> SUFFICES ASSUME NEW d \in Commands
               PROVE  /\ v.given[d] <= 1 + Again(v, d, n)
                      /\ v.cmds[d].status = "new" => v.given[d] = 0
                      /\ v.cmds[d].status = "queued" /\ v.cmds[d].delivery \in {"none", "unavailable"}
                           => v.given[d] <= Again(v, d, n)
    BY DEF GivenOnce
  <2>1. CASE d = c
    <3>1. v.given[c] = w.given[c] + 1 /\ Again(v, c, n) = Again(w, c, n)
      BY <1>1, <1>3, <1>7, Fields DEF Again
    <3>2. w.given[c] <= Again(w, c, n)
      BY <1>1, <1>2 DEF Good, GivenOnce
    <3>3. w.given[c] \in Nat /\ Again(w, c, n) \in Nat
      BY <1>1, Fields DEF Good, Again
    <3> QED
      BY <2>1, <3>1, <3>2, <3>3, <1>3, <1>7
  <2>2. CASE d # c
    BY <2>2, <1>1, <1>3, <1>7, Fields DEF Good, GivenOnce, Again
  <2> QED
    BY <2>1, <2>2
<1>16. Good(v, n, T)
  BY <1>6, <1>7, <1>8, <1>10, <1>11, <1>12, <1>13, <1>14, <1>15 DEF Good
<1>17. Leaves(w, v)
  BY <1>1, <1>2, <1>3, <1>7, Fields DEF Leaves
<1> QED
  BY <1>3, <1>7, <1>9, <1>16, <1>17 DEF v

\* What the attempt to start the next command does: nothing to the commands, or one starts in a
\* session where none runs and no input is open.
NothingStarts(w, v) ==
  /\ v.cmds = w.cmds /\ v.turn = w.turn /\ v.child.state = w.child.state
  /\ v.child.ready = w.child.ready \/ w.child.state \in {"closing", "exited"}
SomethingStarts(w, v) ==
  /\ ~Busy(w) /\ w.child.state \notin {"closing", "exited"}
  /\ \E c \in Waiting(w) :
       /\ v.turn.inFlight = c /\ v.cmds[c].status = "executing"
       /\ \A d \in Commands : d # c => v.cmds[d] = w.cmds[d]
  /\ v.child.state = "live" /\ ~v.child.ready
Starts(w, v) ==
  /\ v.pending = w.pending /\ v.seal = w.seal
  /\ NothingStarts(w, v) \/ SomethingStarts(w, v)

LEMMA GoodExecute ==
  ASSUME NEW n, NEW T, NEW w, Good(w, n, T), NEW c \in Waiting(w), ~Busy(w)
  PROVE  LET v == Execute(w, c)
         IN Good(v, n, T) /\ Leaves(w, v) /\ Starts(w, v)
<1>1. w \in Session /\ w.pending = {} /\ c \in Commands
  BY DEF Good, Busy, Waiting
<1>2. CASE w.child.state \in {"closing", "exited"}
  <2> DEFINE v == [w EXCEPT !.child.ready = FALSE]
  <2>1. v \in Session
    <3>1. [w.child EXCEPT !.ready = FALSE] \in ChildType
      BY <1>1, Fields DEF ChildType
    <3> QED
      BY <1>1, <3>1 DEF Session
  <2>2. /\ v.queue = w.queue /\ v.cmds = w.cmds /\ v.followUps = w.followUps /\ v.given = w.given
        /\ v.stdin = w.stdin /\ v.pending = w.pending /\ v.sender = w.sender /\ v.turn = w.turn
        /\ v.seal = w.seal /\ v.chan = w.chan /\ v.child.state = w.child.state
    BY <1>1 DEF Session, ChildType
  <2> HIDE DEF v
  <2>3. TurnKnown(v) /\ v.stdin \in Seq(WrittenType)
    BY <2>2 DEF Good, TurnKnown
  <2>4. v.seal.on # "no" => ~v.turn.spoke \/ w.pending = {}
    BY <1>1
  <2>5. Good(v, n, T) /\ Leaves(w, v)
    BY <1>2, <2>1, <2>2, <2>3, <2>4, Turned
  <2>6. Starts(w, v)
    BY <1>2, <2>2 DEF Starts, NothingStarts
  <2>7. Execute(w, c) = v
    BY <1>2 DEF Execute, v
  <2> QED
    BY <2>5, <2>6, <2>7
<1>3. CASE w.child.state \notin {"closing", "exited"}
  <2> DEFINE u == IF w.child.state = "live" /\ w.child.ready THEN BeginTurn(w) ELSE Spawned(w)
             v == Prompted(u, c)
  <2>1. /\ Good(u, n, T) /\ Leaves(w, u) /\ u.cmds = w.cmds /\ u.pending = w.pending
        /\ u.seal = w.seal /\ u.child.state = "live"
    <3>1. CASE w.child.state = "live" /\ w.child.ready
      <4>1. Good(u, n, T) /\ Leaves(w, u) /\ ChannelOnly(w, u)
        BY <1>1, <3>1, GoodBeginTurn
      <4> HIDE DEF u
      <4> QED
        BY <1>1, <3>1, <4>1, ChannelOnlyFields
    <3>2. CASE ~(w.child.state = "live" /\ w.child.ready)
      BY <1>1, <1>3, <3>2, GoodSpawned
    <3> QED
      BY <3>1, <3>2
  <2>2. Execute(w, c) = v
    BY <1>3 DEF Execute
  <2> HIDE DEF u
  <2>3. c \in Waiting(u) /\ u.pending = {}
    BY <1>1, <2>1 DEF Waiting
  <2>4. /\ Good(v, n, T) /\ Leaves(u, v) /\ v.pending = u.pending /\ v.seal = u.seal
        /\ v.turn = [NoTurn EXCEPT !.inFlight = c]
        /\ v.child = [u.child EXCEPT !.ready = FALSE]
        /\ v.cmds[c].status = "executing"
        /\ \A d \in Commands : d # c => v.cmds[d] = u.cmds[d]
    BY <2>1, <2>3, GoodPrompted
  <2> HIDE DEF v
  <2>5. v.turn.inFlight = c /\ v.child.state = "live" /\ ~v.child.ready
    <3>1. u.child \in ChildType
      BY <2>1, Fields DEF Good
    <3> QED
      BY <2>1, <2>4, <3>1 DEF NoTurn, ChildType
  <2>6. Starts(w, v)
    BY <1>3, <2>1, <2>4, <2>5 DEF Starts, SomethingStarts
  <2>7. Leaves(w, v)
    BY <2>1, <2>4, LeavesAll
  <2> QED
    BY <2>2, <2>4, <2>6, <2>7
<1> QED
  BY <1>2, <1>3

LEMMA GoodProcessNext ==
  ASSUME NEW n, NEW T, NEW w, Good(w, n, T)
  PROVE  LET v == ProcessNext(w)
         IN Good(v, n, T) /\ Leaves(w, v) /\ Starts(w, v)
<1>1. CASE Busy(w) \/ Members(w.queue) \cap Waiting(w) = {}
  <2>1. ProcessNext(w) = w
    BY <1>1 DEF ProcessNext
  <2>2. Starts(w, w)
    BY DEF Starts, NothingStarts
  <2> QED
    BY <2>1, <2>2, LeavesItself
<1>2. CASE ~Busy(w) /\ Members(w.queue) \cap Waiting(w) # {}
  <2> DEFINE c == w.queue[FirstOf(w.queue, Waiting(w))]
  <2>1. w.queue \in Seq(Commands)
    BY Fields DEF Good
  <2>2. c \in Waiting(w)
    BY <1>2, <2>1, FirstIsFound
  <2>3. ProcessNext(w) = Execute(w, c)
    BY <1>2 DEF ProcessNext
  <2> HIDE DEF c
  <2> QED
    BY <1>2, <2>2, <2>3, GoodExecute
<1> QED
  BY <1>1, <1>2

LEMMA StartsFinishesNothing ==
  ASSUME NEW w, NEW v, Starts(w, v)
  PROVE  Executing(w) \subseteq Executing(v)
<1>1. CASE NothingStarts(w, v)
  BY <1>1 DEF NothingStarts, Executing, Status
<1>2. CASE SomethingStarts(w, v)
  BY <1>2 DEF SomethingStarts, Busy
<1> QED
  BY <1>1, <1>2 DEF Starts

(***************************************************************************)
(* A turn ends.                                                            *)
(***************************************************************************)
\* The command b is over and nothing else is.
Over(w, v, b) ==
  /\ v.pending = w.pending /\ v.turn = NoTurn
  /\ v.cmds[b].status = "done" /\ \A d \in Commands : d # b => v.cmds[d] = w.cmds[d]

LEMMA GoodArchived ==
  ASSUME NEW n, NEW T, NEW w, Good(w, n, T), NEW b \in Commands, w.cmds[b].status \in Began
  PROVE  LET v == Archived(w, b)
         IN /\ Good(v, n, T) /\ Leaves(w, v) /\ Over(w, v, b)
            /\ v.seal = w.seal /\ v.child = w.child
<1> DEFINE u == Left(w, b, "done")
           x == NoHold(u)
           v == [x EXCEPT !.turn = NoTurn]
<1>1. w.cmds[b].delivery = "none" /\ b \notin w.pending
  <2>1. w.cmds[b].delivery = "none"
    BY DEF Good, Tried, Began
  <2> QED
    BY <2>1 DEF Good, OpenInputs
<1>2. w.cmds[b].status \notin {"new", "recorded"}
  BY DEF Began
<1>3. /\ Good(u, n, T) /\ Leaves(w, u) /\ u.pending = w.pending /\ u.seal = w.seal
      /\ u.child = w.child /\ u.cmds[b].status = "done"
      /\ \A d \in Commands : d # b => u.cmds[d] = w.cmds[d]
  BY <1>1, <1>2, GoodLeft
<1> HIDE DEF u
<1>4. Good(x, n, T) /\ Leaves(u, x) /\ ChannelOnly(u, x)
  BY <1>3, GoodNoHold
<1>5. x.cmds = u.cmds /\ x.pending = u.pending /\ x.seal = u.seal /\ x.child = u.child
  <2>1. u \in Session
    BY <1>3 DEF Good
  <2> HIDE DEF x
  <2> QED
    BY <2>1, <1>4, ChannelOnlyFields
<1> HIDE DEF x
<1>6. x \in Session
  BY <1>4 DEF Good
<1>7. /\ v.queue = x.queue /\ v.cmds = x.cmds /\ v.followUps = x.followUps /\ v.given = x.given
      /\ v.stdin = x.stdin /\ v.pending = x.pending /\ v.sender = x.sender
      /\ v.seal = x.seal /\ v.child = x.child /\ v.chan = x.chan /\ v.turn = NoTurn
  BY <1>6 DEF Session
<1>8. v \in Session
  <2>1. NoTurn \in TurnType
    BY DEF NoTurn, TurnType
  <2> QED
    BY <1>6, <2>1 DEF Session
<1> HIDE DEF v
<1>9. TurnKnown(v)
  BY <1>4, <1>7 DEF Good, TurnKnown, NoTurn
<1>10. /\ v.stdin \in Seq(WrittenType)
       /\ v.child.state # "live" => x.child.state # "live" \/ Unsettled(x) = {}
       /\ v.seal.on # "no" => ~v.turn.spoke \/ x.pending = {}
  BY <1>4, <1>7 DEF Good, OpenInputs, NoTurn
<1>11. Good(v, n, T) /\ Leaves(x, v)
  BY <1>4, <1>7, <1>8, <1>9, <1>10, Turned
<1>12. Leaves(w, v)
  BY <1>3, <1>4, <1>11, LeavesAll
<1>13. Over(w, v, b)
  BY <1>3, <1>5, <1>7 DEF Over
<1>14. Archived(w, b) = v
  BY DEF Archived, u, x, v
<1> QED
  BY <1>3, <1>5, <1>7, <1>11, <1>12, <1>13, <1>14

\* The command b ends, and the next one may start at once.
Ends(w, v, b, ready) ==
  \E u \in Session :
    /\ Over(w, u, b)
    /\ u.seal = NoSeal /\ u.child.state = w.child.state /\ u.child.ready = ready
    /\ Starts(u, v)

LEMMA GoodFinalize ==
  ASSUME NEW n, NEW T, NEW w, Good(w, n, T), NEW b \in Commands, w.cmds[b].status \in Began,
         NEW ready \in BOOLEAN
  PROVE  LET v == Finalize(w, b, ready)
         IN Good(v, n, T) /\ Leaves(w, v) /\ Ends(w, v, b, ready)
<1> DEFINE u == Archived(w, b)
           x == [u EXCEPT !.seal = NoSeal, !.child.ready = ready]
           v == ProcessNext(x)
<1>1. /\ Good(u, n, T) /\ Leaves(w, u) /\ Over(w, u, b) /\ u.seal = w.seal /\ u.child = w.child
  BY GoodArchived
<1> HIDE DEF u
<1>2. u \in Session /\ u.child \in ChildType
  BY <1>1, Fields DEF Good
<1>3. /\ x.queue = u.queue /\ x.cmds = u.cmds /\ x.followUps = u.followUps /\ x.given = u.given
      /\ x.stdin = u.stdin /\ x.pending = u.pending /\ x.sender = u.sender /\ x.chan = u.chan
      /\ x.turn = u.turn /\ x.seal = NoSeal /\ x.child = [u.child EXCEPT !.ready = ready]
  BY <1>2 DEF Session
<1>4. x \in Session
  <2>1. NoSeal \in SealType /\ [u.child EXCEPT !.ready = ready] \in ChildType
    BY <1>2 DEF NoSeal, SealType, ChildType
  <2> QED
    BY <1>2, <2>1 DEF Session
<1>5. x.child.state = u.child.state /\ x.child.ready = ready
  BY <1>2, <1>3 DEF ChildType
<1> HIDE DEF x
<1>6. TurnKnown(x) /\ x.seal.on = "no"
  BY <1>1, <1>3, <1>5 DEF Good, TurnKnown, NoSeal
<1>7. x.stdin \in Seq(WrittenType)
      /\ (x.child.state # "live" => u.child.state # "live" \/ Unsettled(u) = {})
  BY <1>1, <1>3, <1>5 DEF Good, OpenInputs
<1>8. Good(x, n, T) /\ Leaves(u, x)
  BY <1>1, <1>3, <1>4, <1>6, <1>7, Turned
<1>9. Good(v, n, T) /\ Leaves(x, v) /\ Starts(x, v)
  BY <1>8, GoodProcessNext
<1>10. Finalize(w, b, ready) = v
  BY DEF Finalize, u, x
<1> HIDE DEF v
<1>11. Over(w, x, b)
  BY <1>1, <1>3 DEF Over
<1>12. Ends(w, v, b, ready)
  BY <1>1, <1>3, <1>4, <1>5, <1>9, <1>11 DEF Ends
<1>13. Leaves(w, v)
  BY <1>1, <1>8, <1>9, LeavesAll
<1> QED
  BY <1>9, <1>10, <1>12, <1>13

\* The commands, the open inputs and what is in flight stay as they are.
Same(w, v) ==
  /\ v.cmds = w.cmds /\ v.pending = w.pending /\ v.turn.inFlight = w.turn.inFlight
  /\ v.child.state = w.child.state /\ v.child.ready = w.child.ready

LEMMA EndsTheSame ==
  ASSUME NEW w, NEW x, NEW v, Same(w, x), NEW b, NEW ready, Ends(x, v, b, ready)
  PROVE  Ends(w, v, b, ready)
<1>1. PICK u \in Session : /\ Over(x, u, b) /\ u.seal = NoSeal /\ u.child.state = x.child.state
                           /\ u.child.ready = ready /\ Starts(u, v)
  BY DEF Ends
<1>2. Over(w, u, b)
  BY <1>1 DEF Over, Same
<1> QED
  BY <1>1, <1>2 DEF Ends, Same

\* A step that only clears flags of the turn and the process or takes the held end away.
LEMMA Cleaned ==
  ASSUME NEW n, NEW T, NEW w, Good(w, n, T), NEW v \in Session,
         v.queue = w.queue, v.cmds = w.cmds, v.followUps = w.followUps, v.given = w.given,
         v.pending = w.pending, v.sender = w.sender, v.chan = w.chan, v.stdin = w.stdin,
         v.seal \in {w.seal, NoSeal}, v.turn.inFlight = w.turn.inFlight,
         v.turn.early => w.turn.early, v.turn.stopping => w.turn.stopping,
         v.turn.spoke => w.turn.spoke \/ (v.seal = NoSeal /\ ~v.turn.early),
         v.child.state = w.child.state, v.child.ready = w.child.ready
  PROVE  Good(v, n, T) /\ Leaves(w, v) /\ Same(w, v)
<1>1. NoSeal.on = "no"
  BY DEF NoSeal
<1>2. TurnKnown(v)
  BY <1>1 DEF Good, TurnKnown
<1>3. /\ v.stdin \in Seq(WrittenType)
      /\ v.child.state # "live" => w.child.state # "live" \/ Unsettled(w) = {}
      /\ v.seal.on # "no" => ~v.turn.spoke \/ w.pending = {}
  BY <1>1 DEF Good, OpenInputs
<1>4. Same(w, v)
  BY DEF Same
<1> QED
  BY <1>2, <1>3, <1>4, Turned

\* A held end that may run: the one of a command that began, or of none.
Runnable(w, seal) ==
  /\ seal \in SealType
  /\ seal.on = "turn" => seal.of \in Commands /\ w.cmds[seal.of].status \in Began

RanSeal(w, v, seal) ==
  IF seal.on = "turn" THEN Ends(w, v, seal.of, TRUE) ELSE Same(w, v) /\ v.seal = NoSeal

LEMMA GoodRunSeal ==
  ASSUME NEW n, NEW T, NEW w, Good(w, n, T), NEW seal, Runnable(w, seal)
  PROVE  LET v == RunSeal(w, seal)
         IN Good(v, n, T) /\ Leaves(w, v) /\ RanSeal(w, v, seal)
<1> DEFINE x == [w EXCEPT !.seal = NoSeal, !.child.notices = FALSE]
           v == RunSeal(w, seal)
<1>1. w \in Session /\ w.child \in ChildType
  BY Fields DEF Good
<1>2. /\ x.queue = w.queue /\ x.cmds = w.cmds /\ x.followUps = w.followUps /\ x.given = w.given
      /\ x.stdin = w.stdin /\ x.pending = w.pending /\ x.sender = w.sender /\ x.chan = w.chan
      /\ x.turn = w.turn /\ x.seal = NoSeal
      /\ x.child.state = w.child.state /\ x.child.ready = w.child.ready
  BY <1>1 DEF Session, ChildType
<1>3. x \in Session
  <2>1. NoSeal \in SealType /\ [w.child EXCEPT !.notices = FALSE] \in ChildType
    BY <1>1 DEF NoSeal, SealType, ChildType
  <2> QED
    BY <1>1, <2>1 DEF Session
<1>4. v = IF seal.on = "turn" THEN Finalize(x, seal.of, TRUE) ELSE x
  BY DEF RunSeal
<1> HIDE DEF x, v
<1>5. Good(x, n, T) /\ Leaves(w, x) /\ Same(w, x)
  BY <1>2, <1>3, Cleaned
<1>6. CASE seal.on = "turn"
  <2>1. seal.of \in Commands /\ x.cmds[seal.of].status \in Began
    BY <1>2, <1>6 DEF Runnable
  <2> DEFINE y == Finalize(x, seal.of, TRUE)
  <2>2. Good(y, n, T) /\ Leaves(x, y) /\ Ends(x, y, seal.of, TRUE)
    BY <1>5, <2>1, GoodFinalize
  <2> HIDE DEF y
  <2>3. Ends(w, y, seal.of, TRUE)
    BY <1>5, <2>2, EndsTheSame
  <2>4. v = y
    BY <1>4, <1>6 DEF y
  <2>5. Leaves(w, y)
    BY <1>5, <2>2, LeavesAll
  <2>6. Good(v, n, T) /\ Leaves(w, v) /\ RanSeal(w, v, seal)
    BY <1>6, <2>2, <2>3, <2>4, <2>5 DEF RanSeal
  <2> QED
    BY <2>6 DEF v
<1>7. CASE seal.on # "turn"
  <2>1. v = x
    BY <1>4, <1>7
  <2>2. Good(v, n, T) /\ Leaves(w, v) /\ RanSeal(w, v, seal)
    BY <1>2, <1>5, <1>7, <2>1 DEF RanSeal
  <2> QED
    BY <2>2 DEF v
<1> QED
  BY <1>6, <1>7

\* The end of a turn is held, or it comes at once.
Seals(w, v, seal) == (Same(w, v) /\ v.seal = seal) \/ RanSeal(w, v, seal)

LEMMA GoodSealTurn ==
  ASSUME NEW n, NEW T, NEW w, Good(w, n, T), NEW seal, Runnable(w, seal),
         ~w.turn.spoke \/ w.pending = {}
  PROVE  LET v == SealTurn(w, seal)
         IN Good(v, n, T) /\ Leaves(w, v) /\ Seals(w, v, seal)
<1>1. CASE MayResume(w)
  <2> DEFINE v == [w EXCEPT !.seal = seal]
  <2>1. w \in Session /\ seal \in SealType
    BY DEF Good, Runnable
  <2>2. /\ v.queue = w.queue /\ v.cmds = w.cmds /\ v.followUps = w.followUps /\ v.given = w.given
        /\ v.stdin = w.stdin /\ v.pending = w.pending /\ v.sender = w.sender /\ v.chan = w.chan
        /\ v.turn = w.turn /\ v.child = w.child /\ v.seal = seal
    BY <2>1 DEF Session
  <2>3. v \in Session
    BY <2>1 DEF Session
  <2> HIDE DEF v
  <2>4. TurnKnown(v)
    BY <2>2 DEF Good, TurnKnown, Runnable
  <2>5. v.stdin \in Seq(WrittenType)
        /\ (v.child.state # "live" => w.child.state # "live" \/ Unsettled(w) = {})
    BY <2>2 DEF Good
  <2>6. Good(v, n, T) /\ Leaves(w, v)
    BY <2>2, <2>3, <2>4, <2>5, Turned
  <2>7. Seals(w, v, seal)
    BY <2>2 DEF Seals, Same
  <2>8. SealTurn(w, seal) = v
    BY <1>1 DEF SealTurn, v
  <2> QED
    BY <2>6, <2>7, <2>8
<1>2. CASE ~MayResume(w)
  <2>1. SealTurn(w, seal) = RunSeal(w, seal)
    BY <1>2 DEF SealTurn
  <2> QED
    BY <2>1, GoodRunSeal DEF Seals
<1> QED
  BY <1>1, <1>2

\* A result ends what is in flight, or nothing.
Closes(w, v) ==
  \/ Same(w, v) /\ v.seal.on # "turn"
  \/ w.turn.inFlight # None /\ Seals(w, v, [on |-> "turn", of |-> w.turn.inFlight])

LEMMA SealsTheSame ==
  ASSUME NEW w, NEW x, NEW v, Same(w, x), NEW seal, Seals(x, v, seal)
  PROVE  Seals(w, v, seal)
<1>1. CASE Same(x, v)
  <2>1. Same(w, v)
    BY <1>1 DEF Same
  <2>2. CASE v.seal = seal
    BY <2>1, <2>2 DEF Seals
  <2>3. CASE RanSeal(x, v, seal)
    BY <2>1, <2>3, EndsTheSame DEF RanSeal, Seals
  <2> QED
    BY <2>2, <2>3 DEF Seals
<1>2. CASE ~Same(x, v)
  BY <1>2, EndsTheSame DEF Seals, RanSeal
<1> QED
  BY <1>1, <1>2

LEMMA GoodSealInFlight ==
  ASSUME NEW n, NEW T, NEW w, Good(w, n, T), w.turn.inFlight # None,
         ~w.turn.spoke \/ w.pending = {}
  PROVE  LET v == SealInFlight(w)
         IN Good(v, n, T) /\ Leaves(w, v) /\ Closes(w, v)
<1> DEFINE x == [w EXCEPT !.turn.early = FALSE]
           seal == [on |-> "turn", of |-> w.turn.inFlight]
           v == SealTurn(x, seal)
<1>1. w \in Session /\ w.turn \in TurnType
  BY Fields DEF Good
<1>2. /\ x.queue = w.queue /\ x.cmds = w.cmds /\ x.followUps = w.followUps /\ x.given = w.given
      /\ x.stdin = w.stdin /\ x.pending = w.pending /\ x.sender = w.sender /\ x.chan = w.chan
      /\ x.turn = [w.turn EXCEPT !.early = FALSE] /\ x.seal = w.seal /\ x.child = w.child
  BY <1>1 DEF Session
<1>3. /\ [w.turn EXCEPT !.early = FALSE] \in TurnType
      /\ x.turn.inFlight = w.turn.inFlight /\ x.turn.early = FALSE
      /\ x.turn.stopping = w.turn.stopping /\ x.turn.spoke = w.turn.spoke
  <2> DEFINE t == [w.turn EXCEPT !.early = FALSE]
  <2>1. t \in TurnType
    BY <1>1 DEF TurnType
  <2>2. /\ t.inFlight = w.turn.inFlight /\ t.early = FALSE /\ t.stopping = w.turn.stopping
        /\ t.spoke = w.turn.spoke
    BY <1>1 DEF TurnType
  <2>3. x.turn = t
    BY <1>2
  <2> QED
    BY <2>1, <2>2, <2>3
<1>4. x \in Session
  BY <1>1, <1>3 DEF Session
<1> HIDE DEF x
<1>5. Good(x, n, T) /\ Leaves(w, x) /\ Same(w, x)
  BY <1>2, <1>3, <1>4, Cleaned
<1>6. seal \in SealType /\ seal.on = "turn" /\ seal.of = w.turn.inFlight
  BY <1>1 DEF SealType, TurnType
<1> HIDE DEF seal
<1>7. Runnable(x, seal)
  <2>1. w.turn.inFlight \in Commands
    BY <1>1 DEF TurnType
  <2> QED
    BY <1>2, <1>6, <2>1 DEF Runnable, Good, TurnKnown
<1>8. Good(v, n, T) /\ Leaves(x, v) /\ Seals(x, v, seal)
  BY <1>2, <1>3, <1>5, <1>7, GoodSealTurn
<1>9. SealInFlight(w) = v
  BY DEF SealInFlight, x, seal
<1> HIDE DEF v
<1>10. Leaves(w, v) /\ Seals(w, v, seal)
  BY <1>5, <1>8, LeavesAll, SealsTheSame
<1>11. Closes(w, v)
  BY <1>10 DEF Closes, seal
<1> QED
  BY <1>8, <1>9, <1>10, <1>11

LEMMA GoodResultEnds ==
  ASSUME NEW n, NEW T, NEW w, Good(w, n, T), ~w.turn.spoke \/ w.pending = {}
  PROVE  LET v == ResultEnds(w)
         IN Good(v, n, T) /\ Leaves(w, v) /\ Closes(w, v)
<1>1. CASE w.turn.inFlight = None
  <2> DEFINE seal == [on |-> "sleep", of |-> None]
             v == SealTurn(w, seal)
  <2>1. Runnable(w, seal) /\ seal.on = "sleep"
    BY DEF Runnable, SealType
  <2>2. ResultEnds(w) = v
    BY <1>1 DEF ResultEnds
  <2> HIDE DEF seal
  <2>3. Good(v, n, T) /\ Leaves(w, v) /\ Seals(w, v, seal)
    BY <2>1, GoodSealTurn
  <2>4. Same(w, v) /\ v.seal \in {seal, NoSeal}
    BY <2>1, <2>3 DEF Seals, RanSeal
  <2>5. NoSeal.on = "no"
    BY DEF NoSeal
  <2>6. Closes(w, v)
    BY <2>1, <2>4, <2>5 DEF Closes
  <2> QED
    BY <2>2, <2>3, <2>6 DEF v
<1>2. CASE w.turn.inFlight # None /\ BeforeOwnTurn(w)
  <2> DEFINE v == [w EXCEPT !.seal = NoSeal, !.child.notices = FALSE, !.turn.early = TRUE]
  <2>1. w \in Session /\ w.child \in ChildType /\ w.turn \in TurnType
    BY Fields DEF Good
  <2>2. /\ v.queue = w.queue /\ v.cmds = w.cmds /\ v.followUps = w.followUps /\ v.given = w.given
        /\ v.stdin = w.stdin /\ v.pending = w.pending /\ v.sender = w.sender /\ v.chan = w.chan
        /\ v.seal = NoSeal /\ v.seal.on = "no"
        /\ v.turn.inFlight = w.turn.inFlight /\ v.turn.stopping = w.turn.stopping
        /\ v.turn.spoke = w.turn.spoke
        /\ v.child.state = w.child.state /\ v.child.ready = w.child.ready
    BY <2>1 DEF Session, ChildType, TurnType, NoSeal
  <2>3. v \in Session
    <3>1. /\ NoSeal \in SealType /\ [w.child EXCEPT !.notices = FALSE] \in ChildType
          /\ [w.turn EXCEPT !.early = TRUE] \in TurnType
      BY <2>1 DEF NoSeal, SealType, ChildType, TurnType
    <3> QED
      BY <2>1, <3>1 DEF Session
  <2> HIDE DEF v
  <2>4. TurnKnown(v)
    BY <1>2, <2>2 DEF Good, TurnKnown, BeforeOwnTurn
  <2>5. v.stdin \in Seq(WrittenType)
        /\ (v.child.state # "live" => w.child.state # "live" \/ Unsettled(w) = {})
    BY <2>2 DEF Good, OpenInputs
  <2>6. Good(v, n, T) /\ Leaves(w, v)
    BY <2>2, <2>3, <2>4, <2>5, Turned
  <2>7. Closes(w, v)
    BY <2>2 DEF Closes, Same
  <2>8. ResultEnds(w) = v
    BY <1>2 DEF ResultEnds, v
  <2> QED
    BY <2>6, <2>7, <2>8
<1>3. CASE w.turn.inFlight # None /\ ~BeforeOwnTurn(w)
  <2>1. ResultEnds(w) = SealInFlight(w)
    BY <1>3 DEF ResultEnds
  <2> QED
    BY <1>3, <2>1, GoodSealInFlight
<1> QED
  BY <1>1, <1>2, <1>3

(***************************************************************************)
(* One turn at a time.                                                     *)
(***************************************************************************)
LEMMA OrderlyWhileNoneEnds ==
  ASSUME NEW w, NEW v, Executing(w) \subseteq Executing(v), OneTurn(w) => OneTurn(v)
  PROVE  Orderly(w, v)
<1>1. ~Finishes(w, v)
  BY DEF Finishes, Executing, Status
<1> QED
  BY <1>1 DEF Orderly, EndsInOrder

LEMMA OrderlyBeside ==
  ASSUME NEW w, NEW v, Beside(w, v)
  PROVE  Orderly(w, v)
<1>1. Executing(v) = Executing(w)
  BY DEF Beside
<1>2. ASSUME OneTurn(w)
      PROVE  OneTurn(v)
  <2>1. ASSUME NEW c \in v.pending
        PROVE  Executing(v) \subseteq {v.cmds[c].target}
    <3>1. CASE v.cmds[c].target \in Executing(w)
      BY <1>1, <1>2, <3>1 DEF OneTurn
    <3>2. CASE c \in w.pending /\ v.cmds[c].target = w.cmds[c].target
      BY <1>1, <1>2, <3>2 DEF OneTurn
    <3> QED
      BY <3>1, <3>2 DEF Beside
  <2> QED
    BY <1>1, <1>2, <2>1 DEF Beside, OneTurn
<1> QED
  BY <1>1, <1>2, OrderlyWhileNoneEnds

LEMMA OrderlySame ==
  ASSUME NEW w, NEW v, Same(w, v), v.seal \in {w.seal, NoSeal}
  PROVE  Orderly(w, v)
<1>1. Executing(v) = Executing(w)
  BY DEF Same, Executing, Status
<1>2. NoSeal.on = "no"
  BY DEF NoSeal
<1>3. OneTurn(w) => OneTurn(v)
  BY <1>1, <1>2 DEF Same, OneTurn
<1> QED
  BY <1>1, <1>3, OrderlyWhileNoneEnds

LEMMA OrderlyStarts ==
  ASSUME NEW n, NEW T, NEW w, Good(w, n, T), NEW v, Starts(w, v)
  PROVE  Orderly(w, v)
<1>1. Executing(w) \subseteq Executing(v)
  BY StartsFinishesNothing
<1>2. ASSUME OneTurn(w), NothingStarts(w, v)
      PROVE  OneTurn(v)
  <2>1. Executing(v) = Executing(w)
    BY <1>2 DEF NothingStarts, Executing, Status
  <2> QED
    BY <1>2, <2>1 DEF Starts, NothingStarts, OneTurn
<1>3. ASSUME OneTurn(w), SomethingStarts(w, v)
      PROVE  OneTurn(v)
  <2>1. Executing(w) = {} /\ w.pending = {} /\ v.child.state = "live" /\ ~v.child.ready
    BY <1>3 DEF SomethingStarts, Busy
  <2>2. PICK c \in Commands : /\ v.turn.inFlight = c /\ v.cmds[c].status = "executing"
                              /\ \A d \in Commands : d # c => v.cmds[d] = w.cmds[d]
    BY <1>3 DEF SomethingStarts, Waiting
  <2>3. c # None
    BY FollowUpAssumption
  <2>4. Executing(v) = {c}
    BY <2>1, <2>2 DEF Executing, Status
  <2>5. w.turn.inFlight = None
    BY <1>3, <2>1 DEF OneTurn
  <2>6. w.seal.on # "turn"
    BY <1>3, <2>5, FollowUpAssumption DEF Good, TurnKnown, OneTurn
  <2>7. v.pending = {} /\ v.seal.on # "turn"
    BY <2>1, <2>6 DEF Starts
  <2> QED
    BY <2>1, <2>2, <2>3, <2>4, <2>7 DEF OneTurn
<1>4. OneTurn(w) => OneTurn(v)
  BY <1>2, <1>3 DEF Starts
<1> QED
  BY <1>1, <1>4, OrderlyWhileNoneEnds

\* What ends is over before the next command starts, and that one starts only without open inputs.
LEMMA OverInOrder ==
  ASSUME NEW w, NEW u, NEW v, NEW b, Over(w, u, b), Starts(u, v),
         GivesUp(w) \/ w.pending = {} \/ u.child.state # "live"
  PROVE  EndsInOrder(w, v)
<1>1. u.pending = w.pending
  BY DEF Over
<1>2. w.pending = {} \/ v.child.state = u.child.state
  BY <1>1 DEF Starts, NothingStarts, SomethingStarts, Busy
<1> QED
  BY <1>2 DEF EndsInOrder

\* The command that ends is the one in flight; after it the process is idle or does not live.
LEMMA OrderlyOver ==
  ASSUME NEW w, NEW u, NEW v, NEW b \in Commands, Over(w, u, b), Starts(u, v),
         GivesUp(w) \/ w.pending = {} \/ u.child.state # "live",
         u.seal.on # "turn", u.child.state = "live" => u.child.ready,
         OneTurn(w) => b = w.turn.inFlight
  PROVE  Orderly(w, v)
<1>1. NoTurn.inFlight = None
  BY DEF NoTurn
<1>2. Executing(u) = Executing(w) \ {b}
  BY DEF Over, Executing, Status
<1>3. ASSUME OneTurn(w)
      PROVE  OneTurn(u)
  <2>1. Executing(u) = {}
    BY <1>2, <1>3 DEF OneTurn
  <2>2. u.turn.inFlight = None
    BY <1>1 DEF Over
  <2> QED
    BY <2>1, <2>2 DEF OneTurn
<1>4. ASSUME OneTurn(u), SomethingStarts(u, v)
      PROVE  OneTurn(v)
  <2>1. Executing(u) = {} /\ u.pending = {} /\ v.child.state = "live" /\ ~v.child.ready
    BY <1>4 DEF SomethingStarts, Busy
  <2>2. PICK c \in Commands : /\ v.turn.inFlight = c /\ v.cmds[c].status = "executing"
                              /\ \A d \in Commands : d # c => v.cmds[d] = u.cmds[d]
    BY <1>4 DEF SomethingStarts, Waiting
  <2>3. c # None
    BY FollowUpAssumption
  <2>4. Executing(v) = {c}
    BY <2>1, <2>2 DEF Executing, Status
  <2>5. v.pending = {} /\ v.seal.on # "turn"
    BY <2>1 DEF Starts
  <2> QED
    BY <2>1, <2>2, <2>3, <2>4, <2>5 DEF OneTurn
<1>5. ASSUME OneTurn(u), NothingStarts(u, v)
      PROVE  OneTurn(v)
  <2>1. Executing(v) = Executing(u)
    BY <1>5 DEF NothingStarts, Executing, Status
  <2> QED
    BY <1>5, <2>1 DEF Starts, NothingStarts, OneTurn
<1>6. OneTurn(w) => OneTurn(v)
  BY <1>3, <1>4, <1>5 DEF Starts
<1> QED
  BY <1>6, OverInOrder DEF Orderly

LEMMA OrderlyEnds ==
  ASSUME NEW n, NEW T, NEW w, Good(w, n, T), NEW v, Good(v, n, T),
         NEW b \in Commands, NEW ready \in BOOLEAN, Ends(w, v, b, ready),
         OneTurn(w) => b = w.turn.inFlight,
         ready \/ w.child.state # "live",
         GivesUp(w) \/ w.pending = {} \/ w.child.state # "live"
  PROVE  Orderly(w, v)
<1>1. PICK u \in Session : /\ Over(w, u, b) /\ u.seal = NoSeal /\ u.child.state = w.child.state
                           /\ u.child.ready = ready /\ Starts(u, v)
  BY DEF Ends
<1>2. u.seal.on # "turn" /\ (u.child.state = "live" => u.child.ready)
  BY <1>1 DEF NoSeal
<1> QED
  BY <1>1, <1>2, OrderlyOver

\* What comes before it touched neither the turn nor the open inputs.
LEMMA OrderlyAfter ==
  ASSUME NEW w, NEW x, NEW v, Executing(x) = Executing(w), x.pending = w.pending,
         GivesUp(x) => GivesUp(w), OneTurn(w) => OneTurn(x), Orderly(x, v)
  PROVE  Orderly(w, v)
BY DEF Orderly, EndsInOrder, Finishes

LEMMA OrderlyRunSeal ==
  ASSUME NEW n, NEW T, NEW w, Good(w, n, T), NEW v, Good(v, n, T),
         NEW seal, Runnable(w, seal), RanSeal(w, v, seal),
         OneTurn(w) /\ seal.on = "turn" => seal.of = w.turn.inFlight,
         GivesUp(w) \/ w.pending = {} \/ w.child.state # "live"
  PROVE  Orderly(w, v)
<1>1. CASE seal.on = "turn"
  BY <1>1, OrderlyEnds DEF RanSeal, Runnable
<1>2. CASE seal.on # "turn"
  BY <1>2, OrderlySame DEF RanSeal
<1> QED
  BY <1>1, <1>2

LEMMA OrderlyCloses ==
  ASSUME NEW n, NEW T, NEW w, Good(w, n, T), NEW v, Good(v, n, T), Closes(w, v),
         GivesUp(w) \/ w.pending = {}
  PROVE  Orderly(w, v)
<1> DEFINE seal == [on |-> "turn", of |-> w.turn.inFlight]
<1>1. Executing(v) = Executing(w) \/ ~Same(w, v)
  BY DEF Same, Executing, Status
<1>2. CASE Same(w, v) /\ v.seal.on # "turn"
  <2>1. OneTurn(w) => OneTurn(v)
    BY <1>1, <1>2 DEF Same, OneTurn
  <2> QED
    BY <1>1, <1>2, <2>1, OrderlyWhileNoneEnds
<1>3. CASE w.turn.inFlight # None /\ Same(w, v) /\ v.seal = seal
  <2>1. OneTurn(w) => OneTurn(v)
    BY <1>1, <1>3 DEF Same, OneTurn
  <2> QED
    BY <1>1, <1>3, <2>1, OrderlyWhileNoneEnds
<1>4. CASE w.turn.inFlight # None /\ RanSeal(w, v, seal)
  <2>1. w.turn.inFlight \in Commands /\ w.turn.inFlight \in Commands \cup {None}
    BY <1>4, Fields DEF Good, TurnType
  <2>2. seal.on = "turn" /\ seal.of = w.turn.inFlight
    OBVIOUS
  <2>3. Runnable(w, seal)
    BY <1>4, <2>1 DEF Runnable, SealType, Good, TurnKnown
  <2> HIDE DEF seal
  <2> QED
    BY <1>4, <2>2, <2>3, OrderlyRunSeal
<1> QED
  BY <1>2, <1>3, <1>4 DEF Closes, Seals

(***************************************************************************)
(* A line of the engine.                                                   *)
(***************************************************************************)
\* A step of the channel that settles nothing.
LEMMA GoodChannel ==
  ASSUME NEW n, NEW T, NEW w, Good(w, n, T), NEW v \in Session, ChannelOnly(w, v),
         v.chan.phase = w.chan.phase, v.chan.due = w.chan.due,
         v.chan.hold => v.chan.finalizing /\ Unsettled(w) \subseteq v.chan.waitFor
  PROVE  Good(v, n, T) /\ Leaves(w, v)
<1>1. w \in Session
  BY DEF Good
<1>2. /\ v.queue = w.queue /\ v.cmds = w.cmds /\ v.followUps = w.followUps
      /\ v.pending = w.pending /\ v.sender = w.sender /\ v.turn = w.turn /\ v.seal = w.seal
      /\ v.child = w.child /\ v.stdin = w.stdin /\ v.given = w.given
  BY <1>1, ChannelOnlyFields
<1>3. OpenInputs(v)
  BY <1>2 DEF Good, OpenInputs, Unsettled
<1>4. TurnKnown(v) /\ TakenOnly(v, T)
  BY <1>2 DEF Good, TurnKnown, TakenOnly
<1>5. v.stdin \in Seq(WrittenType)
  BY <1>2 DEF Good
<1> QED
  BY <1>2, <1>3, <1>4, <1>5, Aside

\* A result while the channel follows an input.
LEMMA GoodDefer ==
  ASSUME NEW n, NEW T, NEW w, Good(w, n, T), NEW line, line.names \subseteq T
  PROVE  LET v == Defer(w, line)
         IN Good(v, n, T) /\ Leaves(w, v) /\ ChannelOnly(w, v)
<1> DEFINE u == NoHold(w)
           named == line.names \cap Unsettled(w)
           x == Settled(u, named, "accepted")
           v == Defer(w, line)
<1>1. Good(u, n, T) /\ Leaves(w, u) /\ ChannelOnly(w, u)
  BY GoodNoHold
<1>2. Unsettled(u) = Unsettled(w) /\ u.chan.hold = FALSE
  BY DEF NoHold, Unsettled, Good, Session, ChannelType
<1> HIDE DEF u
<1>3. named \subseteq Unsettled(u) /\ named \subseteq T
  BY <1>2
<1> HIDE DEF named
<1>4. Good(x, n, T) /\ Leaves(u, x) /\ ChannelOnly(u, x)
  BY <1>1, <1>3, GoodSettled
<1>5. x.chan.hold = FALSE
  BY <1>1, <1>2 DEF Settled, Good, Session, ChannelType
<1>6. v = IF line.left THEN [x EXCEPT !.chan.finalizing = TRUE]
          ELSE [x EXCEPT !.chan.finalizing = TRUE, !.chan.hold = TRUE,
                         !.chan.waitFor = Unsettled(x), !.chan.timed = @ \cup Unsettled(x)]
  BY DEF Defer, u, named
<1> HIDE DEF x
<1>7. x \in Session /\ x.chan \in ChannelType /\ u \in Session /\ w \in Session
  BY <1>1, <1>4, Fields DEF Good
<1>8. Unsettled(x) \in SUBSET Commands
  BY DEF Unsettled
<1> HIDE DEF v
<1>9. CASE line.left
  <2> DEFINE chan == [x.chan EXCEPT !.finalizing = TRUE]
  <2>1. chan \in ChannelType /\ chan.phase = x.chan.phase /\ chan.due = x.chan.due
        /\ chan.hold = FALSE
    BY <1>5, <1>7 DEF ChannelType
  <2>2. v = [x EXCEPT !.chan = chan]
    BY <1>6, <1>7, <1>9 DEF Session
  <2> HIDE DEF chan
  <2>3. v \in Session /\ v.chan = chan
    BY <1>7, <2>1, <2>2 DEF Session
  <2>4. ChannelOnly(x, v)
    BY <2>2, <2>3 DEF ChannelOnly
  <2>5. Good(v, n, T) /\ Leaves(x, v)
    BY <1>4, <2>1, <2>3, <2>4, GoodChannel
  <2> QED
    BY <1>1, <1>4, <1>7, <2>3, <2>4, <2>5, LeavesAll, ChannelOnlyAll DEF v
<1>10. CASE ~line.left
  <2> DEFINE chan == [x.chan EXCEPT !.finalizing = TRUE, !.hold = TRUE,
                                    !.waitFor = Unsettled(x), !.timed = @ \cup Unsettled(x)]
  <2>1. chan \in ChannelType
    BY <1>7, <1>8 DEF ChannelType
  <2>2. chan.phase = x.chan.phase /\ chan.due = x.chan.due
        /\ chan.finalizing = TRUE /\ chan.waitFor = Unsettled(x)
    BY <1>7 DEF ChannelType
  <2>3. v = [x EXCEPT !.chan = chan]
    BY <1>6, <1>7, <1>10 DEF Session, ChannelType
  <2> HIDE DEF chan
  <2>4. v \in Session /\ v.chan = chan
    BY <1>7, <2>1, <2>3 DEF Session
  <2>5. ChannelOnly(x, v)
    BY <2>3, <2>4 DEF ChannelOnly
  <2>6. Good(v, n, T) /\ Leaves(x, v)
    BY <1>4, <2>2, <2>4, <2>5, GoodChannel
  <2> QED
    BY <1>1, <1>4, <1>7, <2>4, <2>5, <2>6, LeavesAll, ChannelOnlyAll DEF v
<1> QED
  BY <1>9, <1>10

\* Any output of the model is a newer result version, and the turn goes on.
LEMMA GoodSays ==
  ASSUME NEW n, NEW T, NEW w, Good(w, n, T)
  PROVE  LET v == Says(w)
         IN Good(v, n, T) /\ Leaves(w, v) /\ Orderly(w, v)
<1> DEFINE u == NoHold(w)
           chan == [u.chan EXCEPT !.finalizing = FALSE]
           x == [u EXCEPT !.chan = chan]
           child == [w.child EXCEPT !.notices = IF w.seal.on = "no" THEN @ ELSE FALSE]
           turn == IF w.turn.inFlight = None THEN w.turn
                   ELSE [w.turn EXCEPT !.spoke = TRUE, !.early = FALSE]
           v == Says(w)
<1>1. Good(u, n, T) /\ Leaves(w, u) /\ ChannelOnly(w, u)
  BY GoodNoHold
<1>2. u.chan.hold = FALSE
  BY DEF NoHold, Good, Session, ChannelType
<1>3. w \in Session /\ w.child \in ChildType /\ w.turn \in TurnType
  BY Fields DEF Good
<1>4. v = [u EXCEPT !.chan = chan, !.child = child, !.seal = NoSeal, !.turn = turn]
  <2>1. u \in Session /\ u.turn = w.turn /\ u.child = w.child
    BY <1>1, <1>3, ChannelOnlyFields DEF Good
  <2> HIDE DEF u
  <2> DEFINE y == [u EXCEPT !.chan.finalizing = FALSE,
                            !.child.notices = IF w.seal.on = "no" THEN @ ELSE FALSE,
                            !.seal = NoSeal]
  <2>2. y = [u EXCEPT !.chan = chan, !.child = child, !.seal = NoSeal]
    BY <2>1 DEF Session
  <2>3. v = IF w.turn.inFlight = None THEN y ELSE [y EXCEPT !.turn.spoke = TRUE, !.turn.early = FALSE]
    BY DEF Says, u
  <2> HIDE DEF y, chan, child, v
  <2>4. CASE w.turn.inFlight = None
    BY <2>1, <2>2, <2>3, <2>4 DEF Session
  <2>5. CASE w.turn.inFlight # None
    BY <2>1, <2>2, <2>3, <2>5 DEF Session
  <2> QED
    BY <2>4, <2>5
<1> HIDE DEF v, u
<1>5. u \in Session /\ u.chan \in ChannelType
  BY <1>1, Fields DEF Good
<1>6. chan \in ChannelType /\ chan.phase = u.chan.phase /\ chan.due = u.chan.due
      /\ chan.hold = FALSE
  BY <1>2, <1>5 DEF ChannelType
<1>7. child \in ChildType /\ child.state = w.child.state /\ child.ready = w.child.ready
  BY <1>3 DEF ChildType
<1>8. turn \in TurnType /\ turn.inFlight = w.turn.inFlight /\ turn.stopping = w.turn.stopping
      /\ (turn.early => w.turn.early) /\ (turn.spoke => w.turn.spoke \/ ~turn.early)
  BY <1>3 DEF TurnType
<1>9. NoSeal \in SealType
  BY DEF NoSeal, SealType
<1> HIDE DEF chan, child, turn
<1>10. x \in Session /\ x.chan = chan /\ ChannelOnly(u, x)
  BY <1>5, <1>6 DEF Session, ChannelOnly
<1>11. /\ v \in Session
       /\ v.queue = x.queue /\ v.cmds = x.cmds /\ v.followUps = x.followUps /\ v.given = x.given
       /\ v.pending = x.pending /\ v.sender = x.sender /\ v.chan = x.chan /\ v.stdin = x.stdin
       /\ v.seal = NoSeal /\ v.turn = turn /\ v.child = child
  BY <1>4, <1>5, <1>6, <1>7, <1>8, <1>9 DEF Session
<1>12. x.turn = w.turn /\ x.child = w.child /\ x.cmds = w.cmds /\ x.pending = w.pending
  BY <1>1, <1>3, <1>5, <1>10, ChannelOnlyFields
<1> HIDE DEF x
<1>13. Good(x, n, T) /\ Leaves(u, x)
  BY <1>1, <1>6, <1>10, GoodChannel
<1>14. Good(v, n, T) /\ Leaves(x, v) /\ Same(x, v)
  BY <1>7, <1>8, <1>11, <1>12, <1>13, Cleaned
<1>15. Leaves(w, v)
  BY <1>1, <1>13, <1>14, LeavesAll
<1>16. Same(w, v)
  BY <1>12, <1>14 DEF Same
<1>17. Orderly(w, v)
  BY <1>11, <1>16, OrderlySame
<1> QED
  BY <1>14, <1>15, <1>17 DEF v

LEMMA GoodTaskLine ==
  ASSUME NEW n, NEW T, NEW w, Good(w, n, T), NEW child \in ChildType,
         child.state = w.child.state, child.ready = w.child.ready
  PROVE  LET v == [w EXCEPT !.child = child]
         IN Good(v, n, T) /\ Leaves(w, v) /\ Orderly(w, v)
<1> DEFINE v == [w EXCEPT !.child = child]
<1>1. w \in Session
  BY DEF Good
<1>2. /\ v \in Session
      /\ v.queue = w.queue /\ v.cmds = w.cmds /\ v.followUps = w.followUps /\ v.given = w.given
      /\ v.pending = w.pending /\ v.sender = w.sender /\ v.chan = w.chan /\ v.stdin = w.stdin
      /\ v.seal = w.seal /\ v.turn = w.turn /\ v.child = child
  BY <1>1 DEF Session
<1> HIDE DEF v
<1>3. Good(v, n, T) /\ Leaves(w, v) /\ Same(w, v)
  BY <1>2, Cleaned
<1>4. Orderly(w, v)
  BY <1>2, <1>3, OrderlySame
<1> QED
  BY <1>3, <1>4 DEF v

LEMMA GoodHandleLine ==
  ASSUME NEW n, NEW T, NEW w, Good(w, n, T), NEW line \in SaidType(T)
  PROVE  LET v == HandleLine(w, line)
         IN Good(v, n, T) /\ Leaves(w, v) /\ Orderly(w, v)
<1>0. w \in Session /\ w.child \in ChildType
  BY Fields DEF Good
<1>1. CASE line.kind = "queued"
  <2>1. line.of \in Commands
    BY <1>1 DEF SaidType
  <2>2. HandleLine(w, line) = Receive(w, line.of)
    BY <1>1 DEF HandleLine
  <2> QED
    BY <2>1, <2>2, GoodReceive, OrderlyBeside
<1>2. CASE line.kind = "taken"
  <2>1. HandleLine(w, line) = Accept(w, line.of)
    BY <1>2 DEF HandleLine
  <2>2. line.of \in T
    BY <1>2 DEF SaidType
  <2>3. CASE line.of \in Commands
    BY <1>0, <2>1, <2>2, <2>3, GoodAccept, ChannelOnlyIsBeside, OrderlyBeside
  <2>4. CASE line.of \notin Commands
    <3>1. Accept(w, line.of) = w
      BY <2>4 DEF Accept, Unsettled
    <3> QED
      BY <2>1, <3>1, LeavesItself, BesideItself, OrderlyBeside
  <2> QED
    BY <2>3, <2>4
<1>3. CASE line.kind = "says"
  <2>1. HandleLine(w, line) = Says(w)
    BY <1>3 DEF HandleLine
  <2> QED
    BY <2>1, GoodSays
<1>4. CASE line.kind = "taskStart"
  <2> DEFINE child == [w.child EXCEPT !.tasks = TRUE]
  <2>1. child \in ChildType /\ child.state = w.child.state /\ child.ready = w.child.ready
    BY <1>0 DEF ChildType
  <2>2. HandleLine(w, line) = [w EXCEPT !.child = child]
    BY <1>0, <1>4 DEF HandleLine, Session
  <2> HIDE DEF child
  <2> QED
    BY <2>1, <2>2, GoodTaskLine
<1>5. CASE line.kind = "taskEnd"
  <2> DEFINE child == [w.child EXCEPT !.tasks = FALSE, !.notices = TRUE]
  <2>1. child \in ChildType /\ child.state = w.child.state /\ child.ready = w.child.ready
    BY <1>0 DEF ChildType
  <2>2. HandleLine(w, line) = [w EXCEPT !.child = child]
    BY <1>0, <1>5 DEF HandleLine, Session, ChildType
  <2> HIDE DEF child
  <2> QED
    BY <2>1, <2>2, GoodTaskLine
<1>6. CASE line.kind = "result"
  <2>1. line.names \subseteq T
    BY <1>6 DEF SaidType
  <2>2. CASE Followed(w) # {}
    <3>1. HandleLine(w, line) = Defer(w, line)
      BY <1>6, <2>2 DEF HandleLine
    <3> QED
      BY <1>0, <2>1, <3>1, GoodDefer, ChannelOnlyIsBeside, OrderlyBeside
  <2>3. CASE Followed(w) = {}
    <3>1. HandleLine(w, line) = ResultEnds(w)
      BY <1>6, <2>3 DEF HandleLine
    <3>2. w.chan.due \subseteq Commands
      BY <1>0, Fields DEF ChannelType
    <3>3. w.pending = {}
      BY <2>3, <3>2 DEF Followed, Unsettled, Good, OpenInputs
    <3> QED
      BY <3>1, <3>3, GoodResultEnds, OrderlyCloses
  <2> QED
    BY <2>2, <2>3
<1> QED
  BY <1>1, <1>2, <1>3, <1>4, <1>5, <1>6 DEF SaidType

(***************************************************************************)
(* Interrupting and stopping.                                              *)
(***************************************************************************)
\* A step of the process that is being ended, and of flags.
LEMMA GoodNotReady ==
  ASSUME NEW n, NEW T, NEW w, Good(w, n, T), w.child.state \in {"closing", "exited"}
  PROVE  LET v == [w EXCEPT !.child.ready = FALSE]
         IN Good(v, n, T) /\ Leaves(w, v) /\ Orderly(w, v) /\ v.child.state = w.child.state
<1> DEFINE v == [w EXCEPT !.child.ready = FALSE]
           child == [w.child EXCEPT !.ready = FALSE]
<1>1. w \in Session /\ w.child \in ChildType
  BY Fields DEF Good
<1>2. child \in ChildType /\ child.state = w.child.state
  BY <1>1 DEF ChildType
<1>3. v = [w EXCEPT !.child = child]
  BY <1>1 DEF Session
<1> HIDE DEF child
<1>4. /\ v \in Session
      /\ v.queue = w.queue /\ v.cmds = w.cmds /\ v.followUps = w.followUps /\ v.given = w.given
      /\ v.pending = w.pending /\ v.sender = w.sender /\ v.chan = w.chan /\ v.stdin = w.stdin
      /\ v.seal = w.seal /\ v.turn = w.turn /\ v.child.state = w.child.state
  BY <1>1, <1>2, <1>3 DEF Session
<1> HIDE DEF v
<1>5. TurnKnown(v)
  BY <1>4 DEF Good, TurnKnown
<1>6. v.stdin \in Seq(WrittenType) /\ (v.seal.on # "no" => ~v.turn.spoke \/ w.pending = {})
  BY <1>4 DEF Good, OpenInputs
<1>7. Good(v, n, T) /\ Leaves(w, v) /\ Executing(v) = Executing(w)
  BY <1>4, <1>5, <1>6, Turned
<1>8. OneTurn(w) => OneTurn(v)
  BY <1>4, <1>7 DEF OneTurn
<1>9. Orderly(w, v)
  BY <1>7, <1>8, OrderlyWhileNoneEnds
<1> QED
  BY <1>4, <1>7, <1>9 DEF v

LEMMA OrderlyAllStopped ==
  ASSUME NEW u, NEW v, NEW w, Orderly(u, v), Orderly(v, w), w.child.state # "live"
  PROVE  Orderly(u, w)
BY DEF Orderly, EndsInOrder

\* What is left of a turn whose process is being ended.
LEMMA GoodSettleStopped ==
  ASSUME NEW n, NEW T, NEW w, Good(w, n, T), w.child.state \in {"closing", "exited"}
  PROVE  LET v == SettleStopped(w)
         IN Good(v, n, T) /\ Leaves(w, v) /\ Orderly(w, v) /\ v.child.state = w.child.state
<1> DEFINE x == [w EXCEPT !.turn.early = FALSE, !.turn.stopping = FALSE]
           turn == [w.turn EXCEPT !.early = FALSE, !.stopping = FALSE]
<1>1. w \in Session /\ w.turn \in TurnType
  BY Fields DEF Good
<1>2. turn \in TurnType /\ turn.inFlight = w.turn.inFlight /\ turn.early = FALSE
      /\ turn.stopping = FALSE /\ turn.spoke = w.turn.spoke
  BY <1>1 DEF TurnType
<1>3. x = [w EXCEPT !.turn = turn]
  BY <1>1 DEF Session, TurnType
<1> HIDE DEF turn
<1>4. /\ x \in Session
      /\ x.queue = w.queue /\ x.cmds = w.cmds /\ x.followUps = w.followUps /\ x.given = w.given
      /\ x.pending = w.pending /\ x.sender = w.sender /\ x.chan = w.chan /\ x.stdin = w.stdin
      /\ x.seal = w.seal /\ x.turn = turn /\ x.child = w.child
  BY <1>1, <1>2, <1>3 DEF Session
<1>5. SettleStopped(w) =
        IF w.seal.on # "no" THEN [RunSeal(x, w.seal) EXCEPT !.child.ready = FALSE]
        ELSE IF w.turn.inFlight = None THEN x
        ELSE Finalize(x, w.turn.inFlight, FALSE)
  BY DEF SettleStopped
<1> HIDE DEF x
<1>6. Good(x, n, T) /\ Leaves(w, x) /\ Same(w, x)
  BY <1>2, <1>4, Cleaned
<1>7. Orderly(w, x)
  BY <1>4, <1>6, OrderlySame
<1>8. CASE w.seal.on # "no"
  <2> DEFINE y == RunSeal(x, w.seal)
             z == [y EXCEPT !.child.ready = FALSE]
  <2>1. Runnable(x, w.seal)
    BY <1>1, <1>4, Fields DEF Runnable, Good, TurnKnown
  <2>2. Good(y, n, T) /\ Leaves(x, y) /\ RanSeal(x, y, w.seal)
    BY <1>6, <2>1, GoodRunSeal
  <2> HIDE DEF y
  <2>3. OneTurn(x) /\ w.seal.on = "turn" => w.seal.of = x.turn.inFlight
    BY <1>4 DEF OneTurn
  <2>4. Orderly(x, y)
    BY <1>4, <1>6, <2>1, <2>2, <2>3, OrderlyRunSeal
  <2>5. y.child.state = w.child.state
    <3>1. x.child.state = w.child.state
      BY <1>4
    <3>2. CASE w.seal.on = "turn"
      <4>1. Ends(x, y, w.seal.of, TRUE)
        BY <2>2, <3>2 DEF RanSeal
      <4> QED
        BY <3>1, <4>1 DEF Ends, Starts, NothingStarts, SomethingStarts
    <3>3. CASE w.seal.on # "turn"
      BY <2>2, <3>1, <3>3 DEF RanSeal, Same
    <3> QED
      BY <3>2, <3>3
  <2>6. Good(z, n, T) /\ Leaves(y, z) /\ Orderly(y, z) /\ z.child.state = y.child.state
    BY <2>2, <2>5, GoodNotReady
  <2>7. SettleStopped(w) = z
    BY <1>5, <1>8 DEF y
  <2> HIDE DEF z
  <2>8. Orderly(x, z) /\ Orderly(w, z)
    BY <1>7, <2>4, <2>5, <2>6, OrderlyAllStopped
  <2> QED
    BY <1>6, <2>2, <2>5, <2>6, <2>7, <2>8, LeavesAll
<1>9. CASE w.seal.on = "no" /\ w.turn.inFlight = None
  BY <1>4, <1>5, <1>6, <1>7, <1>9
<1>10. CASE w.seal.on = "no" /\ w.turn.inFlight # None
  <2> DEFINE b == w.turn.inFlight
             y == Finalize(x, b, FALSE)
  <2>1. b \in Commands /\ x.cmds[b].status \in Began
    BY <1>1, <1>4, <1>10 DEF TurnType, Good, TurnKnown
  <2>2. x.turn.inFlight = b
    BY <1>2, <1>4
  <2>3. SettleStopped(w) = y
    BY <1>5, <1>10
  <2> HIDE DEF b
  <2>4. Good(y, n, T) /\ Leaves(x, y) /\ Ends(x, y, b, FALSE)
    BY <1>6, <2>1, GoodFinalize
  <2> HIDE DEF y
  <2>5. y.child.state = w.child.state
    <3>1. x.child.state = w.child.state
      BY <1>4
    <3> QED
      BY <2>4, <3>1 DEF Ends, Starts, NothingStarts, SomethingStarts
  <2>6. Orderly(x, y)
    BY <1>4, <1>6, <2>1, <2>2, <2>4, OrderlyEnds
  <2>7. Orderly(w, y)
    BY <1>7, <2>5, <2>6, OrderlyAllStopped
  <2> QED
    BY <1>6, <2>3, <2>4, <2>5, <2>7, LeavesAll
<1> QED
  BY <1>8, <1>9, <1>10

\* To cancel the open inputs does not look at the process.
LEMMA CancelBesideProcess ==
  ASSUME NEW w \in Session, NEW child \in ChildType
  PROVE  Cancel([w EXCEPT !.child = child]) = [Cancel(w) EXCEPT !.child = child]
<1> DEFINE v == [w EXCEPT !.child = child]
           chan == [w.chan EXCEPT !.hold = FALSE, !.waitFor = {}]
           open == { c \in Commands : w.chan.phase[c] \in {"sent", "received"} }
           last == [chan EXCEPT
                      !.phase = [c \in Commands |-> IF c \in Commands \cap open THEN "rejected"
                                                    ELSE chan.phase[c]],
                      !.timed = chan.timed \ (Commands \cap open),
                      !.due = chan.due \cup (Commands \cap open)]
<1>1. v.chan = w.chan /\ w.chan \in ChannelType
  BY Fields DEF Session
<1>2. chan.phase = w.chan.phase /\ chan \in ChannelType
  BY <1>1 DEF ChannelType
<1>6. v \in Session
  BY DEF Session
<1> HIDE DEF v
<1>3. ASSUME NEW x, x \in {w, v}
      PROVE  Cancel(x) = [x EXCEPT !.chan = [last EXCEPT !.closed = TRUE]]
  <2> DEFINE u == NoHold(x)
             y == CancelPending(x)
  <2>1. x.chan = w.chan
    BY <1>1, <1>3
  <2>2. u = [x EXCEPT !.chan = chan]
    BY <1>1, <1>3, <1>6, <2>1 DEF NoHold, Session, ChannelType
  <2> HIDE DEF chan
  <2>3. u.chan = chan /\ u \in Session /\ x \in Session
    BY <1>2, <1>3, <1>6, <2>2 DEF Session
  <2>4. Unsettled(u) = open
    BY <1>2, <2>3 DEF Unsettled
  <2>5. y = Settled(u, Commands \cap open, "rejected")
    BY <2>4 DEF CancelPending, Reject
  <2> HIDE DEF u, open
  <2>6. y = [u EXCEPT !.chan = last]
    <3>1. y = [u EXCEPT !.chan = [u.chan EXCEPT
                 !.phase = [c \in Commands |-> IF c \in Commands \cap open THEN "rejected"
                                               ELSE u.chan.phase[c]],
                 !.timed = u.chan.timed \ (Commands \cap open),
                 !.due = u.chan.due \cup (Commands \cap open)]]
      BY <2>3, <2>5 DEF Settled, Session, ChannelType
    <3> QED
      BY <2>3, <3>1
  <2> HIDE DEF last
  <2>7. y = [x EXCEPT !.chan = last]
    BY <2>2, <2>3, <2>6 DEF Session
  <2>8. Cancel(x) = [y EXCEPT !.chan.closed = TRUE]
    BY DEF Cancel
  <2> HIDE DEF y
  <2> QED
    BY <2>3, <2>7, <2>8 DEF Session
<1> HIDE DEF last
<1>4. Cancel(w) = [w EXCEPT !.chan = [last EXCEPT !.closed = TRUE]]
  BY <1>3
<1>5. Cancel(v) = [v EXCEPT !.chan = [last EXCEPT !.closed = TRUE]]
  BY <1>3
<1> QED
  BY <1>4, <1>5 DEF Session, v

\* The process is told to end, or has ended; the inputs that were open are settled.
CancelEnding(w, child, turn, s) ==
  [Cancel([w EXCEPT !.child = child]) EXCEPT !.turn = turn, !.stdin = s]

LEMMA GoodCancelEnding ==
  ASSUME NEW n, NEW T, NEW w, Good(w, n, T), w.child.state # "none",
         NEW child \in ChildType, child.state \in {"closing", "exited"},
         NEW turn \in TurnType, turn.inFlight = w.turn.inFlight, turn.early = w.turn.early,
         turn.spoke = w.turn.spoke, NEW s \in Seq(WrittenType)
  PROVE  LET v == CancelEnding(w, child, turn, s)
         IN Good(v, n, T) /\ Leaves(w, v) /\ Orderly(w, v) /\ v.child = child
<1> DEFINE x == Cancel(w)
           v == CancelEnding(w, child, turn, s)
<1>1. Good(x, n, T) /\ Leaves(w, x) /\ ChannelOnly(w, x) /\ Unsettled(x) = {}
  BY GoodCancel
<1>2. w \in Session /\ x \in Session
  BY <1>1 DEF Good
<1>4. v = [[x EXCEPT !.child = child] EXCEPT !.turn = turn, !.stdin = s]
  BY <1>2, CancelBesideProcess DEF CancelEnding
<1>6. /\ x.queue = w.queue /\ x.cmds = w.cmds /\ x.followUps = w.followUps
      /\ x.pending = w.pending /\ x.sender = w.sender /\ x.turn = w.turn /\ x.seal = w.seal
      /\ x.given = w.given
  BY <1>1, <1>2, ChannelOnlyFields
<1> HIDE DEF x, v
<1>7. /\ v.queue = x.queue /\ v.cmds = x.cmds /\ v.followUps = x.followUps /\ v.given = x.given
      /\ v.pending = x.pending /\ v.sender = x.sender /\ v.chan = x.chan /\ v.stdin = s
      /\ v.seal = x.seal /\ v.turn = turn /\ v.child = child
  BY <1>2, <1>4 DEF Session
<1>8. s \in Seq(ItemType)
  <2>1. WrittenType \subseteq ItemType
    BY DEF WrittenType, ItemType
  <2> QED
    BY <2>1
<1>9. v \in Session
  BY <1>2, <1>4, <1>8 DEF Session
<1>10. TurnKnown(v)
  BY <1>1, <1>6, <1>7 DEF Good, TurnKnown
<1>11. /\ v.stdin \in Seq(WrittenType)
       /\ (v.child.state # "live" => x.child.state # "live" \/ Unsettled(x) = {})
       /\ (v.seal.on # "no" => ~v.turn.spoke \/ x.pending = {})
  BY <1>1, <1>6, <1>7 DEF Good, OpenInputs
<1>12. Good(v, n, T) /\ Leaves(x, v) /\ Executing(v) = Executing(x)
  BY <1>1, <1>7, <1>9, <1>10, <1>11, Turned
<1>13. Leaves(w, v)
  BY <1>1, <1>12, LeavesAll
<1>14. OneTurn(w) => OneTurn(v)
  <2>1. Executing(v) = Executing(w)
    BY <1>6, <1>12 DEF Executing, Status
  <2> QED
    BY <1>6, <1>7, <2>1 DEF OneTurn
<1>15. Orderly(w, v)
  BY <1>7, <1>14 DEF Orderly, EndsInOrder
<1> QED
  BY <1>7, <1>12, <1>13, <1>15 DEF v

\* A process that follows no input is told to end.
LEMMA GoodEnding ==
  ASSUME NEW n, NEW T, NEW w, Good(w, n, T), w.child.state # "none", Unsettled(w) = {},
         NEW child \in ChildType, child.state \in {"closing", "exited"}
  PROVE  LET v == [w EXCEPT !.child = child]
         IN Good(v, n, T) /\ Leaves(w, v) /\ Orderly(w, v) /\ v.child = child
<1> DEFINE v == [w EXCEPT !.child = child]
<1>1. w \in Session
  BY DEF Good
<1>2. /\ v \in Session
      /\ v.queue = w.queue /\ v.cmds = w.cmds /\ v.followUps = w.followUps /\ v.given = w.given
      /\ v.pending = w.pending /\ v.sender = w.sender /\ v.chan = w.chan /\ v.stdin = w.stdin
      /\ v.seal = w.seal /\ v.turn = w.turn /\ v.child = child
  BY <1>1 DEF Session
<1> HIDE DEF v
<1>3. TurnKnown(v)
  BY <1>2 DEF Good, TurnKnown
<1>4. v.stdin \in Seq(WrittenType) /\ (v.seal.on # "no" => ~v.turn.spoke \/ w.pending = {})
  BY <1>2 DEF Good, OpenInputs
<1>5. Good(v, n, T) /\ Leaves(w, v) /\ Executing(v) = Executing(w)
  BY <1>2, <1>3, <1>4, Turned
<1>6. OneTurn(w) => OneTurn(v)
  BY <1>2, <1>5 DEF OneTurn
<1>7. Orderly(w, v)
  BY <1>5, <1>6, OrderlyWhileNoneEnds
<1> QED
  BY <1>2, <1>5, <1>7 DEF v

LEMMA GoodStop ==
  ASSUME NEW n, NEW T, NEW w, Good(w, n, T)
  PROVE  LET v == Stop(w)
         IN /\ Good(v, n, T) /\ Leaves(w, v) /\ Orderly(w, v)
            /\ v.child.state # "live"
<1> DEFINE u == [w EXCEPT !.child.tasks = FALSE, !.child.notices = FALSE]
           plain == [w.child EXCEPT !.tasks = FALSE, !.notices = FALSE]
           child == [plain EXCEPT !.intentional = TRUE,
                                  !.state = IF @ = "live" THEN "closing" ELSE @]
           x == [u EXCEPT !.child.intentional = TRUE,
                          !.child.state = IF @ = "live" THEN "closing" ELSE @]
<1>1. w \in Session /\ w.child \in ChildType
  BY Fields DEF Good
<1>2. plain \in ChildType /\ plain.state = w.child.state /\ plain.ready = w.child.ready
  BY <1>1 DEF ChildType
<1>3. u = [w EXCEPT !.child = plain]
  BY <1>1 DEF Session, ChildType
<1> HIDE DEF plain
<1>4. Good(u, n, T) /\ Leaves(w, u) /\ Orderly(w, u)
  BY <1>2, <1>3, GoodTaskLine
<1>5. u \in Session /\ u.child = plain /\ u.chan = w.chan /\ u.turn = w.turn /\ u.stdin = w.stdin
  BY <1>1, <1>3, <1>4 DEF Good, Session
<1>6. Stop(w) = IF w.child.state = "none" THEN u
                ELSE IF Followed(w) # {} THEN [Cancel(x) EXCEPT !.turn.stopping = TRUE]
                ELSE SettleStopped(x)
  BY DEF Stop
<1> HIDE DEF u
<1>7. x = [u EXCEPT !.child = child]
  BY <1>2, <1>5 DEF Session, ChildType
<1>8. child \in ChildType /\ (w.child.state # "none" => child.state \in {"closing", "exited"})
  BY <1>2 DEF ChildType
<1> HIDE DEF x, child
<1>9. CASE w.child.state = "none"
  BY <1>2, <1>4, <1>5, <1>6, <1>9
<1>10. CASE w.child.state # "none" /\ Followed(w) # {}
  <2> DEFINE v == [Cancel(x) EXCEPT !.turn.stopping = TRUE]
             turn == [u.turn EXCEPT !.stopping = TRUE]
             z == Cancel(x)
  <2>1. turn \in TurnType /\ turn.inFlight = u.turn.inFlight /\ turn.early = u.turn.early
        /\ turn.spoke = u.turn.spoke
    BY <1>5, Fields DEF TurnType
  <2>2. v = CancelEnding(u, child, turn, u.stdin)
    <3>1. Cancel(u) \in Session /\ Cancel(u).turn = u.turn /\ Cancel(u).stdin = u.stdin
      BY <1>4, <1>5, GoodCancel, ChannelOnlyFields DEF Good
    <3>2. z = [Cancel(u) EXCEPT !.child = child]
      BY <1>5, <1>7, <1>8, CancelBesideProcess
    <3>3. z \in Session /\ z.turn = u.turn /\ z.stdin = u.stdin
      BY <1>8, <3>1, <3>2 DEF Session
    <3> HIDE DEF z
    <3> QED
      BY <1>7, <3>3 DEF Session, z, CancelEnding
  <2>3. Good(v, n, T) /\ Leaves(u, v) /\ Orderly(u, v) /\ v.child = child
    <3>1. u.child.state # "none" /\ child.state \in {"closing", "exited"}
      BY <1>2, <1>5, <1>8, <1>10
    <3>2. u.stdin \in Seq(WrittenType)
      BY <1>4 DEF Good
    <3> HIDE DEF v, turn
    <3> QED
      BY <1>4, <1>8, <2>1, <2>2, <3>1, <3>2, GoodCancelEnding
  <2>4. Stop(w) = v
    BY <1>6, <1>10
  <2> HIDE DEF v
  <2>5. v.child.state # "live"
    BY <1>8, <1>10, <2>3
  <2>6. Orderly(w, v)
    BY <1>4, <2>3, <2>5, OrderlyAllStopped
  <2> QED
    BY <1>4, <2>3, <2>4, <2>5, <2>6, LeavesAll
<1>11. CASE w.child.state # "none" /\ Followed(w) = {}
  <2> DEFINE v == SettleStopped(x)
  <2>1. Unsettled(u) = {} /\ u.child.state # "none" /\ child.state \in {"closing", "exited"}
    BY <1>2, <1>5, <1>8, <1>11 DEF Followed, Unsettled
  <2>2. Good(x, n, T) /\ Leaves(u, x) /\ Orderly(u, x) /\ x.child = child
    BY <1>4, <1>7, <1>8, <2>1, GoodEnding
  <2>3. Good(v, n, T) /\ Leaves(x, v) /\ Orderly(x, v) /\ v.child.state = x.child.state
    BY <2>1, <2>2, GoodSettleStopped
  <2>4. Stop(w) = v
    BY <1>6, <1>11
  <2> HIDE DEF v
  <2>5. v.child.state # "live"
    BY <2>1, <2>2, <2>3
  <2>6. Orderly(u, v) /\ Orderly(w, v)
    BY <1>4, <2>2, <2>3, <2>5, OrderlyAllStopped
  <2>7. Leaves(w, v)
    BY <1>4, <2>2, <2>3, LeavesAll
  <2> QED
    BY <2>3, <2>4, <2>5, <2>6, <2>7
<1> QED
  BY <1>9, <1>10, <1>11

(***************************************************************************)
(* What the user asks for.                                                 *)
(***************************************************************************)
\* The queue in another order.
LEMMA GoodRequeued ==
  ASSUME NEW n, NEW T, NEW w, Good(w, n, T), NEW q \in Seq(Commands), NoRepeat(q),
         Members(q) = Members(w.queue)
  PROVE  LET v == [w EXCEPT !.queue = q]
         IN /\ Good(v, n, T) /\ Leaves(w, v) /\ Beside(w, v)
            /\ v.pending = w.pending /\ v.cmds = w.cmds
<1> DEFINE v == [w EXCEPT !.queue = q]
<1>1. w \in Session
  BY DEF Good
<1>2. /\ v \in Session
      /\ v.queue = q /\ v.cmds = w.cmds /\ v.followUps = w.followUps /\ v.given = w.given
      /\ v.pending = w.pending /\ v.sender = w.sender /\ v.chan = w.chan /\ v.stdin = w.stdin
      /\ v.seal = w.seal /\ v.turn = w.turn /\ v.child = w.child
  BY <1>1 DEF Session
<1> HIDE DEF v
<1>3. Placed(v)
  BY <1>2 DEF Good, Placed
<1>4. Tried(v) /\ TurnKnown(v)
  BY <1>2 DEF Good, Tried, TurnKnown
<1>5. OpenInputs(v)
  BY <1>2 DEF Good, OpenInputs, Unsettled
<1>6. GivenOnce(v, n) /\ TakenOnly(v, T)
  BY <1>2 DEF Good, GivenOnce, Again, TakenOnly
<1>7. Good(v, n, T) /\ Leaves(w, v)
  BY <1>2, <1>3, <1>4, <1>5, <1>6 DEF Good, Leaves
<1>8. Beside(w, v)
  BY <1>2 DEF Beside, Executing, Status
<1> QED
  BY <1>2, <1>7, <1>8 DEF v

\* A command that waits, with nothing tried, from the request or after a change of its mode.
Queued(w, c, k, q) == [w EXCEPT !.queue = q, !.cmds = [w.cmds EXCEPT ![c] = k]]

LEMMA GoodQueued ==
  ASSUME NEW n, NEW T, NEW w, Good(w, n, T), NEW c \in Commands,
         w.cmds[c].status \in {"new", "queued"}, w.cmds[c].delivery \in {"none", "unavailable"},
         c \notin w.pending,
         NEW k \in CommandType, k.status = "queued", k.delivery = "none",
         k.resumed = w.cmds[c].resumed,
         NEW q \in Seq(Commands), NoRepeat(q), Members(q) = Members(w.queue) \cup {c}
  PROVE  LET v == Queued(w, c, k, q)
         IN /\ Good(v, n, T) /\ Leaves(w, v) /\ Beside(w, v)
            /\ v.pending = w.pending /\ v.cmds[c] = k
<1> DEFINE v == Queued(w, c, k, q)
           cmds == [w.cmds EXCEPT ![c] = k]
<1>1. w \in Session /\ w.cmds \in [Commands -> CommandType]
  BY Fields DEF Good
<1>2. /\ cmds \in [Commands -> CommandType]
      /\ cmds[c] = k /\ \A d \in Commands : d # c => cmds[d] = w.cmds[d]
  BY <1>1
<1>3. v = [w EXCEPT !.queue = q, !.cmds = cmds]
  BY DEF Queued
<1> HIDE DEF cmds, v
<1>4. /\ v \in Session
      /\ v.queue = q /\ v.cmds = cmds /\ v.followUps = w.followUps /\ v.given = w.given
      /\ v.pending = w.pending /\ v.sender = w.sender /\ v.chan = w.chan /\ v.stdin = w.stdin
      /\ v.seal = w.seal /\ v.turn = w.turn /\ v.child = w.child
  BY <1>1, <1>2, <1>3 DEF Session
<1>5. \A d \in Commands : v.cmds[d].resumed = w.cmds[d].resumed
  BY <1>2, <1>4
<1>6. Placed(v)
  <2>1. \A d \in Commands : d \in Members(v.queue) <=> v.cmds[d].status \in {"queued", "executing"}
    BY <1>2, <1>4 DEF Good, Placed
  <2>2. \A d \in Commands : v.cmds[d].status = "recorded" <=> w.cmds[d].status = "recorded"
    BY <1>2, <1>4
  <2> QED
    BY <1>4, <2>1, <2>2 DEF Good, Placed
<1>7. Tried(v)
  BY <1>2, <1>4 DEF Good, Tried
<1>8. w.pending \subseteq Commands /\ w.turn.inFlight \in Commands \cup {None}
  BY <1>1, Fields DEF TurnType
<1>9. OpenInputs(v)
  BY <1>2, <1>4, <1>8 DEF Good, OpenInputs, Unsettled
<1>10. TurnKnown(v)
  BY <1>2, <1>4, <1>8 DEF Good, TurnKnown, Began
<1>11. TakenOnly(v, T)
  BY <1>2, <1>4 DEF Good, TakenOnly
<1>12. GivenOnce(v, n)
  <2>1. w.given[c] <= Again(w, c, n)
    <3>1. w.given[c] = 0 \/ w.given[c] <= Again(w, c, n)
      BY DEF Good, GivenOnce
    <3>2. Again(w, c, n) \in Nat
      BY DEF Again, Good
    <3> QED
      BY <3>1, <3>2
  <2>2. \A d \in Commands : Again(v, d, n) = Again(w, d, n)
    BY <1>5 DEF Again
  <2>3. ASSUME NEW d \in Commands
        PROVE  /\ v.given[d] <= 1 + Again(v, d, n)
               /\ v.cmds[d].status = "new" => v.given[d] = 0
               /\ v.cmds[d].status = "queued" /\ v.cmds[d].delivery \in {"none", "unavailable"}
                    => v.given[d] <= Again(v, d, n)
    <3>1. CASE d = c
      BY <1>2, <1>4, <2>1, <2>2, <3>1 DEF Good, GivenOnce
    <3>2. CASE d # c
      BY <1>2, <1>4, <2>2, <3>2 DEF Good, GivenOnce
    <3> QED
      BY <3>1, <3>2
  <2> QED
    BY <2>3 DEF GivenOnce
<1>13. Good(v, n, T)
  BY <1>4, <1>6, <1>7, <1>9, <1>10, <1>11, <1>12 DEF Good
<1>14. Leaves(w, v)
  BY <1>2, <1>4 DEF Leaves
<1>15. Beside(w, v)
  BY <1>2, <1>4, <1>8 DEF Beside, Executing, Status
<1> QED
  BY <1>2, <1>4, <1>13, <1>14, <1>15 DEF v

LEMMA GoodSoftInterrupt ==
  ASSUME NEW n, NEW T, NEW w, Good(w, n, T)
  PROVE  LET v == SoftInterrupt(w)
         IN Good(v, n, T) /\ Leaves(w, v) /\ Orderly(w, v)
<1> DEFINE u == CancelPending(w)
           item == [kind |-> "interrupt", of |-> None]
           stdin == IF w.child.state = "live" THEN Append(w.stdin, item) ELSE w.stdin
           turn == [w.turn EXCEPT !.cut = TRUE, !.fallback = TRUE]
           v == SoftInterrupt(w)
<1>1. Good(u, n, T) /\ Leaves(w, u) /\ ChannelOnly(w, u)
  BY GoodCancelPending
<1>2. w \in Session /\ u \in Session /\ w.turn \in TurnType /\ w.stdin \in Seq(WrittenType)
  BY <1>1, Fields DEF Good
<1>3. /\ u.queue = w.queue /\ u.cmds = w.cmds /\ u.followUps = w.followUps
      /\ u.pending = w.pending /\ u.sender = w.sender /\ u.turn = w.turn /\ u.seal = w.seal
      /\ u.child = w.child /\ u.stdin = w.stdin /\ u.given = w.given
  BY <1>1, <1>2, ChannelOnlyFields
<1>4. v = [u EXCEPT !.turn = turn, !.stdin = stdin]
  <2>1. v = [u EXCEPT !.turn.cut = TRUE, !.turn.fallback = TRUE,
                      !.stdin = IF w.child.state = "live" THEN Append(@, item) ELSE @]
    BY DEF SoftInterrupt
  <2> HIDE DEF u, v
  <2> QED
    BY <1>2, <1>3, <2>1 DEF Session, TurnType
<1>5. turn \in TurnType /\ turn.inFlight = w.turn.inFlight /\ turn.early = w.turn.early
      /\ turn.stopping = w.turn.stopping /\ turn.spoke = w.turn.spoke
  BY <1>2 DEF TurnType
<1>6. stdin \in Seq(WrittenType) /\ stdin \in Seq(ItemType)
  <2>1. item \in WrittenType /\ item \in ItemType
    BY DEF WrittenType, ItemType
  <2>2. w.stdin \in Seq(ItemType)
    BY <1>2, Fields
  <2> HIDE DEF item
  <2> QED
    BY <1>2, <2>1, <2>2
<1> HIDE DEF u, v, turn, stdin
<1>7. /\ v \in Session
      /\ v.queue = u.queue /\ v.cmds = u.cmds /\ v.followUps = u.followUps /\ v.given = u.given
      /\ v.pending = u.pending /\ v.sender = u.sender /\ v.chan = u.chan /\ v.stdin = stdin
      /\ v.seal = u.seal /\ v.turn = turn /\ v.child = u.child
  BY <1>2, <1>4, <1>5, <1>6 DEF Session
<1>8. TurnKnown(v)
  BY <1>1, <1>3, <1>5, <1>7 DEF Good, TurnKnown
<1>9. /\ v.stdin \in Seq(WrittenType)
      /\ (v.child.state # "live" => u.child.state # "live" \/ Unsettled(u) = {})
      /\ (v.seal.on # "no" => ~v.turn.spoke \/ u.pending = {})
  BY <1>1, <1>3, <1>5, <1>6, <1>7 DEF Good, OpenInputs
<1>10. Good(v, n, T) /\ Leaves(u, v)
  BY <1>1, <1>7, <1>8, <1>9, Turned
<1>11. Same(w, v) /\ v.seal = w.seal
  BY <1>3, <1>5, <1>7 DEF Same
<1>12. Orderly(w, v)
  BY <1>11, OrderlySame
<1>13. Leaves(w, v)
  BY <1>1, <1>10, LeavesAll
<1> QED
  BY <1>10, <1>12, <1>13 DEF v

LEMMA GoodInterrupted ==
  ASSUME NEW n, NEW T, NEW w, Good(w, n, T), NEW c \in Commands, w.cmds[c].status = "queued"
  PROVE  LET v == Interrupted(w, c)
         IN Good(v, n, T) /\ Leaves(w, v) /\ Orderly(w, v)
<1> DEFINE q == Prioritized(w.queue, c, Status(w, "queued"))
           x == [w EXCEPT !.queue = q]
           v == Interrupted(w, c)
<1>1. w \in Session /\ w.queue \in Seq(Commands) /\ NoRepeat(w.queue) /\ c \in Members(w.queue)
  BY Fields DEF Good, Placed
<1>2. q \in Seq(Commands) /\ NoRepeat(q) /\ Members(q) = Members(w.queue)
  BY <1>1, PutAhead
<1>3. x = [w EXCEPT !.queue = Prioritized(@, c, Status(w, "queued"))]
  BY <1>1 DEF Session
<1> HIDE DEF q
<1>4. Good(x, n, T) /\ Leaves(w, x) /\ Beside(w, x) /\ x.pending = w.pending
  BY <1>2, GoodRequeued
<1>5. Executing(x) = Executing(w) /\ (OneTurn(w) => OneTurn(x))
  BY <1>4, OrderlyBeside DEF Beside, Orderly
<1>6. v = IF ~Processing(x) THEN ProcessNext(x)
          ELSE IF x.seal.on # "no" THEN RunSeal(x, x.seal)
          ELSE IF x.turn.inFlight # None /\ x.child.state \in {"live", "closing"}
          THEN SoftInterrupt(x)
          ELSE Stop(x)
  BY <1>3 DEF Interrupted
<1> HIDE DEF x, v
<1>7. Good(v, n, T) /\ Leaves(x, v) /\ Orderly(x, v)
  <2>1. CASE ~Processing(x)
    BY <1>4, <1>6, <2>1, GoodProcessNext, OrderlyStarts
  <2>2. CASE Processing(x) /\ x.seal.on # "no"
    <3>1. Runnable(x, x.seal)
      BY <1>4, Fields DEF Runnable, Good, TurnKnown
    <3>2. v = RunSeal(x, x.seal)
      BY <1>6, <2>2
    <3>3. Good(v, n, T) /\ Leaves(x, v) /\ RanSeal(x, v, x.seal)
      BY <1>4, <3>1, <3>2, GoodRunSeal
    <3>4. GivesUp(x) \/ x.pending = {}
      BY <1>4, <2>2 DEF Good, OpenInputs, GivesUp
    <3>5. OneTurn(x) /\ x.seal.on = "turn" => x.seal.of = x.turn.inFlight
      BY DEF OneTurn
    <3> QED
      BY <1>4, <3>1, <3>3, <3>4, <3>5, OrderlyRunSeal
  <2>3. CASE /\ Processing(x) /\ x.seal.on = "no"
             /\ x.turn.inFlight # None /\ x.child.state \in {"live", "closing"}
    BY <1>4, <1>6, <2>3, GoodSoftInterrupt
  <2>4. CASE /\ Processing(x) /\ x.seal.on = "no"
             /\ ~(x.turn.inFlight # None /\ x.child.state \in {"live", "closing"})
    BY <1>4, <1>6, <2>4, GoodStop
  <2> QED
    BY <2>1, <2>2, <2>3, <2>4
<1>8. Leaves(w, v) /\ Orderly(w, v)
  BY <1>4, <1>5, <1>7, LeavesAll, OrderlyAfter DEF Beside, GivesUp
<1> QED
  BY <1>7, <1>8 DEF v

LEMMA GoodDispatched ==
  ASSUME NEW n, NEW T, NEW w, Good(w, n, T), NEW c \in Commands, w.cmds[c].status = "queued",
         NEW m \in Modes
  PROVE  LET v == Dispatched(w, c, m)
         IN Good(v, n, T) /\ Leaves(w, v) /\ Orderly(w, v)
<1>1. CASE m = "immediate"
  <2>1. Dispatched(w, c, m) = Interrupted(w, c)
    BY <1>1 DEF Dispatched
  <2> QED
    BY <2>1, GoodInterrupted
<1>2. CASE m = "steer"
  <2> DEFINE u == TrySend(w, c)
             v == ProcessNext(u)
  <2>1. Dispatched(w, c, m) = v
    BY <1>2 DEF Dispatched
  <2>2. Good(u, n, T) /\ Leaves(w, u) /\ Beside(w, u)
    BY GoodTrySend
  <2> HIDE DEF u
  <2>3. Good(v, n, T) /\ Leaves(u, v) /\ Starts(u, v)
    BY <2>2, GoodProcessNext
  <2> HIDE DEF v
  <2>4. Orderly(w, u) /\ Orderly(u, v)
    BY <2>2, <2>3, OrderlyBeside, OrderlyStarts
  <2>5. Executing(w) \subseteq Executing(v)
    BY <2>2, <2>3, StartsFinishesNothing DEF Beside
  <2>6. Orderly(w, v)
    BY <2>4, <2>5, OrderlyWhileNoneEnds DEF Orderly
  <2> QED
    BY <2>1, <2>2, <2>3, <2>6, LeavesAll
<1>3. CASE m = "wait"
  <2>1. Dispatched(w, c, m) = ProcessNext(w)
    BY <1>3 DEF Dispatched
  <2> QED
    BY <2>1, GoodProcessNext, OrderlyStarts
<1> QED
  BY <1>1, <1>2, <1>3 DEF Modes

\* A command that waits is dropped, each that waits is.
LEMMA GoodWithoutDropped ==
  ASSUME NEW n, NEW T, NEW w, Good(w, n, T)
  PROVE  LET v == WithoutDropped(w)
         IN Good(v, n, T) /\ Leaves(w, v) /\ Beside(w, v) /\ v.pending = w.pending
<1> DEFINE D == Dropped(w)
           q == Kept(w.queue, Commands \ D)
           cmds == [c \in Commands |-> IF c \in D THEN Left(w, c, "deleted").cmds[c] ELSE w.cmds[c]]
           v == WithoutDropped(w)
<1>1. w \in Session /\ w.queue \in Seq(Commands) /\ NoRepeat(w.queue)
      /\ w.cmds \in [Commands -> CommandType] /\ "deleted" \in Statuses
  BY Fields DEF Good, Placed, Statuses
<1>2. q \in Seq(Commands) /\ NoRepeat(q) /\ Members(q) = Members(w.queue) \cap (Commands \ D)
  BY <1>1, Filtered
<1>3. ASSUME NEW c \in D
      PROVE  /\ c \in Commands /\ w.cmds[c].status = "queued" /\ c \notin w.pending
             /\ w.cmds[c].delivery \in {"none", "unavailable"}
  <2>1. c \in Commands /\ w.cmds[c].status = "queued" /\ c \notin w.pending
        /\ w.cmds[c].delivery \notin {"sending", "received", "uncertain"}
    BY <1>3 DEF Dropped, Status, Locked
  <2>2. w.cmds[c].delivery \in Deliveries
    BY <1>1, <2>1 DEF CommandType
  <2> QED
    BY <2>1, <2>2 DEF Deliveries
<1>4. \A c \in Commands :
        /\ cmds[c] \in CommandType
        /\ c \notin D => cmds[c] = w.cmds[c]
        /\ c \in D => cmds[c].status = "deleted" /\ cmds[c].delivery = "none"
        /\ cmds[c].resumed = w.cmds[c].resumed
  <2>1. ASSUME NEW c \in Commands
        PROVE  /\ cmds[c] \in CommandType
               /\ c \notin D => cmds[c] = w.cmds[c]
               /\ c \in D => cmds[c].status = "deleted" /\ cmds[c].delivery = "none"
               /\ cmds[c].resumed = w.cmds[c].resumed
    <3> DEFINE u == Left(w, c, "deleted")
    <3>1. u \in Session /\ LeftAs(w, u, c, "deleted")
      BY <1>1, LeftFields
    <3>2. cmds[c] = IF c \in D THEN u.cmds[c] ELSE w.cmds[c]
      OBVIOUS
    <3> HIDE DEF u, cmds, D
    <3>3. u.cmds[c] \in CommandType
      BY <3>1, Fields
    <3> QED
      BY <1>1, <3>1, <3>2, <3>3 DEF LeftAs
  <2> QED
    BY <2>1
<1>5. cmds \in [Commands -> CommandType]
  BY <1>4
<1>6. v = [w EXCEPT !.queue = q, !.cmds = cmds]
  BY <1>1 DEF WithoutDropped, Session
<1> HIDE DEF D, q, cmds, v
<1>7. /\ v \in Session
      /\ v.queue = q /\ v.cmds = cmds /\ v.followUps = w.followUps /\ v.given = w.given
      /\ v.pending = w.pending /\ v.sender = w.sender /\ v.chan = w.chan /\ v.stdin = w.stdin
      /\ v.seal = w.seal /\ v.turn = w.turn /\ v.child = w.child
  BY <1>1, <1>2, <1>5, <1>6 DEF Session
<1>8. Placed(v)
  <2>1. \A c \in Commands : c \in Members(v.queue) <=> v.cmds[c].status \in {"queued", "executing"}
    BY <1>2, <1>4, <1>7 DEF Good, Placed
  <2>2. \A c \in Commands : v.cmds[c].status = "recorded" <=> w.cmds[c].status = "recorded"
    BY <1>3, <1>4, <1>7
  <2> QED
    BY <1>2, <1>7, <2>1, <2>2 DEF Good, Placed
<1>9. Tried(v)
  BY <1>4, <1>7 DEF Good, Tried
<1>10. w.pending \subseteq Commands /\ w.turn.inFlight \in Commands \cup {None}
  BY <1>1, Fields DEF TurnType
<1>11. OpenInputs(v)
  BY <1>3, <1>4, <1>7, <1>10 DEF Good, OpenInputs, Unsettled
<1>12. TurnKnown(v)
  <2>1. \A c \in Commands : w.cmds[c].status \in Began => v.cmds[c].status \in Began
    BY <1>3, <1>4, <1>7 DEF Began
  <2> QED
    BY <1>7, <1>10, <2>1 DEF Good, TurnKnown
<1>13. TakenOnly(v, T)
  BY <1>3, <1>4, <1>7 DEF Good, TakenOnly
<1>14. GivenOnce(v, n)
  <2>1. \A c \in Commands : Again(v, c, n) = Again(w, c, n)
    BY <1>4, <1>7 DEF Again
  <2> QED
    BY <1>4, <1>7, <2>1 DEF Good, GivenOnce
<1>15. Good(v, n, T)
  BY <1>7, <1>8, <1>9, <1>11, <1>12, <1>13, <1>14 DEF Good
<1>16. Leaves(w, v)
  BY <1>3, <1>4, <1>7 DEF Leaves
<1>17. Beside(w, v)
  BY <1>3, <1>4, <1>7, <1>10 DEF Beside, Executing, Status
<1> QED
  BY <1>7, <1>15, <1>16, <1>17 DEF v

\* A turn without a process is closed.
LEMMA GoodSealedIfDead ==
  ASSUME NEW n, NEW T, NEW w, Good(w, n, T), w.child.state # "live"
  PROVE  LET v == SealedIfDead(w)
         IN /\ Good(v, n, T) /\ Leaves(w, v) /\ Orderly(w, v)
            /\ v.child.state # "live"
<1> DEFINE v == SealedIfDead(w)
<1>1. CASE w.child.state # "none" \/ Executing(w) = {}
  <2>1. v = w
    BY <1>1 DEF SealedIfDead
  <2> HIDE DEF v
  <2>2. Good(v, n, T) /\ Leaves(w, v) /\ Orderly(w, v) /\ v.child.state # "live"
    BY <2>1, LeavesItself, BesideItself, OrderlyBeside
  <2> QED
    BY <2>2 DEF v
<1>2. CASE w.child.state = "none" /\ Executing(w) # {}
  <2> DEFINE b == CHOOSE c \in Executing(w) : TRUE
             u == Left(w, b, "done")
  <2>1. b \in Commands /\ w.cmds[b].status = "executing"
    BY <1>2 DEF Executing, Status
  <2>2. SealedIfDead(w) = u
    BY <1>2 DEF SealedIfDead
  <2> HIDE DEF b
  <2>3. b \notin w.pending /\ w.cmds[b].delivery # "uncertain"
    BY <2>1 DEF Good, Tried, OpenInputs
  <2>4. Good(u, n, T) /\ Leaves(w, u) /\ u.child = w.child
    BY <2>1, <2>3, GoodLeft
  <2> HIDE DEF u
  <2>5. ~OneTurn(w)
    BY <1>2 DEF OneTurn
  <2>6. Orderly(w, u)
    BY <1>2, <2>4, <2>5 DEF Orderly, EndsInOrder
  <2> QED
    BY <1>2, <2>2, <2>4, <2>6
<1> QED
  BY <1>1, <1>2

(***************************************************************************)
(* The process ends, and the server restarts.                              *)
(***************************************************************************)
LEMMA GoodClosed ==
  ASSUME NEW n, NEW T, NEW w, Good(w, n, T), w.child.state = "exited"
  PROVE  LET v == Closed(w)
         IN /\ Good(v, n, T) /\ Leaves(w, v) /\ EndsInOrder(w, v)
            /\ (w.child.intentional \/ w.seal.on # "turn") => Orderly(w, v)
<1> DEFINE child == [NoChild EXCEPT !.notices = w.child.notices /\ ~w.child.tasks]
           b == w.turn.inFlight
           x == [w EXCEPT !.child = child, !.turn = NoTurn]
           v == Closed(w)
<1>1. w \in Session /\ w.child \in ChildType /\ w.turn \in TurnType
  BY Fields DEF Good
<1>2. child \in ChildType /\ child.state = "none" /\ NoTurn \in TurnType
  BY <1>1 DEF NoChild, ChildType, NoTurn, TurnType
<1>3. NoTurn.inFlight = None /\ ~NoTurn.early /\ ~NoTurn.stopping /\ ~NoTurn.spoke
  BY DEF NoTurn
<1>4. v = IF w.child.intentional
          THEN IF b = None THEN ProcessNext(x) ELSE Finalize(x, b, FALSE)
          ELSE IF b = None THEN x ELSE ProcessNext(Archived(x, b))
  BY DEF Closed
<1> HIDE DEF child, v
<1>5. /\ x \in Session
      /\ x.queue = w.queue /\ x.cmds = w.cmds /\ x.followUps = w.followUps /\ x.given = w.given
      /\ x.pending = w.pending /\ x.sender = w.sender /\ x.chan = w.chan /\ x.stdin = w.stdin
      /\ x.seal = w.seal /\ x.turn = NoTurn /\ x.child = child
  BY <1>1, <1>2 DEF Session
<1> HIDE DEF x
<1>6. TurnKnown(x)
  BY <1>2, <1>3, <1>5 DEF Good, TurnKnown
<1>7. x.stdin \in Seq(WrittenType) /\ (x.seal.on # "no" => ~x.turn.spoke \/ w.pending = {})
  BY <1>3, <1>5 DEF Good, OpenInputs
<1>8. Good(x, n, T) /\ Leaves(w, x) /\ Executing(x) = Executing(w)
  BY <1>5, <1>6, <1>7, Turned
<1>9. CASE b = None
  <2>1. OneTurn(w) => OneTurn(x)
    <3>1. SUFFICES ASSUME OneTurn(w)
                   PROVE  OneTurn(x)
      OBVIOUS
    <3>2. Executing(x) = {}
      BY <1>8, <1>9, <3>1 DEF OneTurn
    <3>3. w.seal.on # "turn"
      BY <1>9, <3>1, FollowUpAssumption DEF Good, TurnKnown, OneTurn
    <3> QED
      BY <1>2, <1>3, <1>5, <3>2, <3>3 DEF OneTurn
  <2>2. Orderly(w, x)
    BY <1>8, <2>1, OrderlyWhileNoneEnds
  <2>3. CASE w.child.intentional
    <3>1. v = ProcessNext(x)
      BY <1>4, <1>9, <2>3
    <3>2. Good(v, n, T) /\ Leaves(x, v) /\ Starts(x, v)
      BY <1>8, <3>1, GoodProcessNext
    <3>3. Orderly(x, v)
      BY <1>8, <3>2, OrderlyStarts
    <3>4. Orderly(w, v)
      <4>1. Executing(x) \subseteq Executing(v)
        BY <3>2, StartsFinishesNothing
      <4> QED
        BY <1>8, <2>1, <3>3, <4>1, OrderlyWhileNoneEnds DEF Orderly
    <3>5. Leaves(w, v) /\ EndsInOrder(w, v)
      BY <1>8, <3>2, <3>4, LeavesAll DEF Orderly
    <3> QED
      BY <3>2, <3>4, <3>5 DEF v
  <2>4. CASE ~w.child.intentional
    <3>1. v = x
      BY <1>4, <1>9, <2>4
    <3>2. Good(v, n, T) /\ Leaves(w, v) /\ Orderly(w, v) /\ EndsInOrder(w, v)
      BY <1>8, <2>2, <3>1 DEF Orderly
    <3> QED
      BY <3>2 DEF v
  <2> QED
    BY <2>3, <2>4
<1>10. CASE b # None
  <2>1. b \in Commands /\ x.cmds[b].status \in Began
    BY <1>1, <1>5, <1>10 DEF TurnType, Good, TurnKnown
  <2>2. OneTurn(w) => b = w.turn.inFlight
    OBVIOUS
  <2> HIDE DEF b
  <2>3. CASE w.child.intentional
    <3>1. v = Finalize(x, b, FALSE)
      BY <1>4, <1>10, <2>3
    <3>2. Good(v, n, T) /\ Leaves(x, v) /\ Ends(x, v, b, FALSE)
      BY <1>8, <2>1, <3>1, GoodFinalize
    <3>3. PICK u \in Session : /\ Over(x, u, b) /\ u.seal = NoSeal
                               /\ u.child.state = x.child.state /\ Starts(u, v)
      BY <3>2 DEF Ends
    <3>4. Over(w, u, b) /\ u.seal.on # "turn" /\ u.child.state = "none"
      BY <1>2, <1>5, <3>3 DEF Over, NoSeal
    <3>5. Orderly(w, v)
      BY <2>1, <2>2, <3>3, <3>4, OrderlyOver
    <3>6. Leaves(w, v) /\ EndsInOrder(w, v)
      BY <1>8, <3>2, <3>5, LeavesAll DEF Orderly
    <3> QED
      BY <3>2, <3>5, <3>6 DEF v
  <2>4. CASE ~w.child.intentional
    <3> DEFINE u == Archived(x, b)
    <3>1. v = ProcessNext(u)
      BY <1>4, <1>10, <2>4
    <3>2. /\ Good(u, n, T) /\ Leaves(x, u) /\ Over(x, u, b)
          /\ u.seal = x.seal /\ u.child = x.child
      BY <1>8, <2>1, GoodArchived
    <3> HIDE DEF u
    <3>3. Good(v, n, T) /\ Leaves(u, v) /\ Starts(u, v)
      BY <3>1, <3>2, GoodProcessNext
    <3>4. Over(w, u, b) /\ u.seal = w.seal /\ u.child.state = "none"
      BY <1>2, <1>5, <3>2 DEF Over
    <3>5. EndsInOrder(w, v)
      BY <3>3, <3>4, OverInOrder
    <3>6. w.seal.on # "turn" => Orderly(w, v)
      BY <2>1, <2>2, <3>3, <3>4, OrderlyOver
    <3>7. Leaves(w, v)
      BY <1>8, <3>2, <3>3, LeavesAll
    <3> QED
      BY <2>4, <3>3, <3>5, <3>6, <3>7 DEF v
  <2> QED
    BY <2>3, <2>4
<1> QED
  BY <1>9, <1>10

\* The server restarts from its checkpoint: the commands and the turns that ended stay.
LEMMA GoodRestored ==
  ASSUME NEW n, NEW T, NEW w, Good(w, n, T), NEW resumes \in BOOLEAN
  PROVE  LET v == Restored(w, resumes)
         IN /\ Good(v, n + 1, T) /\ Leaves(w, v) /\ OneTurn(v) /\ v.child.state # "live"
<1> DEFINE back(c) ==
             CASE w.cmds[c].delivery \in {"sending", "received"} ->
                    [w.cmds[c] EXCEPT !.delivery = "uncertain"]
               [] c \in Untouched(w) -> [w.cmds[c] EXCEPT !.delivery = "unavailable"]
               [] w.cmds[c].status = "executing" ->
                    [w.cmds[c] EXCEPT !.status = "queued", !.resumed = TRUE]
               [] OTHER -> w.cmds[c]
           cmds == [c \in Commands |-> back(c)]
           x == [w EXCEPT !.cmds = cmds, !.pending = {}, !.sender = None,
                          !.turn = NoTurn, !.seal = NoSeal, !.child = NoChild,
                          !.chan = NewChannel, !.stdin = <<>>]
           v == Restored(w, resumes)
<1>1. w \in Session /\ w.cmds \in [Commands -> CommandType] /\ n \in Nat
  BY Fields DEF Good
<1>2. ASSUME NEW c \in Commands
      PROVE  /\ w.cmds[c].delivery \in {"sending", "received"} =>
                  cmds[c] = [w.cmds[c] EXCEPT !.delivery = "uncertain"]
             /\ c \in Untouched(w) => cmds[c] = [w.cmds[c] EXCEPT !.delivery = "unavailable"]
             /\ w.cmds[c].status = "executing" =>
                  cmds[c] = [w.cmds[c] EXCEPT !.status = "queued", !.resumed = TRUE]
             /\ \/ w.cmds[c].delivery \in {"sending", "received"} \/ c \in Untouched(w)
                \/ w.cmds[c].status = "executing" \/ cmds[c] = w.cmds[c]
  <2>1. cmds[c] = back(c)
    OBVIOUS
  <2>2. w.cmds[c].status = "executing" => w.cmds[c].delivery = "none"
    BY DEF Good, Tried
  <2>3. c \in Untouched(w) => w.cmds[c].delivery = "none" /\ w.cmds[c].status = "queued"
    BY DEF Untouched
  <2>4. CASE w.cmds[c].delivery \in {"sending", "received"}
    <3>1. back(c) = [w.cmds[c] EXCEPT !.delivery = "uncertain"]
      BY <2>2, <2>3, <2>4
    <3> QED
      BY <2>1, <2>2, <2>3, <2>4, <3>1
  <2>5. CASE c \in Untouched(w)
    <3>1. back(c) = [w.cmds[c] EXCEPT !.delivery = "unavailable"]
      BY <2>2, <2>3, <2>5
    <3> QED
      BY <2>1, <2>2, <2>3, <2>5, <3>1
  <2>6. CASE w.cmds[c].status = "executing"
    <3>1. back(c) = [w.cmds[c] EXCEPT !.status = "queued", !.resumed = TRUE]
      BY <2>2, <2>3, <2>6
    <3> QED
      BY <2>1, <2>2, <2>3, <2>6, <3>1
  <2>7. CASE /\ w.cmds[c].delivery \notin {"sending", "received"} /\ c \notin Untouched(w)
             /\ w.cmds[c].status # "executing"
    BY <2>1, <2>7
  <2> QED
    BY <2>4, <2>5, <2>6, <2>7
<1>3. v = IF resumes \/ Executing(w) = {} THEN x
          ELSE Left(x, CHOOSE c \in Executing(w) : TRUE, "done")
  BY DEF Restored
<1> HIDE DEF v, cmds
<1>4. ASSUME NEW c \in Commands
      PROVE  /\ cmds[c] \in CommandType
             /\ cmds[c].status = IF w.cmds[c].status = "executing" THEN "queued" ELSE w.cmds[c].status
             /\ cmds[c].mode = w.cmds[c].mode /\ cmds[c].target = w.cmds[c].target
             /\ cmds[c].resumed = (w.cmds[c].resumed \/ w.cmds[c].status = "executing")
             /\ w.cmds[c].delivery \in {"sending", "received"} => cmds[c].delivery = "uncertain"
             /\ c \in Untouched(w) => cmds[c].delivery = "unavailable"
             /\ \/ w.cmds[c].delivery \in {"sending", "received"} \/ c \in Untouched(w)
                \/ cmds[c].delivery = w.cmds[c].delivery
             /\ w.cmds[c].delivery = "uncertain" => cmds[c] = w.cmds[c]
  <2> DEFINE k == w.cmds[c]
  <2>1. k \in CommandType
    BY <1>1
  <2>2. /\ k.status = "executing" => k.delivery = "none"
        /\ k.delivery # "none" => k.status = "queued"
    BY DEF Good, Tried
  <2>3. c \in Untouched(w) => k.delivery = "none" /\ k.status = "queued"
    BY DEF Untouched
  <2>4. CASE k.delivery \in {"sending", "received"}
    <3>1. cmds[c] = [k EXCEPT !.delivery = "uncertain"]
      BY <1>2, <2>4
    <3> HIDE DEF k
    <3>2. /\ cmds[c] \in CommandType /\ cmds[c].delivery = "uncertain"
          /\ cmds[c].status = k.status /\ cmds[c].mode = k.mode /\ cmds[c].target = k.target
          /\ cmds[c].resumed = k.resumed
      BY <2>1, <3>1 DEF CommandType, Deliveries
    <3>3. k.resumed \in BOOLEAN /\ k.status = "queued" /\ k.delivery # "uncertain" /\ c \notin Untouched(w)
      BY <2>1, <2>2, <2>3, <2>4 DEF CommandType
    <3> QED
      BY <2>4, <3>2, <3>3 DEF k
  <2>5. CASE c \in Untouched(w)
    <3>1. cmds[c] = [k EXCEPT !.delivery = "unavailable"]
      BY <1>2, <2>5
    <3> HIDE DEF k
    <3>2. /\ cmds[c] \in CommandType /\ cmds[c].delivery = "unavailable"
          /\ cmds[c].status = k.status /\ cmds[c].mode = k.mode /\ cmds[c].target = k.target
          /\ cmds[c].resumed = k.resumed
      BY <2>1, <3>1 DEF CommandType, Deliveries
    <3>3. k.resumed \in BOOLEAN /\ k.status = "queued" /\ k.delivery = "none"
      BY <2>1, <2>3, <2>5 DEF CommandType
    <3> QED
      BY <2>5, <3>2, <3>3 DEF k
  <2>6. CASE k.status = "executing"
    <3>1. cmds[c] = [k EXCEPT !.status = "queued", !.resumed = TRUE]
      BY <1>2, <2>6
    <3> HIDE DEF k
    <3>2. /\ cmds[c] \in CommandType /\ cmds[c].delivery = k.delivery
          /\ cmds[c].status = "queued" /\ cmds[c].mode = k.mode /\ cmds[c].target = k.target
          /\ cmds[c].resumed = TRUE
      BY <2>1, <3>1 DEF CommandType, Statuses
    <3> QED
      BY <2>2, <2>3, <2>6, <3>2 DEF k
  <2>7. CASE /\ k.delivery \notin {"sending", "received"} /\ c \notin Untouched(w)
             /\ k.status # "executing"
    <3>1. cmds[c] = k
      BY <1>2, <2>7
    <3>2. k.resumed \in BOOLEAN
      BY <2>1 DEF CommandType
    <3> QED
      BY <2>1, <2>7, <3>1, <3>2
  <2> QED
    BY <2>4, <2>5, <2>6, <2>7
<1>5. cmds \in [Commands -> CommandType]
  <2>1. cmds = [c \in Commands |-> cmds[c]]
    BY DEF cmds
  <2> QED
    BY <1>4, <2>1
<1>6. /\ NoTurn \in TurnType /\ NoSeal \in SealType /\ NoChild \in ChildType
      /\ NewChannel \in ChannelType /\ <<>> \in Seq(ItemType) /\ <<>> \in Seq(WrittenType)
  BY NewChannelType DEF NoTurn, TurnType, NoSeal, SealType, NoChild, ChildType
<1>7. /\ x \in Session
      /\ x.queue = w.queue /\ x.cmds = cmds /\ x.followUps = w.followUps /\ x.given = w.given
      /\ x.pending = {} /\ x.sender = None /\ x.chan = NewChannel /\ x.stdin = <<>>
      /\ x.seal = NoSeal /\ x.turn = NoTurn /\ x.child = NoChild
  BY <1>1, <1>5, <1>6 DEF Session
<1> HIDE DEF x
<1>8. /\ NoTurn.inFlight = None /\ ~NoTurn.early /\ ~NoTurn.stopping
      /\ NoSeal.on = "no" /\ NoChild.state = "none"
      /\ NewChannel.due = {} /\ NewChannel.hold = FALSE
      /\ \A c \in Commands : NewChannel.phase[c] = "none"
  BY DEF NoTurn, NoSeal, NoChild, NewChannel
<1>9. Placed(x)
  <2>1. \A c \in Commands : c \in Members(x.queue) <=> x.cmds[c].status \in {"queued", "executing"}
    BY <1>4, <1>7 DEF Good, Placed
  <2>2. \A c \in Commands : x.cmds[c].status = "recorded" <=> w.cmds[c].status = "recorded"
    BY <1>4, <1>7
  <2> QED
    BY <1>7, <2>1, <2>2 DEF Good, Placed
<1>10. Tried(x)
  <2>1. ASSUME NEW c \in Commands, x.cmds[c].delivery # "none"
        PROVE  /\ x.cmds[c].status = "queued" /\ x.cmds[c].mode = "steer"
               /\ x.cmds[c].delivery # "unavailable" => x.cmds[c].target \in Commands
    <3>1. CASE c \in Untouched(w)
      BY <1>4, <1>7, <3>1 DEF Untouched
    <3>2. CASE c \notin Untouched(w)
      <4>1. w.cmds[c].delivery # "none"
        BY <1>4, <1>7, <2>1, <3>2
      <4>2. /\ w.cmds[c].status = "queued" /\ w.cmds[c].mode = "steer"
            /\ w.cmds[c].delivery # "unavailable" => w.cmds[c].target \in Commands
        BY <4>1 DEF Good, Tried
      <4> QED
        BY <1>4, <1>7, <3>2, <4>2
    <3> QED
      BY <3>1, <3>2
  <2> QED
    BY <2>1 DEF Tried
<1>11. OpenInputs(x)
  <2>1. Unsettled(x) = {}
    BY <1>7, <1>8 DEF Unsettled
  <2> QED
    BY <1>7, <1>8, <2>1 DEF OpenInputs
<1>12. TurnKnown(x)
  BY <1>7, <1>8 DEF TurnKnown
<1>13. TakenOnly(x, T)
  BY <1>4, <1>7, <1>8 DEF Good, TakenOnly
<1>14. GivenOnce(x, n + 1)
  <2>1. ASSUME NEW c \in Commands
        PROVE  /\ x.given[c] <= 1 + Again(x, c, n + 1)
               /\ x.cmds[c].status = "new" => x.given[c] = 0
               /\ x.cmds[c].status = "queued" /\ x.cmds[c].delivery \in {"none", "unavailable"}
                    => x.given[c] <= Again(x, c, n + 1)
    <3>1. w.given[c] \in Nat /\ x.given[c] = w.given[c]
      BY <1>1, <1>7, Fields
    <3>2. /\ w.given[c] <= 1 + Again(w, c, n)
          /\ w.cmds[c].status = "new" => w.given[c] = 0
          /\ w.cmds[c].status = "queued" /\ w.cmds[c].delivery \in {"none", "unavailable"}
               => w.given[c] <= Again(w, c, n)
      BY DEF Good, GivenOnce
    <3>3. Again(w, c, n) \in 0..n
      BY <1>1 DEF Again
    <3>4. CASE w.cmds[c].status = "executing"
      <4>1. Again(x, c, n + 1) = n + 1
        BY <1>4, <1>7, <3>4 DEF Again
      <4>2. x.cmds[c].status # "new"
        BY <1>4, <1>7, <3>4
      <4> QED
        BY <1>1, <3>1, <3>2, <3>3, <4>1, <4>2
    <3>5. CASE w.cmds[c].status # "executing"
      <4>1. x.cmds[c].resumed = w.cmds[c].resumed /\ x.cmds[c].status = w.cmds[c].status
        BY <1>1, <1>4, <1>7, <3>5 DEF CommandType
      <4>2. Again(x, c, n + 1) \in Nat /\ Again(w, c, n) <= Again(x, c, n + 1)
        BY <1>1, <4>1 DEF Again
      <4>3. x.cmds[c].delivery \in {"none", "unavailable"}
              => w.cmds[c].delivery \in {"none", "unavailable"}
        BY <1>4, <1>7 DEF Untouched
      <4> QED
        BY <1>1, <3>1, <3>2, <3>3, <4>1, <4>2, <4>3
    <3> QED
      BY <3>4, <3>5
  <2> QED
    BY <2>1 DEF GivenOnce
<1>15. Good(x, n + 1, T)
  <2>1. n + 1 \in Nat /\ x.stdin \in Seq(WrittenType)
    BY <1>1, <1>6, <1>7
  <2> QED
    BY <1>7, <1>9, <1>10, <1>11, <1>12, <1>13, <1>14, <2>1 DEF Good
<1>16. Leaves(w, x)
  BY <1>4, <1>7 DEF Leaves
<1>17. Executing(x) = {}
  BY <1>4, <1>7 DEF Executing, Status
<1>18. OneTurn(x)
  BY <1>7, <1>8, <1>17 DEF OneTurn
<1>19. CASE resumes \/ Executing(w) = {}
  <2>1. v = x
    BY <1>3, <1>19
  <2>2. Good(v, n + 1, T) /\ Leaves(w, v) /\ OneTurn(v) /\ v.child.state # "live"
    BY <1>7, <1>8, <1>15, <1>16, <1>18, <2>1
  <2> QED
    BY <2>2 DEF v
<1>20. CASE ~resumes /\ Executing(w) # {}
  <2> DEFINE b == CHOOSE c \in Executing(w) : TRUE
             u == Left(x, b, "done")
  <2>1. b \in Commands /\ w.cmds[b].status = "executing"
    BY <1>20 DEF Executing, Status
  <2>2. v = u
    BY <1>3, <1>20
  <2> HIDE DEF b
  <2>3. /\ x.cmds[b].status = "queued" /\ b \notin x.pending
        /\ w.cmds[b].delivery = "none" /\ x.cmds[b].delivery # "uncertain"
    BY <1>4, <1>7, <2>1 DEF Good, Tried, Untouched
  <2>4. /\ Good(u, n + 1, T) /\ u.pending = x.pending /\ u.turn = x.turn /\ u.seal = x.seal
        /\ u.child = x.child /\ Leaves(x, u) /\ u.cmds[b].status = "done"
        /\ \A d \in Commands : d # b => u.cmds[d] = x.cmds[d]
    BY <1>15, <2>1, <2>3, GoodLeft
  <2> HIDE DEF u
  <2>5. Executing(u) = {}
    BY <1>17, <2>4 DEF Executing, Status
  <2>6. OneTurn(u)
    BY <1>7, <1>8, <2>4, <2>5 DEF OneTurn
  <2>7. Leaves(w, u)
    BY <1>16, <2>4, LeavesAll
  <2>8. Good(v, n + 1, T) /\ Leaves(w, v) /\ OneTurn(v) /\ v.child.state # "live"
    BY <1>7, <1>8, <2>2, <2>4, <2>6, <2>7
  <2> QED
    BY <2>8 DEF v
<1> QED
  BY <1>19, <1>20

(***************************************************************************)
(* The steps of the server.                                                *)
(***************************************************************************)
\* What a step of the server does to the session, unless it learns from the transcript.
Handled(w, v, n, T) == Good(v, n, T) /\ Leaves(w, v) /\ Orderly(w, v)

LEMMA HandledBeside ==
  ASSUME NEW n, NEW T, NEW w, NEW x, NEW v, Leaves(w, x), Beside(w, x), x.pending = w.pending,
         Handled(x, v, n, T)
  PROVE  Handled(w, v, n, T)
<1>1. Executing(x) = Executing(w) /\ (OneTurn(w) => OneTurn(x))
  BY OrderlyBeside DEF Beside, Orderly
<1>2. Orderly(w, v)
  BY <1>1, OrderlyAfter DEF Handled, Beside, GivesUp
<1> QED
  BY <1>2, LeavesAll DEF Handled

\* The next command starts after a step that ended none.
LEMMA HandledThenNext ==
  ASSUME NEW n, NEW T, NEW w, NEW x, Good(x, n, T), Leaves(w, x), Beside(w, x)
  PROVE  Handled(w, ProcessNext(x), n, T)
<1> DEFINE v == ProcessNext(x)
<1>1. Good(v, n, T) /\ Leaves(x, v) /\ Starts(x, v)
  BY GoodProcessNext
<1> HIDE DEF v
<1>2. Orderly(w, x) /\ Orderly(x, v)
  BY <1>1, OrderlyBeside, OrderlyStarts
<1>3. Executing(w) \subseteq Executing(v)
  BY <1>1, StartsFinishesNothing DEF Beside
<1>4. Orderly(w, v)
  BY <1>2, <1>3, OrderlyWhileNoneEnds DEF Orderly
<1> QED
  BY <1>1, <1>4, LeavesAll DEF Handled, v

LEMMA HandledPost ==
  ASSUME NEW n, NEW T, NEW w, Good(w, n, T), NEW c \in Commands, NEW m \in Modes,
         w.cmds[c].status = "new"
  PROVE  Handled(w, Dispatched([w EXCEPT !.queue = Append(@, c), !.cmds[c].mode = m,
                                         !.cmds[c].status = "queued"], c, m), n, T)
<1> DEFINE x == [w EXCEPT !.queue = Append(@, c), !.cmds[c].mode = m,
                          !.cmds[c].status = "queued"]
           k == [w.cmds[c] EXCEPT !.mode = m, !.status = "queued"]
           q == Append(w.queue, c)
<1>1. w \in Session /\ w.cmds \in [Commands -> CommandType] /\ w.queue \in Seq(Commands)
      /\ w.cmds[c] \in CommandType
  BY Fields DEF Good
<1>2. w.cmds[c].delivery = "none" /\ c \notin Members(w.queue) /\ c \notin w.pending
      /\ NoRepeat(w.queue)
  BY DEF Good, Tried, Placed, OpenInputs
<1>3. q \in Seq(Commands) /\ NoRepeat(q) /\ Members(q) = Members(w.queue) \cup {c}
  BY <1>1, <1>2, PutLast
<1>4. /\ k \in CommandType /\ k.status = "queued" /\ k.delivery = "none"
      /\ k.resumed = w.cmds[c].resumed
  BY <1>1, <1>2 DEF CommandType, Statuses
<1>5. x = Queued(w, c, k, q)
  BY <1>1 DEF Queued, Session, CommandType
<1> HIDE DEF x, k, q
<1>6. /\ Good(x, n, T) /\ Leaves(w, x) /\ Beside(w, x) /\ x.pending = w.pending
      /\ x.cmds[c] = k
  BY <1>2, <1>3, <1>4, <1>5, GoodQueued
<1>7. Handled(x, Dispatched(x, c, m), n, T)
  BY <1>4, <1>6, GoodDispatched DEF Handled
<1> QED
  BY <1>6, <1>7, HandledBeside DEF x

LEMMA HandledMode ==
  ASSUME NEW n, NEW T, NEW w, Good(w, n, T), NEW c \in Commands, NEW m \in Modes,
         w.cmds[c].status = "queued", ~Locked(w, c)
  PROVE  LET x == [w EXCEPT !.cmds[c].mode = m, !.cmds[c].delivery = "none"]
         IN Handled(w, x, n, T) /\ Handled(w, Dispatched(x, c, m), n, T)
<1> DEFINE x == [w EXCEPT !.cmds[c].mode = m, !.cmds[c].delivery = "none"]
           k == [w.cmds[c] EXCEPT !.mode = m, !.delivery = "none"]
           q == w.queue
<1>1. w \in Session /\ w.cmds \in [Commands -> CommandType] /\ w.queue \in Seq(Commands)
      /\ w.cmds[c] \in CommandType
  BY Fields DEF Good
<1>2. w.cmds[c].delivery \in {"none", "unavailable"} /\ c \notin w.pending
  BY <1>1 DEF Locked, CommandType, Deliveries
<1>3. q \in Seq(Commands) /\ NoRepeat(q) /\ Members(q) = Members(w.queue) \cup {c}
  BY <1>1 DEF Good, Placed
<1>4. /\ k \in CommandType /\ k.status = "queued" /\ k.delivery = "none"
      /\ k.resumed = w.cmds[c].resumed
  BY <1>1 DEF CommandType, Deliveries
<1>5. x = Queued(w, c, k, q)
  BY <1>1 DEF Queued, Session, CommandType
<1> HIDE DEF x, k, q
<1>6. /\ Good(x, n, T) /\ Leaves(w, x) /\ Beside(w, x) /\ x.pending = w.pending
      /\ x.cmds[c] = k
  BY <1>2, <1>3, <1>4, <1>5, GoodQueued
<1>7. Handled(x, Dispatched(x, c, m), n, T)
  BY <1>4, <1>6, GoodDispatched DEF Handled
<1>8. Handled(w, x, n, T)
  BY <1>6, OrderlyBeside DEF Handled
<1>9. Handled(w, Dispatched(x, c, m), n, T)
  BY <1>6, <1>7, HandledBeside
<1> QED
  BY <1>8, <1>9 DEF x

\* A command that runs may be deleted while its process goes on: then a turn is no longer one.
LEMMA HandledDelete ==
  ASSUME NEW n, NEW T, NEW w, Good(w, n, T), NEW c \in Commands, ~Locked(w, c),
         w.cmds[c].status \in {"queued", "executing"}
  PROVE  LET x == Left(w, c, "deleted")
         IN /\ Good(x, n, T) /\ Leaves(w, x) /\ EndsInOrder(w, x)
            /\ w.cmds[c].status = "queued" => Handled(w, ProcessNext(x), n, T)
<1> DEFINE x == Left(w, c, "deleted")
<1>1. c \notin w.pending /\ w.cmds[c].delivery # "uncertain"
  BY DEF Locked
<1>2. /\ Good(x, n, T) /\ Leaves(w, x)
      /\ x.pending = w.pending /\ x.turn = w.turn /\ x.seal = w.seal /\ x.child = w.child
      /\ x.cmds[c].status = "deleted" /\ \A d \in Commands : d # c => x.cmds[d] = w.cmds[d]
  BY <1>1, GoodLeft
<1> HIDE DEF x
<1>3. EndsInOrder(w, x)
  BY <1>2 DEF EndsInOrder, Finishes, Executing, Status
<1>4. w.pending \subseteq Commands
  BY Fields DEF Good
<1>5. w.cmds[c].status = "queued" => Beside(w, x)
  BY <1>1, <1>2, <1>4 DEF Beside, Executing, Status
<1>6. w.cmds[c].status = "queued" => Handled(w, ProcessNext(x), n, T)
  BY <1>2, <1>5, HandledThenNext
<1> QED
  BY <1>2, <1>3, <1>6 DEF x

LEMMA HandledReorder ==
  ASSUME NEW n, NEW T, NEW w, Good(w, n, T), NEW i \in DOMAIN w.queue, NEW j \in DOMAIN w.queue
  PROVE  Handled(w, [w EXCEPT !.queue = Moved(@, i, j)], n, T)
<1> DEFINE q == Moved(w.queue, i, j)
           v == [w EXCEPT !.queue = q]
<1>1. w \in Session /\ w.queue \in Seq(Commands) /\ NoRepeat(w.queue)
  BY Fields DEF Good, Placed
<1>2. q \in Seq(Commands) /\ NoRepeat(q) /\ Members(q) = Members(w.queue)
  BY <1>1, PutElsewhere
<1>3. v = [w EXCEPT !.queue = Moved(@, i, j)]
  BY <1>1 DEF Session
<1> HIDE DEF q
<1>4. Good(v, n, T) /\ Leaves(w, v) /\ Beside(w, v)
  BY <1>2, GoodRequeued
<1> HIDE DEF v
<1>5. Handled(w, v, n, T)
  BY <1>4, OrderlyBeside DEF Handled
<1> QED
  BY <1>3, <1>5

LEMMA HandledStop ==
  ASSUME NEW n, NEW T, NEW w, Good(w, n, T)
  PROVE  Handled(w, SealedIfDead(Stop(WithoutDropped(w))), n, T)
<1> DEFINE x == WithoutDropped(w)
           y == Stop(x)
           v == SealedIfDead(y)
<1>1. Good(x, n, T) /\ Leaves(w, x) /\ Beside(w, x) /\ x.pending = w.pending
  BY GoodWithoutDropped
<1> HIDE DEF x
<1>2. Good(y, n, T) /\ Leaves(x, y) /\ Orderly(x, y) /\ y.child.state # "live"
  BY <1>1, GoodStop
<1> HIDE DEF y
<1>3. Good(v, n, T) /\ Leaves(y, v) /\ Orderly(y, v) /\ v.child.state # "live"
  BY <1>2, GoodSealedIfDead
<1> HIDE DEF v
<1>4. Handled(x, v, n, T)
  BY <1>2, <1>3, LeavesAll, OrderlyAllStopped DEF Handled
<1>5. Handled(w, v, n, T)
  BY <1>1, <1>4, HandledBeside
<1> QED
  BY <1>5 DEF v, y, x

LEMMA HandledHeldResult ==
  ASSUME NEW n, NEW T, NEW w, Good(w, n, T), w.chan.due = {}, w.chan.hold,
         w.chan.waitFor \cap Unsettled(w) = {}
  PROVE  Handled(w, ResultEnds(NoHold(w)), n, T)
<1> DEFINE x == NoHold(w)
           v == ResultEnds(x)
<1>1. w.pending = {}
  BY DEF Good, OpenInputs
<1>2. Good(x, n, T) /\ Leaves(w, x) /\ ChannelOnly(w, x)
  BY GoodNoHold
<1> HIDE DEF x
<1>3. Beside(w, x) /\ x.pending = w.pending
  BY <1>2, ChannelOnlyIsBeside, ChannelOnlyFields DEF Good
<1>4. Good(v, n, T) /\ Leaves(x, v) /\ Closes(x, v)
  BY <1>1, <1>2, <1>3, GoodResultEnds
<1> HIDE DEF v
<1>5. Handled(x, v, n, T)
  BY <1>1, <1>2, <1>3, <1>4, OrderlyCloses DEF Handled
<1>6. Handled(w, v, n, T)
  BY <1>2, <1>3, <1>5, HandledBeside
<1> QED
  BY <1>6 DEF v, x

LEMMA HandledSeal ==
  ASSUME NEW n, NEW T, NEW w, Good(w, n, T), w.seal.on # "no"
  PROVE  Handled(w, RunSeal(w, w.seal), n, T)
<1> DEFINE v == RunSeal(w, w.seal)
<1>1. Runnable(w, w.seal)
  BY Fields DEF Runnable, Good, TurnKnown
<1>2. Good(v, n, T) /\ Leaves(w, v) /\ RanSeal(w, v, w.seal)
  BY <1>1, GoodRunSeal
<1> HIDE DEF v
<1>3. GivesUp(w) \/ w.pending = {}
  BY DEF Good, OpenInputs, GivesUp
<1>4. OneTurn(w) /\ w.seal.on = "turn" => w.seal.of = w.turn.inFlight
  BY DEF OneTurn
<1>5. Handled(w, v, n, T)
  BY <1>1, <1>2, <1>3, <1>4, OrderlyRunSeal DEF Handled
<1> QED
  BY <1>5 DEF v

LEMMA HandledInterruptExpires ==
  ASSUME NEW n, NEW T, NEW w, Good(w, n, T)
  PROVE  LET x == [w EXCEPT !.turn.fallback = FALSE]
         IN Handled(w, IF x.seal.on # "no" THEN RunSeal(x, x.seal) ELSE Stop(x), n, T)
<1> DEFINE x == [w EXCEPT !.turn.fallback = FALSE]
           turn == [w.turn EXCEPT !.fallback = FALSE]
           v == IF x.seal.on # "no" THEN RunSeal(x, x.seal) ELSE Stop(x)
<1>1. w \in Session /\ w.turn \in TurnType
  BY Fields DEF Good
<1>2. turn \in TurnType /\ turn.inFlight = w.turn.inFlight /\ turn.early = w.turn.early
      /\ turn.stopping = w.turn.stopping /\ turn.spoke = w.turn.spoke
  BY <1>1 DEF TurnType
<1>3. x = [w EXCEPT !.turn = turn]
  BY <1>1 DEF Session
<1> HIDE DEF turn
<1>4. /\ x \in Session
      /\ x.queue = w.queue /\ x.cmds = w.cmds /\ x.followUps = w.followUps /\ x.given = w.given
      /\ x.pending = w.pending /\ x.sender = w.sender /\ x.chan = w.chan /\ x.stdin = w.stdin
      /\ x.seal = w.seal /\ x.turn = turn /\ x.child = w.child
  BY <1>1, <1>2, <1>3 DEF Session
<1> HIDE DEF x
<1>5. Good(x, n, T) /\ Leaves(w, x) /\ Same(w, x)
  BY <1>2, <1>4, Cleaned
<1>6. Handled(x, v, n, T)
  BY <1>5, HandledSeal, GoodStop DEF Handled
<1>7. Executing(x) = Executing(w) /\ Orderly(w, x)
  BY <1>4, <1>5, OrderlySame DEF Executing, Status
<1> HIDE DEF v
<1>8. Orderly(w, v)
  BY <1>2, <1>4, <1>6, <1>7, OrderlyAfter DEF Handled, Orderly, GivesUp
<1>9. Handled(w, v, n, T)
  BY <1>5, <1>6, <1>8, LeavesAll DEF Handled
<1> QED
  BY <1>9 DEF v, x

LEMMA HandledExit ==
  ASSUME NEW n, NEW T, NEW w, Good(w, n, T), w.child.state # "none"
  PROVE  Handled(w, [Cancel(w) EXCEPT !.child.state = "exited", !.stdin = <<>>], n, T)
<1> DEFINE x == Cancel(w)
           child == [w.child EXCEPT !.state = "exited"]
           v == [x EXCEPT !.child.state = "exited", !.stdin = <<>>]
<1>1. w \in Session /\ w.child \in ChildType /\ w.turn \in TurnType
  BY Fields DEF Good
<1>2. child \in ChildType /\ child.state = "exited" /\ <<>> \in Seq(WrittenType)
  BY <1>1 DEF ChildType
<1>3. x \in Session /\ x.child = w.child /\ x.turn = w.turn
  BY <1>1, GoodCancel, ChannelOnlyFields DEF Good
<1>4. CancelEnding(w, child, w.turn, <<>>)
        = [[x EXCEPT !.child = child] EXCEPT !.turn = w.turn, !.stdin = <<>>]
  BY <1>1, <1>2, CancelBesideProcess DEF CancelEnding
<1> HIDE DEF x
<1>5. v = CancelEnding(w, child, w.turn, <<>>)
  BY <1>3, <1>4 DEF Session
<1> HIDE DEF v, child
<1>6. Good(v, n, T) /\ Leaves(w, v) /\ Orderly(w, v)
  BY <1>1, <1>2, <1>5, GoodCancelEnding
<1> QED
  BY <1>6 DEF Handled, v, x

\* What the transcript shows to have been taken is recorded; the others stay.
LEMMA GoodSettleLocked ==
  ASSUME NEW n, NEW T, NEW w, Good(w, n, T), NEW c \in Commands, LockedRecord(w, c), c \in T
  PROVE  LET v == SettleLocked(w, c)
         IN /\ Good(v, n, T) /\ Orderly(w, v) /\ v.given = w.given
            /\ v.cmds[c].status = "recorded"
            /\ \A d \in Commands : d # c => v.cmds[d] = w.cmds[d]
<1> DEFINE b == w.cmds[c].target
<1>1. w.cmds[c].status = "queued" /\ w.cmds[c].delivery = "uncertain"
  BY DEF LockedRecord
<1>2. b \in Commands /\ c \notin w.pending
  BY <1>1 DEF Good, Tried, OpenInputs
<1>3. c \notin Members(w.followUps[b])
  BY <1>1, <1>2 DEF Good, Placed
<1>4. SettleLocked(w, c) = Record(w, c, b)
  BY <1>3 DEF SettleLocked
<1> HIDE DEF b
<1> QED
  BY <1>1, <1>2, <1>4, GoodRecord, OrderlyBeside

\* What any step does to the session; only a delete request that meets a command that has begun,
\* and a death noticed while the end of a turn is held, break up a turn.
Learns(w, v, T) ==
  \A c \in Commands : w.cmds[c].delivery = "uncertain" =>
    \/ v.cmds[c] = w.cmds[c] /\ v.given[c] = w.given[c]
    \/ v.cmds[c].status = "recorded" /\ c \in T
Advances(w, v, n, T) ==
  /\ Good(v, n, T) /\ Learns(w, v, T) /\ EndsInOrder(w, v)
  /\ ~ClosesInGrace /\ Deletable \subseteq {"queued"} => Orderly(w, v)

LEMMA HandledAdvances ==
  ASSUME NEW n, NEW T, NEW w, NEW v, Handled(w, v, n, T)
  PROVE  Advances(w, v, n, T)
BY DEF Handled, Advances, Leaves, Learns, Orderly

LEMMA UserAdvances ==
  ASSUME TurnsInv, User
  PROVE  /\ Advances(session, session', engine.restarts, engine.took)
         /\ stdout' = stdout /\ engine' = engine
<1> DEFINE n == engine.restarts
           T == engine.took
<1>0. Good(session, n, T)
  BY DEF TurnsInv
<1> HIDE DEF n, T
<1> USE DEF Become
<1>1. ASSUME NEW c \in Commands, NEW m \in Modes, Post(c, m)
      PROVE  Advances(session, session', n, T) /\ stdout' = stdout /\ engine' = engine
  <2>1. Handled(session, session', n, T)
    BY <1>0, <1>1, HandledPost DEF Post
  <2> QED
    BY <1>1, <2>1, HandledAdvances DEF Post
<1>2. ASSUME NEW c \in Commands, NEW m \in Modes, ChangeMode(c, m)
      PROVE  Advances(session, session', n, T) /\ stdout' = stdout /\ engine' = engine
  <2> DEFINE x == [session EXCEPT !.cmds[c].mode = m, !.cmds[c].delivery = "none"]
  <2>1. session' \in {x, Dispatched(x, c, m)} /\ stdout' = stdout /\ engine' = engine
    BY <1>2 DEF ChangeMode
  <2>2. session.cmds[c].status = "queued" /\ ~Locked(session, c)
    BY <1>2 DEF ChangeMode
  <2>3. Handled(session, x, n, T) /\ Handled(session, Dispatched(x, c, m), n, T)
    BY <1>0, <2>2, HandledMode
  <2> HIDE DEF x
  <2>4. Handled(session, session', n, T)
    BY <2>1, <2>3
  <2> QED
    BY <2>1, <2>4, HandledAdvances
<1>3. ASSUME NEW c \in Commands, Delete(c)
      PROVE  Advances(session, session', n, T) /\ stdout' = stdout /\ engine' = engine
  <2> DEFINE x == Left(session, c, "deleted")
  <2>1. session' = (IF session.cmds[c].status = "queued" THEN ProcessNext(x) ELSE x)
        /\ stdout' = stdout /\ engine' = engine
    BY <1>3 DEF Delete
  <2>2. session.cmds[c].status \in Deletable /\ ~Locked(session, c)
    BY <1>3 DEF Delete
  <2>3. /\ Good(x, n, T) /\ Leaves(session, x) /\ EndsInOrder(session, x)
        /\ session.cmds[c].status = "queued" => Handled(session, ProcessNext(x), n, T)
    BY <1>0, <2>2, HandledDelete, SessionAssumption
  <2> HIDE DEF x
  <2>4. CASE session.cmds[c].status = "queued"
    BY <2>1, <2>3, <2>4, HandledAdvances
  <2>5. CASE session.cmds[c].status # "queued"
    <3>1. ~(Deletable \subseteq {"queued"})
      BY <2>2, <2>5
    <3>2. session' = x
      BY <2>1, <2>5
    <3>3. Learns(session, x, T)
      BY <2>3 DEF Leaves, Learns
    <3> QED
      BY <2>1, <2>3, <3>1, <3>2, <3>3 DEF Advances
  <2> QED
    BY <2>4, <2>5
<1>4. ASSUME NEW i \in DOMAIN session.queue, NEW j \in DOMAIN session.queue, Reorder(i, j)
      PROVE  Advances(session, session', n, T) /\ stdout' = stdout /\ engine' = engine
  <2>1. Handled(session, session', n, T)
    BY <1>0, <1>4, HandledReorder DEF Reorder
  <2> QED
    BY <1>4, <2>1, HandledAdvances DEF Reorder
<1>5. ASSUME StopSession
      PROVE  Advances(session, session', n, T) /\ stdout' = stdout /\ engine' = engine
  <2>1. Handled(session, session', n, T)
    BY <1>0, <1>5, HandledStop DEF StopSession
  <2> QED
    BY <1>5, <2>1, HandledAdvances DEF StopSession
<1>6. Advances(session, session', n, T) /\ stdout' = stdout /\ engine' = engine
  BY <1>1, <1>2, <1>3, <1>4, <1>5 DEF User
<1> QED
  BY <1>6 DEF n, T

\* The timers, the continuations and the watchdog.
Timers ==
  \/ HeldResultEnds \/ EarlyResultExpires \/ SealExpires \/ InterruptExpires
  \/ StopSettles \/ ChildCloses \/ Watchdog
  \/ \E c \in Commands : Continue(c) \/ ReceiptTimesOut(c) \/ TranscriptShows(c)

LEMMA TimersAdvance ==
  ASSUME TurnsInv, Timers
  PROVE  /\ Advances(session, session', engine.restarts, engine.took)
         /\ stdout' = stdout /\ engine' = engine
<1> DEFINE n == engine.restarts
           T == engine.took
<1>0. Good(session, n, T)
  BY DEF TurnsInv
<1>c. ASSUME NEW c, TranscriptShows(c)
      PROVE  c \in T
  BY <1>c DEF TranscriptShows
<1> HIDE DEF n, T
<1> USE DEF Become
<1>1. ASSUME HeldResultEnds
      PROVE  Advances(session, session', n, T) /\ stdout' = stdout /\ engine' = engine
  <2>1. Handled(session, session', n, T)
    BY <1>0, <1>1, HandledHeldResult DEF HeldResultEnds, Quiet
  <2> QED
    BY <1>1, <2>1, HandledAdvances DEF HeldResultEnds
<1>2. ASSUME EarlyResultExpires
      PROVE  Advances(session, session', n, T) /\ stdout' = stdout /\ engine' = engine
  <2> DEFINE v == SealInFlight(session)
  <2>1. session' = v /\ stdout' = stdout /\ engine' = engine
        /\ session.turn.early
    BY <1>2 DEF EarlyResultExpires
  <2>2. session.turn.inFlight # None /\ ~session.turn.spoke /\ GivesUp(session)
    BY <1>0, <2>1 DEF Good, TurnKnown, GivesUp
  <2>3. Good(v, n, T) /\ Leaves(session, v) /\ Closes(session, v)
    BY <1>0, <2>1, <2>2, GoodSealInFlight
  <2> HIDE DEF v
  <2>4. Handled(session, v, n, T)
    BY <1>0, <2>1, <2>2, <2>3, OrderlyCloses DEF Handled
  <2> QED
    BY <2>1, <2>4, HandledAdvances
<1>3. ASSUME SealExpires
      PROVE  Advances(session, session', n, T) /\ stdout' = stdout /\ engine' = engine
  <2>1. Handled(session, session', n, T)
    BY <1>0, <1>3, HandledSeal DEF SealExpires
  <2> QED
    BY <1>3, <2>1, HandledAdvances DEF SealExpires
<1>4. ASSUME InterruptExpires
      PROVE  Advances(session, session', n, T) /\ stdout' = stdout /\ engine' = engine
  <2>1. Handled(session, session', n, T)
    BY <1>0, <1>4, HandledInterruptExpires DEF InterruptExpires
  <2> QED
    BY <1>4, <2>1, HandledAdvances DEF InterruptExpires
<1>5. ASSUME StopSettles
      PROVE  Advances(session, session', n, T) /\ stdout' = stdout /\ engine' = engine
  <2>1. session' = SettleStopped(session) /\ stdout' = stdout /\ engine' = engine
        /\ session.turn.stopping
    BY <1>5 DEF StopSettles
  <2>2. session.child.state \in {"closing", "exited"}
    BY <1>0, <2>1 DEF Good, TurnKnown
  <2>3. Handled(session, session', n, T)
    BY <1>0, <2>1, <2>2, GoodSettleStopped DEF Handled
  <2> QED
    BY <2>1, <2>3, HandledAdvances
<1>6. ASSUME ChildCloses
      PROVE  Advances(session, session', n, T) /\ stdout' = stdout /\ engine' = engine
  <2> DEFINE v == Closed(session)
  <2>1. session' = v /\ stdout' = stdout /\ engine' = engine
        /\ session.child.state = "exited"
        /\ (ClosesInGrace \/ session.child.intentional \/ session.seal.on # "turn")
    BY <1>6 DEF ChildCloses
  <2>2. /\ Good(v, n, T) /\ Leaves(session, v) /\ EndsInOrder(session, v)
        /\ (session.child.intentional \/ session.seal.on # "turn") => Orderly(session, v)
    BY <1>0, <2>1, GoodClosed
  <2> HIDE DEF v
  <2> QED
    BY <2>1, <2>2 DEF Advances, Leaves, Learns
<1>7. ASSUME Watchdog
      PROVE  Advances(session, session', n, T) /\ stdout' = stdout /\ engine' = engine
  <2>1. Handled(session, session', n, T)
    BY <1>0, <1>7, HandledThenNext, LeavesItself, BesideItself DEF Watchdog
  <2> QED
    BY <1>7, <2>1, HandledAdvances DEF Watchdog
<1>8. ASSUME NEW c \in Commands, Continue(c)
      PROVE  Advances(session, session', n, T) /\ stdout' = stdout /\ engine' = engine
  <2> DEFINE x == Concluded(session, c)
  <2>1. session' = ProcessNext(x) /\ stdout' = stdout /\ engine' = engine
        /\ c \in session.chan.due
    BY <1>8 DEF Continue
  <2>2. Good(x, n, T) /\ Leaves(session, x) /\ Beside(session, x)
    BY <1>0, <2>1, GoodConcluded
  <2> HIDE DEF x
  <2>3. Handled(session, session', n, T)
    BY <2>1, <2>2, HandledThenNext
  <2> QED
    BY <2>1, <2>3, HandledAdvances
<1>9. ASSUME NEW c \in Commands, ReceiptTimesOut(c)
      PROVE  Advances(session, session', n, T) /\ stdout' = stdout /\ engine' = engine
  <2> DEFINE v == Reject(session, {c})
  <2>1. session' = v /\ stdout' = stdout /\ engine' = engine
    BY <1>9 DEF ReceiptTimesOut
  <2>2. Good(v, n, T) /\ Leaves(session, v) /\ ChannelOnly(session, v)
    BY <1>0, GoodReject
  <2> HIDE DEF v
  <2>3. Beside(session, v)
    BY <1>0, <2>2, ChannelOnlyIsBeside DEF Good
  <2>4. Handled(session, session', n, T)
    BY <2>1, <2>2, <2>3, OrderlyBeside DEF Handled
  <2> QED
    BY <2>1, <2>4, HandledAdvances
<1>10. ASSUME NEW c \in Commands, TranscriptShows(c)
       PROVE  Advances(session, session', n, T) /\ stdout' = stdout /\ engine' = engine
  <2> DEFINE v == SettleLocked(session, c)
  <2>1. session' = v /\ stdout' = stdout /\ engine' = engine /\ LockedRecord(session, c)
    BY <1>10 DEF TranscriptShows
  <2>2. c \in T
    BY <1>10, <1>c
  <2>3. /\ Good(v, n, T) /\ Orderly(session, v) /\ v.given = session.given
        /\ v.cmds[c].status = "recorded"
        /\ \A d \in Commands : d # c => v.cmds[d] = session.cmds[d]
    BY <1>0, <2>1, <2>2, GoodSettleLocked
  <2> HIDE DEF v
  <2>4. Learns(session, v, T)
    BY <2>2, <2>3 DEF Learns
  <2> QED
    BY <2>1, <2>3, <2>4 DEF Advances, Orderly
<1>11. Advances(session, session', n, T) /\ stdout' = stdout /\ engine' = engine
  BY <1>1, <1>2, <1>3, <1>4, <1>5, <1>6, <1>7, <1>8, <1>9, <1>10 DEF Timers
<1> QED
  BY <1>11 DEF n, T

(***************************************************************************)
(* The engine.                                                             *)
(***************************************************************************)
\* The engine takes more and more.
LEMMA GoodMore ==
  ASSUME NEW n, NEW T, NEW U, T \subseteq U, NEW w, Good(w, n, T)
  PROVE  Good(w, n, U)
<1>1. TakenOnly(w, U)
  BY DEF Good, TakenOnly
<1> QED
  BY <1>1 DEF Good

LEMMA SaidMore ==
  ASSUME NEW T, NEW U, T \subseteq U, NEW lines \in Seq(SaidType(T))
  PROVE  /\ lines \in Seq(SaidType(U))
         /\ \A line \in SaidType(U) : Append(lines, line) \in Seq(SaidType(U))
<1>1. SaidType(T) \subseteq SaidType(U)
  BY DEF SaidType
<1> QED
  BY <1>1

LEMMA LinesSaid ==
  ASSUME NEW T
  PROVE  /\ \A c \in Commands : Line("queued", c) \in SaidType(T)
         /\ \A c \in T : Line("taken", c) \in SaidType(T)
         /\ \A k \in {"says", "taskStart", "taskEnd"} : Line(k, None) \in SaidType(T)
         /\ \A left \in BOOLEAN : \A names \in SUBSET T : ResultLine(left, names) \in SaidType(T)
<1>1. ASSUME NEW left \in BOOLEAN, NEW names \in SUBSET T
      PROVE  ResultLine(left, names) \in SaidType(T)
  <2>1. ResultLine(left, names) \in [kind : {"result"}, left : BOOLEAN, names : SUBSET T]
    BY DEF ResultLine
  <2> QED
    BY <2>1 DEF SaidType
<1>2. /\ \A c \in Commands : Line("queued", c) \in SaidType(T)
      /\ \A c \in T : Line("taken", c) \in SaidType(T)
      /\ \A k \in {"says", "taskStart", "taskEnd"} : Line(k, None) \in SaidType(T)
  BY DEF Line, SaidType
<1> QED
  BY <1>1, <1>2

LEMMA WrittenIsItem ==
  ASSUME NEW q
  PROVE  /\ q \in Seq(WrittenType) => q \in Seq(ItemType)
         /\ q \in Seq(UnreadType) => q \in Seq(ItemType)
<1>1. WrittenType \subseteq ItemType /\ UnreadType \subseteq ItemType
  BY DEF WrittenType, UnreadType, ItemType
<1> QED
  BY <1>1

\* A step of the engine that keeps the count of restarts and takes at least what it took.
EngineMoves(e, f) == f.restarts = e.restarts /\ e.took \subseteq f.took

LEMMA EngineGoes ==
  ASSUME NEW e, NEW lines, EngineGood(e, lines), NEW f, f \in EngineType, EngineMoves(e, f),
         f.waiting \in Seq(UnreadType), f.named \subseteq f.took,
         NEW more, more = lines \/ \E line \in SaidType(f.took) : more = Append(lines, line)
  PROVE  EngineGood(f, more)
<1>1. lines \in Seq(SaidType(e.took)) /\ e.took \subseteq f.took
  BY DEF EngineGood, EngineMoves
<1>2. more \in Seq(SaidType(f.took))
  BY <1>1, SaidMore
<1> QED
  BY <1>2 DEF EngineGood

\* What an input that is no longer waiting leaves.
LEMMA OneFewer ==
  ASSUME NEW X, NEW q \in Seq(X), NEW i \in DOMAIN q
  PROVE  SubSeq(q, 1, i - 1) \o SubSeq(q, i + 1, Len(q)) \in Seq(X)
<1>1. SubSeq(q, 1, i - 1) \in Seq(X) /\ SubSeq(q, i + 1, Len(q)) \in Seq(X)
  OBVIOUS
<1> QED
  BY <1>1

LEMMA HandledReading ==
  ASSUME NEW n, NEW T, NEW w, Good(w, n, T), w.stdin # <<>>
  PROVE  /\ Handled(w, [w EXCEPT !.stdin = Tail(@)], n, T)
         /\ Head(w.stdin) \in WrittenType
<1> DEFINE stdin == Tail(w.stdin)
           v == [w EXCEPT !.stdin = stdin]
<1>1. w \in Session /\ w.stdin \in Seq(WrittenType)
  BY DEF Good
<1>2. stdin \in Seq(WrittenType) /\ Head(w.stdin) \in WrittenType
  BY <1>1
<1>3. stdin \in Seq(ItemType)
  BY <1>2, WrittenIsItem
<1>4. v = [w EXCEPT !.stdin = Tail(@)]
  BY <1>1 DEF Session
<1> HIDE DEF stdin
<1>5. /\ v \in Session
      /\ v.queue = w.queue /\ v.cmds = w.cmds /\ v.followUps = w.followUps /\ v.given = w.given
      /\ v.pending = w.pending /\ v.sender = w.sender /\ v.chan = w.chan /\ v.stdin = stdin
      /\ v.seal = w.seal /\ v.turn = w.turn /\ v.child = w.child
  BY <1>1, <1>3 DEF Session
<1> HIDE DEF v
<1>6. TurnKnown(v) /\ v.stdin \in Seq(WrittenType)
  BY <1>2, <1>5 DEF Good, TurnKnown
<1>7. /\ (v.child.state # "live" => w.child.state # "live" \/ Unsettled(w) = {})
      /\ (v.seal.on # "no" => ~v.turn.spoke \/ w.pending = {})
  BY <1>5 DEF Good, OpenInputs
<1>8. Good(v, n, T) /\ Leaves(w, v)
  BY <1>5, <1>6, <1>7, Turned
<1>9. Same(w, v)
  BY <1>5 DEF Same
<1>10. Orderly(w, v)
  BY <1>5, <1>9, OrderlySame
<1>11. Handled(w, v, n, T)
  BY <1>8, <1>10 DEF Handled
<1> QED
  BY <1>2, <1>4, <1>11

LEMMA HandledNothing ==
  ASSUME NEW n, NEW T, NEW w, Good(w, n, T)
  PROVE  Handled(w, w, n, T)
BY LeavesItself, BesideItself, OrderlyBeside DEF Handled

LEMMA EngineAdvances ==
  ASSUME TurnsInv, Engine
  PROVE  /\ Handled(session, session', engine.restarts, engine.took)
         /\ EngineMoves(engine, engine') /\ EngineGood(engine', stdout')
<1> DEFINE e == engine
           T == e.took
           Goal == /\ Handled(session, session', e.restarts, T)
                   /\ EngineMoves(e, engine') /\ EngineGood(engine', stdout')
<1>0. /\ Good(session, e.restarts, T) /\ EngineGood(e, stdout)
      /\ e \in EngineType /\ e.waiting \in Seq(UnreadType) /\ e.named \subseteq T
  BY DEF TurnsInv, EngineGood
<1>a. /\ e.busy \in BOOLEAN /\ e.said \in BOOLEAN /\ e.named \in SUBSET Commands
      /\ e.task \in BOOLEAN /\ e.notice \in BOOLEAN /\ e.tasks \in 0..MaxTasks
      /\ e.exits \in 0..MaxExits /\ e.restarts \in 0..MaxRestarts /\ T \in SUBSET Commands
      /\ e.waiting \in Seq(ItemType)
  BY <1>0 DEF EngineType
<1>b. /\ e.waiting = <<>> \/ (Head(e.waiting) \in UnreadType /\ Tail(e.waiting) \in Seq(UnreadType))
      /\ \A i \in DOMAIN e.waiting : e.waiting[i] \in UnreadType
  BY <1>0
<1>c. Handled(session, session, e.restarts, T)
  BY <1>0, HandledNothing
<1>d. \A q \in Seq(UnreadType) : q \in Seq(ItemType)
  BY WrittenIsItem
<1>1. ASSUME EngineReads
      PROVE  Goal
  <2> DEFINE item == Head(session.stdin)
  <2>1. session' = [session EXCEPT !.stdin = Tail(@)] /\ session.stdin # <<>>
    BY <1>1 DEF EngineReads
  <2>2. Handled(session, session', e.restarts, T) /\ item \in WrittenType
    BY <1>0, <2>1, HandledReading
  <2>3. CASE item.kind = "interrupt"
    <3>1. \/ UNCHANGED <<stdout, engine>>
          \/ /\ stdout' = Append(stdout, ResultLine(e.waiting # <<>>, e.named))
             /\ engine' = [engine EXCEPT !.busy = FALSE, !.named = {}]
      BY <1>1, <2>3 DEF EngineReads, Emit
    <3>2. CASE UNCHANGED <<stdout, engine>>
      BY <1>0, <2>2, <3>2 DEF EngineMoves
    <3>3. CASE /\ stdout' = Append(stdout, ResultLine(e.waiting # <<>>, e.named))
               /\ engine' = [engine EXCEPT !.busy = FALSE, !.named = {}]
      <4>1. /\ engine' \in EngineType /\ engine'.waiting = e.waiting /\ engine'.named = {}
            /\ engine'.took = T /\ engine'.restarts = e.restarts
        BY <1>0, <3>3 DEF EngineType
      <4>2. ResultLine(e.waiting # <<>>, e.named) \in SaidType(T)
        BY <1>0, LinesSaid
      <4>3. EngineMoves(e, engine')
        BY <4>1 DEF EngineMoves
      <4>4. EngineGood(engine', stdout')
        BY <1>0, <3>3, <4>1, <4>2, <4>3, EngineGoes
      <4> QED
        BY <2>2, <4>3, <4>4
    <3> QED
      BY <3>1, <3>2, <3>3
  <2>4. CASE item.kind \in {"input", "prompt"}
    <3>1. /\ \/ stdout' = stdout
             \/ stdout' = Append(stdout, Line("queued", item.of))
          /\ engine' = [engine EXCEPT !.waiting = Append(@, item)]
      BY <1>1, <2>4 DEF EngineReads, Emit
    <3>2. item \in UnreadType /\ item.of \in Commands
      BY <2>2, <2>4 DEF WrittenType, UnreadType
    <3>3. Append(e.waiting, item) \in Seq(UnreadType)
      BY <1>0, <3>2
    <3>4. Append(e.waiting, item) \in Seq(ItemType)
      BY <1>d, <3>3
    <3> HIDE DEF item
    <3>5. /\ engine' \in EngineType /\ engine'.waiting = Append(e.waiting, item)
          /\ engine'.named = e.named /\ engine'.took = T /\ engine'.restarts = e.restarts
      BY <1>0, <3>1, <3>4 DEF EngineType
    <3>6. EngineMoves(e, engine') /\ Line("queued", item.of) \in SaidType(T)
      BY <3>2, <3>5, LinesSaid DEF EngineMoves
    <3>7. EngineGood(engine', stdout')
      BY <1>0, <3>1, <3>3, <3>5, <3>6, EngineGoes
    <3> QED
      BY <2>2, <3>6, <3>7
  <2> QED
    BY <2>2, <2>3, <2>4 DEF WrittenType
<1>2. ASSUME EngineStarts
      PROVE  Goal
  <2>1. session' = session
    BY <1>2 DEF EngineStarts
  <2>2. CASE /\ stdout' = stdout
             /\ engine' = [engine EXCEPT !.busy = TRUE, !.said = FALSE, !.notice = FALSE]
    <3>1. /\ engine' \in EngineType /\ engine'.waiting = e.waiting /\ engine'.named = e.named
          /\ engine'.took = T /\ engine'.restarts = e.restarts
      BY <1>0, <2>2 DEF EngineType
    <3>2. EngineMoves(e, engine')
      BY <3>1 DEF EngineMoves
    <3>3. EngineGood(engine', stdout')
      BY <1>0, <2>2, <3>1, <3>2, EngineGoes
    <3> QED
      BY <1>c, <2>1, <3>2, <3>3
  <2>3. CASE /\ e.waiting # <<>>
             /\ LET item == Head(e.waiting)
                IN /\ engine' = [engine EXCEPT !.busy = TRUE, !.said = FALSE, !.waiting = Tail(@),
                                   !.took = IF item.kind = "input" THEN @ \cup {item.of} ELSE @]
                   /\ stdout' = IF item.kind = "input" THEN Append(stdout, Line("taken", item.of))
                                ELSE stdout
    <3> DEFINE item == Head(e.waiting)
               U == IF item.kind = "input" THEN T \cup {item.of} ELSE T
               q == Tail(e.waiting)
    <3>1. item \in UnreadType /\ q \in Seq(UnreadType) /\ q \in Seq(ItemType)
      BY <1>b, <1>d, <2>3
    <3>2. item.of \in Commands
      BY <3>1 DEF UnreadType
    <3>3. engine' = [engine EXCEPT !.busy = TRUE, !.said = FALSE, !.waiting = q, !.took = U]
      BY <1>0, <2>3 DEF EngineType
    <3>4. stdout' = stdout \/ (item.of \in U /\ stdout' = Append(stdout, Line("taken", item.of)))
      BY <2>3
    <3>5. U \in SUBSET Commands /\ T \subseteq U
      BY <1>a, <3>2
    <3> HIDE DEF item, U, q
    <3>6. /\ engine' \in EngineType /\ engine'.waiting = q /\ engine'.named = e.named
          /\ engine'.took = U /\ engine'.restarts = e.restarts
      BY <1>0, <3>1, <3>3, <3>5 DEF EngineType
    <3>7. EngineMoves(e, engine') /\ engine'.named \subseteq engine'.took
      BY <1>0, <3>5, <3>6 DEF EngineMoves
    <3>8. EngineGood(engine', stdout')
      BY <1>0, <3>1, <3>4, <3>6, <3>7, LinesSaid, EngineGoes
    <3> QED
      BY <1>c, <2>1, <3>7, <3>8
  <2> QED
    BY <1>2, <2>2, <2>3 DEF EngineStarts, Emit
<1>3. ASSUME EngineTakes
      PROVE  Goal
  <2> DEFINE i == CHOOSE i \in Inputs : \A j \in Inputs : i <= j
  <2>1. session' = session /\ Inputs # {}
    BY <1>3 DEF EngineTakes
  <2>2. /\ engine' = [engine EXCEPT !.waiting = Unqueued(i), !.said = FALSE,
                                    !.took = @ \cup {At(i)}]
           \/ engine' = [engine EXCEPT !.waiting = Unqueued(i), !.said = FALSE,
                                       !.took = @ \cup {At(i)}, !.named = @ \cup {At(i)}]
        /\ stdout' = stdout \/ stdout' = Append(stdout, Line("taken", At(i)))
    BY <1>3 DEF EngineTakes, Emit
  <2>3. i \in Inputs
    <3>1. Inputs \subseteq Nat
      BY <1>0 DEF Inputs
    <3>2. \E k \in Inputs : \A j \in Inputs : k <= j
      BY <2>1, <3>1, Least
    <3> QED
      BY <3>2
  <2> HIDE DEF i
  <2>4. i \in DOMAIN e.waiting /\ e.waiting[i] \in UnreadType
    BY <1>b, <2>3 DEF Inputs
  <2>5. At(i) \in Commands
    BY <2>4 DEF At, UnreadType
  <2>6. Unqueued(i) \in Seq(UnreadType)
    BY <1>0, <2>4, OneFewer DEF Unqueued
  <2>7. Unqueued(i) \in Seq(ItemType)
    BY <1>d, <2>6
  <2> DEFINE q == Unqueued(i)
             a == At(i)
  <2> HIDE DEF q, a
  <2>8. /\ engine' \in EngineType /\ engine'.waiting = q /\ engine'.named \subseteq T \cup {a}
        /\ engine'.took = T \cup {a} /\ engine'.restarts = e.restarts
    <3>1. q \in Seq(ItemType) /\ a \in Commands
      BY <2>5, <2>7 DEF q, a
    <3>2. engine' = [engine EXCEPT !.waiting = q, !.said = FALSE, !.took = @ \cup {a}]
           \/ engine' = [engine EXCEPT !.waiting = q, !.said = FALSE,
                                       !.took = @ \cup {a}, !.named = @ \cup {a}]
      BY <2>2 DEF q, a
    <3>3. T \cup {a} \in SUBSET Commands /\ e.named \cup {a} \in SUBSET Commands
      BY <1>a, <3>1
    <3> QED
      BY <1>0, <3>1, <3>2, <3>3 DEF EngineType
  <2>9. EngineMoves(e, engine') /\ engine'.named \subseteq engine'.took /\ a \in engine'.took
    BY <2>8 DEF EngineMoves
  <2>10. Line("taken", a) \in SaidType(engine'.took)
    BY <2>9, LinesSaid
  <2>11. EngineGood(engine', stdout')
    <3>1. stdout' = stdout \/ stdout' = Append(stdout, Line("taken", a))
      BY <2>2 DEF a
    <3>2. engine'.waiting \in Seq(UnreadType)
      BY <2>6, <2>8 DEF q
    <3> QED
      BY <1>0, <2>8, <2>9, <2>10, <3>1, <3>2, EngineGoes
  <2> QED
    BY <1>c, <2>1, <2>9, <2>11
<1>4. ASSUME EngineLoses
      PROVE  Goal
  <2>1. session' = session /\ stdout' = stdout
    BY <1>4 DEF EngineLoses
  <2>2. PICK i \in Inputs : engine' = [engine EXCEPT !.waiting = Unqueued(i)]
    BY <1>4 DEF EngineLoses
  <2>3. Unqueued(i) \in Seq(UnreadType)
    BY <1>0, <2>2, OneFewer DEF Unqueued, Inputs
  <2>4. Unqueued(i) \in Seq(ItemType)
    BY <1>d, <2>3
  <2> DEFINE q == Unqueued(i)
  <2> HIDE DEF q
  <2>5. /\ engine' \in EngineType /\ engine'.waiting = q /\ engine'.named = e.named
        /\ engine'.took = T /\ engine'.restarts = e.restarts
    <3>1. q \in Seq(ItemType) /\ engine' = [engine EXCEPT !.waiting = q]
      BY <2>2, <2>4 DEF q
    <3> QED
      BY <1>0, <3>1 DEF EngineType
  <2>6. EngineMoves(e, engine') /\ engine'.waiting \in Seq(UnreadType)
    BY <2>3, <2>5 DEF EngineMoves, q
  <2>7. EngineGood(engine', stdout')
    BY <1>0, <2>1, <2>5, <2>6, EngineGoes
  <2> QED
    BY <1>c, <2>1, <2>6, <2>7
<1>5. ASSUME EngineSpeaks
      PROVE  Goal
  <2>1. /\ session' = session /\ stdout' = Append(stdout, Line("says", None))
        /\ engine' = [engine EXCEPT !.said = TRUE]
    BY <1>5 DEF EngineSpeaks, Emit
  <2>2. /\ engine' \in EngineType /\ engine'.waiting = e.waiting /\ engine'.named = e.named
        /\ engine'.took = T /\ engine'.restarts = e.restarts
    BY <1>0, <2>1 DEF EngineType
  <2>3. EngineMoves(e, engine') /\ Line("says", None) \in SaidType(T)
    BY <2>2, LinesSaid DEF EngineMoves
  <2>4. EngineGood(engine', stdout')
    BY <1>0, <2>1, <2>2, <2>3, EngineGoes
  <2> QED
    BY <1>c, <2>1, <2>3, <2>4
<1>6. ASSUME EngineEnds
      PROVE  Goal
  <2>1. /\ session' = session /\ stdout' = Append(stdout, ResultLine(e.waiting # <<>>, e.named))
        /\ engine' = [engine EXCEPT !.busy = FALSE, !.named = {}]
    BY <1>6 DEF EngineEnds, Emit
  <2>2. /\ engine' \in EngineType /\ engine'.waiting = e.waiting /\ engine'.named = {}
        /\ engine'.took = T /\ engine'.restarts = e.restarts
    BY <1>0, <2>1 DEF EngineType
  <2>3. EngineMoves(e, engine') /\ ResultLine(e.waiting # <<>>, e.named) \in SaidType(T)
    BY <1>0, <2>2, LinesSaid DEF EngineMoves
  <2>4. EngineGood(engine', stdout')
    BY <1>0, <2>1, <2>2, <2>3, EngineGoes
  <2> QED
    BY <1>c, <2>1, <2>3, <2>4
<1>7. ASSUME EngineTask
      PROVE  Goal
  <2>1. /\ session' = session
        /\ \E k \in {"says", "taskStart", "taskEnd"} : stdout' = Append(stdout, Line(k, None))
        /\ \/ e.tasks < MaxTasks /\ engine' = [engine EXCEPT !.task = TRUE, !.tasks = @ + 1]
           \/ engine' = [engine EXCEPT !.task = FALSE, !.notice = TRUE]
    BY <1>7 DEF EngineTask, Emit
  <2>2. /\ engine' \in EngineType /\ engine'.waiting = e.waiting /\ engine'.named = e.named
        /\ engine'.took = T /\ engine'.restarts = e.restarts
    <3>1. e.tasks < MaxTasks => e.tasks + 1 \in 0..MaxTasks
      BY <1>a, SessionAssumption
    <3> QED
      BY <1>0, <2>1, <3>1 DEF EngineType
  <2>3. EngineMoves(e, engine')
    BY <2>2 DEF EngineMoves
  <2>4. \E line \in SaidType(T) : stdout' = Append(stdout, line)
    BY <2>1, LinesSaid
  <2>5. EngineGood(engine', stdout')
    BY <1>0, <2>2, <2>3, <2>4, EngineGoes
  <2> QED
    BY <1>c, <2>1, <2>3, <2>5
<1> QED
  BY <1>1, <1>2, <1>3, <1>4, <1>5, <1>6, <1>7 DEF Engine

(***************************************************************************)
(* A line, the end of the process, a restart; and every step.              *)
(***************************************************************************)
\* What a step of the server does to the session, whatever it does to the engine.
Stepped(w, v, T) ==
  /\ Learns(w, v, T) /\ EndsInOrder(w, v)
  /\ ~ClosesInGrace /\ Deletable \subseteq {"queued"} /\ OneTurn(w) => OneTurn(v)

LEMMA ReadLineSteps ==
  ASSUME TurnsInv, ReadLine
  PROVE  TurnsInv' /\ Stepped(session, session', engine.took)
<1> DEFINE n == engine.restarts
           T == engine.took
           line == Head(stdout)
           v == HandleLine(session, line)
<1>1. Good(session, n, T) /\ EngineGood(engine, stdout)
  BY DEF TurnsInv
<1>2. session' = v /\ stdout # <<>> /\ stdout' = Tail(stdout) /\ engine' = engine
  BY DEF ReadLine
<1>3. stdout \in Seq(SaidType(T))
  BY <1>1 DEF EngineGood
<1>4. line \in SaidType(T) /\ stdout' \in Seq(SaidType(T))
  BY <1>2, <1>3
<1> HIDE DEF line
<1>5. Good(v, n, T) /\ Leaves(session, v) /\ Orderly(session, v)
  BY <1>1, <1>4, GoodHandleLine
<1> HIDE DEF v
<1>6. EngineGood(engine, stdout')
  BY <1>1, <1>4 DEF EngineGood
<1>7. TurnsInv'
  BY <1>2, <1>5, <1>6 DEF TurnsInv
<1>8. Stepped(session, v, T)
  BY <1>5 DEF Stepped, Orderly, Leaves, Learns
<1> QED
  BY <1>2, <1>7, <1>8

\* The process and what it had not begun are gone; what it took is not.
LEMMA DeadEngine ==
  ASSUME NEW lines, EngineGood(engine, lines)
  PROVE  /\ Dead \in EngineType /\ Dead.waiting = <<>> /\ Dead.named = {}
         /\ Dead.took = engine.took /\ Dead.restarts = engine.restarts
         /\ Dead.exits = engine.exits
<1>1. engine \in EngineType
  BY DEF EngineGood
<1>2. <<>> \in Seq(ItemType)
  OBVIOUS
<1> QED
  BY <1>1, <1>2 DEF Dead, EngineType

LEMMA ChildExitsSteps ==
  ASSUME TurnsInv, ChildExits
  PROVE  TurnsInv' /\ Stepped(session, session', engine.took)
<1> DEFINE n == engine.restarts
           T == engine.took
           exits == IF session.child.state = "live" THEN Dead.exits + 1 ELSE Dead.exits
<1>1. Good(session, n, T) /\ EngineGood(engine, stdout)
  BY DEF TurnsInv
<1>2. /\ session.child.state = "closing" \/ (session.child.state = "live" /\ engine.exits < MaxExits)
      /\ session' = [Cancel(session) EXCEPT !.child.state = "exited", !.stdin = <<>>]
      /\ stdout' = stdout
      /\ engine' = [Dead EXCEPT !.exits = IF session.child.state = "live" THEN @ + 1 ELSE @]
  BY DEF ChildExits
<1>3. /\ Dead \in EngineType /\ Dead.waiting = <<>> /\ Dead.named = {}
      /\ Dead.took = T /\ Dead.restarts = n /\ Dead.exits = engine.exits
  BY <1>1, DeadEngine
<1>4. engine' = [Dead EXCEPT !.exits = exits]
  BY <1>2, <1>3 DEF EngineType
<1>5. exits \in 0..MaxExits
  BY <1>2, <1>3, SessionAssumption DEF EngineType
<1> HIDE DEF exits
<1>6. /\ engine' \in EngineType /\ engine'.waiting = <<>> /\ engine'.named = {}
      /\ engine'.took = T /\ engine'.restarts = n
  BY <1>3, <1>4, <1>5 DEF EngineType
<1>7. <<>> \in Seq(UnreadType)
  OBVIOUS
<1>8. EngineGood(engine', stdout')
  BY <1>1, <1>2, <1>6, <1>7 DEF EngineGood
<1>9. Handled(session, session', n, T)
  BY <1>1, <1>2, HandledExit
<1>10. TurnsInv'
  BY <1>6, <1>8, <1>9 DEF TurnsInv, Handled
<1>11. Stepped(session, session', T)
  BY <1>9 DEF Stepped, Handled, Orderly, Leaves, Learns
<1> QED
  BY <1>10, <1>11

LEMMA RestartSteps ==
  ASSUME TurnsInv, Restart
  PROVE  TurnsInv' /\ Stepped(session, session', engine.took)
<1> DEFINE n == engine.restarts
           T == engine.took
<1>1. Good(session, n, T) /\ EngineGood(engine, stdout)
  BY DEF TurnsInv
<1>2. /\ n < MaxRestarts /\ stdout' = <<>> /\ engine' = [Dead EXCEPT !.restarts = @ + 1]
      /\ \E resumes \in BOOLEAN : session' = Restored(session, resumes)
  BY DEF Restart
<1>3. PICK resumes \in BOOLEAN : session' = Restored(session, resumes)
  BY <1>2
<1>4. /\ Good(session', n + 1, T) /\ Leaves(session, session') /\ OneTurn(session')
      /\ session'.child.state # "live"
  BY <1>1, <1>3, GoodRestored
<1>5. /\ Dead \in EngineType /\ Dead.waiting = <<>> /\ Dead.named = {}
      /\ Dead.took = T /\ Dead.restarts = n
  BY <1>1, DeadEngine
<1>6. n + 1 \in 0..MaxRestarts
  BY <1>2, <1>5, SessionAssumption DEF EngineType
<1>7. engine' = [Dead EXCEPT !.restarts = n + 1]
  BY <1>2, <1>5 DEF EngineType
<1> HIDE DEF n
<1>8. /\ engine' \in EngineType /\ engine'.waiting = <<>> /\ engine'.named = {}
      /\ engine'.took = T /\ engine'.restarts = n + 1
  BY <1>5, <1>6, <1>7 DEF EngineType
<1>9. stdout' \in Seq(SaidType(T)) /\ <<>> \in Seq(UnreadType)
  BY <1>2
<1>10. EngineGood(engine', stdout')
  BY <1>8, <1>9 DEF EngineGood
<1>11. TurnsInv'
  BY <1>4, <1>8, <1>10 DEF TurnsInv
<1>12. Stepped(session, session', T)
  BY <1>4 DEF Stepped, EndsInOrder, Leaves, Learns
<1> QED
  BY <1>11, <1>12

LEMMA EngineSteps ==
  ASSUME TurnsInv, Engine
  PROVE  TurnsInv' /\ Stepped(session, session', engine.took)
<1>1. /\ Handled(session, session', engine.restarts, engine.took)
      /\ EngineMoves(engine, engine') /\ EngineGood(engine', stdout')
  BY EngineAdvances
<1>2. Good(session', engine'.restarts, engine'.took)
  BY <1>1, GoodMore DEF Handled, EngineMoves
<1>3. TurnsInv'
  BY <1>1, <1>2 DEF TurnsInv
<1>4. Stepped(session, session', engine.took)
  BY <1>1 DEF Stepped, Handled, Orderly, Leaves, Learns
<1> QED
  BY <1>3, <1>4

LEMMA AdvancesSteps ==
  ASSUME TurnsInv, Advances(session, session', engine.restarts, engine.took),
         stdout' = stdout, engine' = engine
  PROVE  TurnsInv' /\ Stepped(session, session', engine.took)
<1>1. Good(session', engine'.restarts, engine'.took) /\ EngineGood(engine', stdout')
  BY DEF Advances, TurnsInv
<1>2. TurnsInv'
  BY <1>1 DEF TurnsInv
<1> QED
  BY <1>2 DEF Advances, Stepped, Orderly

LEMMA NextSteps ==
  ASSUME TurnsInv, [Next]_vars
  PROVE  TurnsInv' /\ Stepped(session, session', engine.took)
<1>1. CASE User
  BY <1>1, UserAdvances, AdvancesSteps
<1>2. CASE Timers
  BY <1>2, TimersAdvance, AdvancesSteps
<1>3. CASE ReadLine
  BY <1>3, ReadLineSteps
<1>4. CASE ChildExits
  BY <1>4, ChildExitsSteps
<1>5. CASE Restart
  BY <1>5, RestartSteps
<1>6. CASE Engine
  BY <1>6, EngineSteps
<1>7. CASE UNCHANGED vars
  <2>1. session' = session /\ stdout' = stdout /\ engine' = engine
    BY <1>7 DEF vars
  <2>2. Handled(session, session, engine.restarts, engine.took)
    BY HandledNothing DEF TurnsInv
  <2> QED
    BY <2>1, <2>2, HandledAdvances, AdvancesSteps
<1>8. Next => User \/ Timers \/ ReadLine \/ ChildExits \/ Restart \/ Engine
  BY DEF Next, Server, Timers
<1> QED
  BY <1>1, <1>2, <1>3, <1>4, <1>5, <1>6, <1>7, <1>8

LEMMA InitTurns ==
  ASSUME Init
  PROVE  TurnsInv /\ OneTurn(session)
<1> DEFINE w == session
<1>1. /\ w = [queue |-> <<>>,
              cmds |-> [c \in Commands |-> Fresh],
              followUps |-> [c \in Commands |-> <<>>], pending |-> {}, sender |-> None,
              turn |-> NoTurn, seal |-> NoSeal, child |-> NoChild, chan |-> NewChannel,
              stdin |-> <<>>, given |-> [c \in Commands |-> 0]]
      /\ stdout = <<>>
      /\ engine = [busy |-> FALSE, said |-> FALSE, waiting |-> <<>>, named |-> {},
                   task |-> FALSE, notice |-> FALSE, tasks |-> 0, exits |-> 0,
                   restarts |-> 0, took |-> {}]
  BY DEF Init
<1>2. /\ NoTurn \in TurnType /\ NoSeal \in SealType /\ NoChild \in ChildType
      /\ Fresh \in CommandType /\ NewChannel \in ChannelType
  BY NewChannelType
     DEF NoTurn, TurnType, NoSeal, SealType, NoChild, ChildType, Fresh, CommandType,
         Statuses, Modes, Deliveries
<1>3. /\ <<>> \in Seq(ItemType) /\ <<>> \in Seq(WrittenType) /\ <<>> \in Seq(UnreadType)
      /\ <<>> \in Seq(Commands) /\ <<>> \in Seq(SaidType({}))
  OBVIOUS
<1>4. /\ w \in Session /\ w.queue = <<>> /\ w.stdin = <<>> /\ w.pending = {} /\ w.sender = None
      /\ w.turn = NoTurn /\ w.seal = NoSeal /\ w.child = NoChild /\ w.chan = NewChannel
      /\ \A c \in Commands : w.cmds[c] = Fresh /\ w.followUps[c] = <<>> /\ w.given[c] = 0
  BY <1>1, <1>2, <1>3 DEF Session
<1>5. /\ NoTurn.inFlight = None /\ NoTurn.early = FALSE /\ NoTurn.stopping = FALSE
      /\ NoSeal.on = "no" /\ NoChild.state = "none"
      /\ NewChannel.due = {} /\ NewChannel.hold = FALSE
      /\ \A c \in Commands : NewChannel.phase[c] = "none"
      /\ Fresh.status = "new" /\ Fresh.delivery = "none"
  BY DEF NoTurn, NoSeal, NoChild, NewChannel, Fresh
<1>6. engine \in EngineType
  BY <1>1, <1>3, SessionAssumption DEF EngineType
<1>7. engine.restarts = 0 /\ engine.took = {} /\ engine.named = {} /\ engine.waiting = <<>>
  BY <1>1
<1>8. EngineGood(engine, stdout)
  BY <1>1, <1>3, <1>6, <1>7 DEF EngineGood
<1> HIDE DEF w
<1>9. Placed(w)
  <2>1. NoRepeat(<<>>) /\ Members(<<>>) = {}
    BY DEF NoRepeat, Members
  <2> QED
    BY <1>4, <1>5, <2>1 DEF Placed
<1>10. Tried(w) /\ TurnKnown(w) /\ TakenOnly(w, {})
  BY <1>4, <1>5 DEF Tried, TurnKnown, TakenOnly
<1>11. OpenInputs(w)
  <2>1. Unsettled(w) = {}
    BY <1>4, <1>5 DEF Unsettled
  <2> QED
    BY <1>4, <1>5, <2>1 DEF OpenInputs
<1>12. GivenOnce(w, 0)
  BY <1>4, <1>5 DEF GivenOnce, Again
<1>13. Good(w, 0, {})
  BY <1>3, <1>4, <1>9, <1>10, <1>11, <1>12 DEF Good
<1>14. OneTurn(w)
  <2>1. Executing(w) = {}
    BY <1>4, <1>5 DEF Executing, Status
  <2> QED
    BY <1>4, <1>5, <2>1 DEF OneTurn
<1> QED
  BY <1>7, <1>8, <1>13, <1>14 DEF TurnsInv, w

(***************************************************************************)
(* The theorems.                                                           *)
(***************************************************************************)
\* Whatever the user, the timers, the engine, the death of the process and restarts do, in
\* whatever order, the queue, the deliveries, the open inputs, the turn and the engine's own
\* state stay in step (TurnsInv).
THEOREM TurnsInvariant == Spec => []TurnsInv
<1>1. Init => TurnsInv
  BY InitTurns
<1>2. TurnsInv /\ [Next]_vars => TurnsInv'
  BY NextSteps
<1> QED
  BY <1>1, <1>2, PTL DEF Spec

\* The session, the pipe and the engine hold what the code keeps in them.
THEOREM TurnsTypes == Spec => []TypeOK
<1>1. TurnsInv => TypeOK
  <2> SUFFICES ASSUME TurnsInv PROVE TypeOK
    OBVIOUS
  <2>1. /\ session \in Session /\ engine \in EngineType
        /\ stdout \in Seq(SaidType(engine.took))
    BY DEF TurnsInv, Good, EngineGood
  <2>2. engine.took \subseteq Commands
    BY <2>1 DEF EngineType
  <2>3. SaidType(engine.took) \subseteq LineType
    BY <2>2 DEF SaidType, LineType
  <2>4. stdout \in Seq(LineType)
    BY <2>1, <2>3
  <2> QED
    BY <2>1, <2>4 DEF TypeOK
<1> QED
  BY <1>1, TurnsInvariant, PTL

\* EveryCommandHasItsPlace: through splices, restarts, transcripts and reorders no command is
\* lost from the queue, doubled in it, or recorded under two turns.
THEOREM CommandsHaveTheirPlace == Spec => []EveryCommandHasItsPlace
<1>1. TurnsInv => EveryCommandHasItsPlace
  <2> SUFFICES ASSUME TurnsInv PROVE EveryCommandHasItsPlace
    OBVIOUS
  <2>1. Placed(session)
    BY DEF TurnsInv, Good
  <2>2. ASSUME NEW c \in Commands
        PROVE  Cardinality(Recorders(c)) = IF session.cmds[c].status = "recorded" THEN 1 ELSE 0
    <3>1. CASE session.cmds[c].status = "recorded"
      <4>1. PICK b \in Commands : c \in Members(session.followUps[b])
        BY <2>1, <3>1 DEF Placed
      <4>2. Recorders(c) = {b}
        BY <2>1, <4>1 DEF Placed, Recorders
      <4> QED
        BY <3>1, <4>2, FS_Singleton
    <3>2. CASE session.cmds[c].status # "recorded"
      <4>1. Recorders(c) = {}
        BY <2>1, <3>2 DEF Placed, Recorders
      <4> QED
        BY <3>2, <4>1, FS_EmptySet
    <3> QED
      BY <3>1, <3>2
  <2> QED
    BY <2>1, <2>2 DEF Placed, EveryCommandHasItsPlace
<1> QED
  BY <1>1, TurnsInvariant, PTL

\* NothingIsGivenTwice: the text of a command is written to an engine once, and again only
\* for a turn that a restart cut; what is called unsent was never written, and what is
\* recorded as delivered was taken.
THEOREM GivenAtMostOnce == Spec => []NothingIsGivenTwice
<1>1. TurnsInv => NothingIsGivenTwice
  <2> SUFFICES ASSUME TurnsInv, NEW c \in Commands
               PROVE  /\ session.given[c] <= IF session.cmds[c].resumed THEN 1 + engine.restarts ELSE 1
                      /\ session.cmds[c].delivery = "unavailable" /\ ~session.cmds[c].resumed
                           => session.given[c] = 0
                      /\ session.cmds[c].status = "recorded" => c \in engine.took
    BY DEF NothingIsGivenTwice
  <2>1. /\ session \in Session /\ Tried(session) /\ TakenOnly(session, engine.took)
        /\ GivenOnce(session, engine.restarts)
    BY DEF TurnsInv, Good
  <2>2. session.given[c] \in Nat
    BY <2>1, Fields
  <2>3. session.given[c] <= IF session.cmds[c].resumed THEN 1 + engine.restarts ELSE 1
    BY <2>1 DEF GivenOnce, Again
  <2>4. ASSUME session.cmds[c].delivery = "unavailable", ~session.cmds[c].resumed
        PROVE  session.given[c] = 0
    <3>1. session.given[c] <= 0
      BY <2>1, <2>4 DEF GivenOnce, Tried, Again
    <3> QED
      BY <2>2, <3>1
  <2> QED
    BY <2>1, <2>3, <2>4 DEF TakenOnly
<1> QED
  BY <1>1, TurnsInvariant, PTL

\* UnknownStaysUnknown: an input whose delivery is unknown is never sent again, closed or
\* dropped; only the transcript of an engine that took it moves it.
THEOREM UnknownIsLeftAlone == Spec => UnknownStaysUnknown
<1>1. TurnsInv /\ [Next]_vars =>
        [\A c \in Commands :
           session.cmds[c].delivery = "uncertain" =>
             \/ /\ session'.cmds[c] = session.cmds[c]
                /\ session'.given[c] = session.given[c]
             \/ session'.cmds[c].status = "recorded" /\ c \in engine.took]_vars
  BY NextSteps DEF Stepped, Learns
<1> QED
  BY <1>1, TurnsInvariant, PTL DEF Spec, UnknownStaysUnknown

\* TurnsEndWithTheirInputs: while its process lives, no turn ends over an input of its own
\* that is still open, but that of a command that never spoke, given up after an early result.
THEOREM InputsEndFirst == Spec => TurnsEndWithTheirInputs
<1>1. TurnsInv /\ [Next]_vars =>
        [\A b \in Executing(session), c \in session.pending :
           /\ session'.cmds[b].status = "done" /\ session.cmds[c].target = b
           /\ session'.child.state = "live"
           => c \notin session'.pending \/ GivesUp(session)]_vars
  BY NextSteps DEF Stepped, EndsInOrder, Finishes
<1> QED
  BY <1>1, TurnsInvariant, PTL DEF Spec, TurnsEndWithTheirInputs

\* OneTurnAtATime: the queue, the in-flight entry, the held end of the turn and the open
\* inputs speak of one command, as long as a dead process is not noticed while the end of its
\* turn is held and a delete request finds its command still waiting.
THEOREM TurnsComeOneAtATime ==
  ~ClosesInGrace /\ Deletable \subseteq {"queued"} => (Spec => []OneTurnAtATime)
<1> SUFFICES ASSUME ~ClosesInGrace, Deletable \subseteq {"queued"} PROVE Spec => []OneTurnAtATime
  OBVIOUS
<1>1. Init => OneTurn(session)
  BY InitTurns
<1>2. TurnsInv /\ OneTurn(session) /\ [Next]_vars => OneTurn(session)'
  BY NextSteps DEF Stepped
<1>3. OneTurn(session) => OneTurnAtATime
  BY DEF OneTurn, OneTurnAtATime
<1> QED
  BY <1>1, <1>2, <1>3, TurnsInvariant, PTL DEF Spec

(***************************************************************************)
(* What becomes of an open input.                                          *)
(***************************************************************************)
LEMMA CarriesAll ==
  ASSUME NEW u, NEW v, NEW w, Carries(u, v), Carries(v, w)
  PROVE  Carries(u, w)
BY DEF Carries

LEMMA CarriesItself ==
  ASSUME NEW w
  PROVE  Carries(w, w)
BY DEF Carries

\* What does not look at commands, input and channel.
LEMMA CarriesAside ==
  ASSUME NEW w, NEW v, v.cmds = w.cmds, v.stdin = w.stdin, v.chan = w.chan
  PROVE  Carries(w, v)
BY DEF Carries, Handed, Written, InPhase

\* What only settles inputs of the channel.
LEMMA CarriesChannel ==
  ASSUME NEW w \in Session, NEW v, ChannelOnly(w, v),
         InPhase(v, "sent") \subseteq InPhase(w, "sent"),
         InPhase(v, "received") \subseteq InPhase(w, "received"),
         InPhase(v, "sent") \cap w.chan.timed \subseteq v.chan.timed
  PROVE  Carries(w, v)
<1>1. v.cmds = w.cmds /\ v.stdin = w.stdin
  BY ChannelOnlyFields
<1>2. Handed(v) = Handed(w) /\ Written(v) = Written(w)
  BY <1>1 DEF Handed, Written
<1> QED
  BY <1>2 DEF Carries

\* An engine that is only told to stop or to start a command is handed no input.
LEMMA NothingWritten ==
  ASSUME NEW w, NEW v, NEW item, item.kind # "input", w.stdin \in Seq(WrittenType),
         v.stdin = Append(w.stdin, item)
  PROVE  Written(v) = Written(w)
<1>1. /\ DOMAIN v.stdin = DOMAIN w.stdin \cup {Len(w.stdin) + 1}
      /\ \A i \in DOMAIN w.stdin : v.stdin[i] = w.stdin[i]
      /\ v.stdin[Len(w.stdin) + 1] = item
  OBVIOUS
<1>2. \A c \in Commands : item # [kind |-> "input", of |-> c]
  OBVIOUS
<1> QED
  BY <1>1, <1>2 DEF Written

LEMMA CarriesNoHold ==
  ASSUME NEW n, NEW T, NEW w, Good(w, n, T)
  PROVE  Carries(w, NoHold(w))
<1> DEFINE v == NoHold(w)
<1>1. w \in Session /\ ChannelOnly(w, v)
  BY GoodNoHold DEF Good
<1>2. v.chan.phase = w.chan.phase /\ v.chan.timed = w.chan.timed
  BY <1>1, Fields DEF NoHold, Session, ChannelType
<1> HIDE DEF v
<1>3. Carries(w, v)
  BY <1>1, <1>2, CarriesChannel DEF InPhase
<1> QED
  BY <1>3 DEF v

LEMMA CarriesSettled ==
  ASSUME NEW n, NEW T, NEW w, Good(w, n, T), NEW S, S \subseteq Unsettled(w),
         NEW outcome \in {"accepted", "rejected"}
  PROVE  LET v == Settled(w, S, outcome)
         IN /\ Carries(w, v) /\ Unsettled(v) = Unsettled(w) \ S
            /\ InPhase(v, "sent") \subseteq InPhase(w, "sent")
            /\ InPhase(v, "received") \subseteq InPhase(w, "received")
<1> DEFINE v == Settled(w, S, outcome)
           chan == [w.chan EXCEPT !.phase = [c \in Commands |-> IF c \in S THEN outcome ELSE @[c]],
                                  !.timed = @ \ S, !.due = @ \cup S]
<1>1. w \in Session /\ w.chan \in ChannelType /\ S \subseteq Commands
  BY Fields DEF Good, Unsettled
<1>2. v = [w EXCEPT !.chan = chan]
  BY <1>1 DEF Settled, Session, ChannelType
<1>3. /\ \A c \in Commands : chan.phase[c] = IF c \in S THEN outcome ELSE w.chan.phase[c]
      /\ chan.timed = w.chan.timed \ S
  BY <1>1 DEF ChannelType
<1> HIDE DEF v, chan
<1>4. v.chan = chan /\ v.cmds = w.cmds /\ v.stdin = w.stdin /\ ChannelOnly(w, v)
  BY <1>1, <1>2 DEF Session, ChannelOnly
<1>5. /\ InPhase(v, "sent") = InPhase(w, "sent") \ S
      /\ InPhase(v, "received") = InPhase(w, "received") \ S
      /\ Unsettled(v) = Unsettled(w) \ S
  BY <1>3, <1>4 DEF InPhase, Unsettled
<1>6. Carries(w, v)
  BY <1>1, <1>3, <1>4, <1>5, CarriesChannel
<1> QED
  BY <1>5, <1>6 DEF v

LEMMA CarriesAccept ==
  ASSUME NEW n, NEW T, NEW w, Good(w, n, T), NEW c \in Commands \cap T
  PROVE  LET v == Accept(w, c) IN Carries(w, v) /\ c \notin Unsettled(v)
<1>1. CASE c \notin Unsettled(w)
  BY <1>1, CarriesItself DEF Accept
<1>2. CASE c \in Unsettled(w)
  <2> DEFINE u == Settled(w, {c}, "accepted")
  <2>1. Good(u, n, T)
    BY <1>2, GoodSettled
  <2>2. Carries(w, u) /\ c \notin Unsettled(u)
    BY <1>2, CarriesSettled
  <2>3. Accept(w, c) = IF c \in w.chan.waitFor THEN NoHold(u) ELSE u
    BY <1>2 DEF Accept
  <2> HIDE DEF u
  <2>4. Carries(u, NoHold(u)) /\ NoHold(u).chan.phase = u.chan.phase
    BY <2>1, CarriesNoHold, Fields DEF Good, NoHold, Session, ChannelType
  <2>5. Carries(w, NoHold(u)) /\ c \notin Unsettled(NoHold(u))
    BY <2>2, <2>4, CarriesAll DEF Unsettled
  <2> QED
    BY <2>2, <2>3, <2>5
<1> QED
  BY <1>1, <1>2

LEMMA CarriesReject ==
  ASSUME NEW n, NEW T, NEW w, Good(w, n, T), NEW S
  PROVE  Carries(w, Reject(w, S))
<1>1. S \cap Unsettled(w) \subseteq Unsettled(w)
  OBVIOUS
<1> QED
  BY <1>1, CarriesSettled DEF Reject

LEMMA CarriesCancelPending ==
  ASSUME NEW n, NEW T, NEW w, Good(w, n, T)
  PROVE  Carries(w, CancelPending(w))
<1>1. Carries(w, NoHold(w)) /\ Good(NoHold(w), n, T)
  BY CarriesNoHold, GoodNoHold
<1>2. Carries(NoHold(w), Reject(NoHold(w), Commands))
  BY <1>1, CarriesReject
<1> QED
  BY <1>1, <1>2, CarriesAll DEF CancelPending

LEMMA CarriesCancel ==
  ASSUME NEW n, NEW T, NEW w, Good(w, n, T)
  PROVE  Carries(w, Cancel(w))
<1> DEFINE u == CancelPending(w)
           v == Cancel(w)
<1>1. Carries(w, u) /\ Good(u, n, T)
  BY CarriesCancelPending, GoodCancelPending
<1>2. v = [u EXCEPT !.chan.closed = TRUE]
  BY DEF Cancel
<1> HIDE DEF u, v
<1>3. /\ v.cmds = u.cmds /\ v.stdin = u.stdin
      /\ v.chan.phase = u.chan.phase /\ v.chan.timed = u.chan.timed
  BY <1>1, <1>2, Fields DEF Good, Session, ChannelType
<1>4. Carries(u, v)
  BY <1>3 DEF Carries, Handed, Written, InPhase
<1> QED
  BY <1>1, <1>4, CarriesAll DEF v

LEMMA CarriesRefuse ==
  ASSUME NEW n, NEW T, NEW w, Good(w, n, T), NEW S, S \subseteq Untouched(w)
  PROVE  Carries(w, Refuse(w, S))
<1> DEFINE v == Refuse(w, S)
<1>1. w \in Session
  BY DEF Good
<1>2. /\ v.stdin = w.stdin /\ v.chan = w.chan
      /\ v.cmds = [c \in Commands |-> IF c \in S THEN [w.cmds[c] EXCEPT !.delivery = "unavailable"]
                                                 ELSE w.cmds[c]]
  BY <1>1 DEF Refuse, Session
<1> HIDE DEF v
<1>3. \A c \in Commands : c \in S => c \notin Handed(w)
  BY DEF Untouched, Handed
<1>4. \A c \in Commands : c \notin S => v.cmds[c] = w.cmds[c]
  BY <1>2
<1>5. Handed(w) \subseteq Handed(v)
  BY <1>3, <1>4 DEF Handed
<1>6. Carries(w, v)
  BY <1>2, <1>5 DEF Carries, Written, InPhase
<1> QED
  BY <1>6 DEF v

LEMMA CarriesSend ==
  ASSUME NEW n, NEW T, NEW w, Good(w, n, T), NEW c \in Untouched(w)
  PROVE  Carries(w, Send(w, c))
<1> DEFINE v == Send(w, c)
           item == [kind |-> "input", of |-> c]
           b == CHOOSE b \in Executing(w) : TRUE
<1>1. /\ w \in Session /\ c \in Commands /\ w.stdin \in Seq(WrittenType)
      /\ w.cmds \in [Commands -> CommandType] /\ w.chan \in ChannelType
      /\ w.cmds[c].status = "queued" /\ w.cmds[c].delivery = "none"
  BY Fields DEF Good, Untouched
<1>2. /\ v.cmds = [w.cmds EXCEPT ![c].delivery = "sending", ![c].target = b]
      /\ v.stdin = Append(w.stdin, item)
      /\ v.chan.phase = [w.chan.phase EXCEPT ![c] = "sent"]
      /\ v.chan.timed = w.chan.timed \cup {c}
  <2>1. w.cmds[c] \in CommandType
    BY <1>1
  <2>2. v.cmds = [w.cmds EXCEPT ![c].delivery = "sending", ![c].target = b]
    BY <1>1, <2>1 DEF Send, Session, CommandType
  <2>3. v.stdin = Append(w.stdin, item)
    BY <1>1 DEF Send, Session
  <2>4. v.chan = [w.chan EXCEPT !.phase[c] = "sent", !.timed = @ \cup {c}]
    BY <1>1 DEF Send, Session, ChannelType
  <2> HIDE DEF v
  <2> QED
    BY <1>1, <2>2, <2>3, <2>4 DEF ChannelType
<1> HIDE DEF v, b
<1>3. /\ v.cmds[c].delivery = "sending"
      /\ \A d \in Commands : d # c => v.cmds[d] = w.cmds[d]
  BY <1>1, <1>2 DEF CommandType
<1>4. c \notin Handed(w) /\ Handed(v) = Handed(w) \cup {c}
  BY <1>1, <1>3 DEF Handed
<1>5. /\ InPhase(v, "received") \subseteq InPhase(w, "received")
      /\ InPhase(v, "sent") = InPhase(w, "sent") \cup {c}
  BY <1>1, <1>2 DEF InPhase, ChannelType
<1>6. Written(v) \subseteq Written(w) \cup {c}
  <2>1. /\ DOMAIN v.stdin = DOMAIN w.stdin \cup {Len(w.stdin) + 1}
        /\ \A i \in DOMAIN w.stdin : v.stdin[i] = w.stdin[i]
        /\ v.stdin[Len(w.stdin) + 1] = item
    BY <1>1, <1>2
  <2> QED
    BY <2>1 DEF Written
<1>7. Carries(w, v)
  BY <1>1, <1>2, <1>4, <1>5, <1>6 DEF Carries
<1> QED
  BY <1>7 DEF v

LEMMA CarriesTrySend ==
  ASSUME NEW n, NEW T, NEW w, Good(w, n, T), NEW c \in Commands
  PROVE  Carries(w, TrySend(w, c))
<1>1. CASE c \notin Untouched(w) \/ w.sender # None
  BY <1>1, CarriesItself DEF TrySend
<1>2. CASE c \in Untouched(w) /\ w.sender = None
  <2>1. TrySend(w, c) \in {Send(w, c), Refuse(w, {c})}
    BY <1>2 DEF TrySend
  <2> QED
    BY <1>2, <2>1, CarriesSend, CarriesRefuse
<1> QED
  BY <1>1, <1>2

LEMMA CarriesDrain ==
  ASSUME NEW n, NEW T, NEW w, Good(w, n, T)
  PROVE  Carries(w, Drain(w))
<1> DEFINE sendable == IF TurnTakesInput(w) THEN Untouched(w) \ OwnTurn ELSE {}
           p == FirstOf(w.queue, sendable)
           passed == { w.queue[i] : i \in 1..(p - 1) } \cap Untouched(w)
           u == Refuse(w, passed)
           c == w.queue[p]
<1>1. Drain(w) = IF w.sender # None THEN w
                 ELSE IF sendable = {} THEN Refuse(w, Untouched(w))
                 ELSE Send(u, c)
  BY DEF Drain
<1>2. CASE w.sender # None
  BY <1>1, <1>2, CarriesItself
<1>3. CASE w.sender = None /\ sendable = {}
  BY <1>1, <1>3, CarriesRefuse
<1>4. CASE w.sender = None /\ sendable # {}
  <2>1. sendable = Untouched(w) \ OwnTurn
    BY <1>4
  <2>2. w.queue \in Seq(Commands) /\ Members(w.queue) \cap sendable # {}
    <3>1. \A d \in Untouched(w) : d \in Members(w.queue)
      BY DEF Untouched, Good, Placed
    <3> QED
      BY <1>4, <2>1, <3>1 DEF Good, Session
  <2> HIDE DEF sendable
  <2>3. /\ p \in DOMAIN w.queue /\ c \in sendable
        /\ \A j \in 1..(p - 1) : w.queue[j] \notin sendable
    BY <2>2, FirstIsFound
  <2>4. c \in Untouched(w) /\ c \notin passed /\ c \in Commands
    BY <2>1, <2>3 DEF Untouched
  <2>5. passed \subseteq Untouched(w)
    OBVIOUS
  <2> HIDE DEF p, passed, c
  <2>6. Good(u, n, T) /\ u.cmds[c] = w.cmds[c]
    BY <2>4, <2>5, GoodRefuse
  <2>7. Carries(w, u)
    BY <2>5, CarriesRefuse
  <2>8. Drain(w) = Send(u, c)
    BY <1>1, <1>4
  <2> HIDE DEF u
  <2>9. c \in Untouched(u)
    BY <2>4, <2>6 DEF Untouched
  <2>10. Carries(u, Send(u, c))
    BY <2>6, <2>9, CarriesSend
  <2> QED
    BY <2>7, <2>8, <2>10, CarriesAll
<1> QED
  BY <1>2, <1>3, <1>4

LEMMA CarriesRelease ==
  ASSUME NEW n, NEW T, NEW w, Good(w, n, T), NEW c
  PROVE  Carries(w, Release(w, c))
<1> DEFINE v == Release(w, c)
<1>1. v.cmds = w.cmds /\ v.stdin = w.stdin /\ v.chan = w.chan
  BY DEF Release, Good, Session
<1> HIDE DEF v
<1>2. Carries(w, v)
  BY <1>1, CarriesAside
<1> QED
  BY <1>2 DEF v

\* A delivery that becomes received or unknown was handed out before.
LEMMA CarriesDelivery ==
  ASSUME NEW n, NEW T, NEW w, Good(w, n, T), NEW c \in Commands,
         NEW d \in {"received", "uncertain"}
  PROVE  Carries(w, [w EXCEPT !.cmds[c].delivery = d])
<1> DEFINE v == [w EXCEPT !.cmds[c].delivery = d]
<1>1. w \in Session /\ w.cmds \in [Commands -> CommandType]
  BY Fields DEF Good
<1>2. /\ v.cmds = [w.cmds EXCEPT ![c].delivery = d]
      /\ v.stdin = w.stdin /\ v.chan = w.chan
  BY <1>1 DEF Session
<1> HIDE DEF v
<1>3. v.cmds[c].delivery = d /\ \A b \in Commands : b # c => v.cmds[b] = w.cmds[b]
  BY <1>1, <1>2 DEF CommandType
<1>4. Handed(w) \subseteq Handed(v)
  BY <1>3 DEF Handed
<1>5. Carries(w, v)
  BY <1>2, <1>4 DEF Carries, Written, InPhase
<1> QED
  BY <1>5 DEF v

\* The receipt of an input; what the queue does then is as ever.
Receipt(w, c) == [w EXCEPT !.chan.phase[c] = "received", !.chan.timed = @ \ {c}]

LEMMA CarriesReceive ==
  ASSUME NEW n, NEW T, NEW w, Good(w, n, T), NEW c \in Commands
  PROVE  LET v == Receipt(w, c)
         IN IF w.chan.phase[c] # "sent" THEN Receive(w, c) = w
            ELSE /\ InPhase(v, "received") = InPhase(w, "received") \cup {c}
                 /\ InPhase(v, "sent") = InPhase(w, "sent") \ {c}
                 /\ v.chan.timed = w.chan.timed \ {c}
                 /\ v.cmds = w.cmds /\ v.stdin = w.stdin
                 /\ Carries(v, Receive(w, c))
<1>1. CASE w.chan.phase[c] # "sent"
  BY <1>1 DEF Receive
<1>2. CASE w.chan.phase[c] = "sent"
  <2> DEFINE v == Receipt(w, c)
             chan == [w.chan EXCEPT !.phase[c] = "received", !.timed = @ \ {c}]
  <2>1. w \in Session
    BY DEF Good
  <2>2. /\ chan \in ChannelType
        /\ chan.phase[c] = "received" /\ \A d \in Commands : d # c => chan.phase[d] = w.chan.phase[d]
        /\ chan.due = w.chan.due /\ chan.hold = w.chan.hold /\ chan.finalizing = w.chan.finalizing
        /\ chan.waitFor = w.chan.waitFor /\ chan.timed = w.chan.timed \ {c}
    BY <2>1, Fields DEF ChannelType, Phases
  <2>3. v.chan = chan
    BY <2>1 DEF Session, ChannelType, Receipt
  <2>4. /\ v.queue = w.queue /\ v.cmds = w.cmds /\ v.followUps = w.followUps /\ v.given = w.given
        /\ v.stdin = w.stdin /\ v.pending = w.pending /\ v.sender = w.sender /\ v.turn = w.turn
        /\ v.seal = w.seal /\ v.child = w.child
    BY <2>1 DEF Session, Receipt
  <2>5. v \in Session
    BY <2>1, <2>2 DEF Session, Receipt
  <2>6. Receive(w, c) = IF c \notin w.pending \/ w.cmds[c].delivery # "sending" THEN v
                        ELSE Drain(Release([v EXCEPT !.cmds[c].delivery = "received"], c))
    BY <1>2 DEF Receive, Receipt
  <2> HIDE DEF v, chan
  <2>7. Unsettled(v) = Unsettled(w)
    BY <1>2, <2>2, <2>3 DEF Unsettled
  <2>8. OpenInputs(v)
    <3>1. \A d \in w.chan.due : d \in Commands
      BY <2>1, Fields DEF ChannelType
    <3>2. \A d \in v.chan.due : v.chan.phase[d] \in {"accepted", "rejected"}
      BY <3>1, <1>2, <2>2, <2>3 DEF Good, OpenInputs
    <3> QED
      BY <3>2, <2>2, <2>3, <2>4, <2>7 DEF Good, OpenInputs
  <2>9. TurnKnown(v) /\ TakenOnly(v, T) /\ v.stdin \in Seq(WrittenType)
    BY <2>2, <2>3, <2>4 DEF Good, TurnKnown, TakenOnly
  <2>10. Good(v, n, T)
    BY <2>4, <2>5, <2>8, <2>9, Aside
  <2>11. /\ InPhase(v, "received") = InPhase(w, "received") \cup {c}
         /\ InPhase(v, "sent") = InPhase(w, "sent") \ {c}
         /\ v.chan.timed = w.chan.timed \ {c}
    BY <1>2, <2>2, <2>3 DEF InPhase
  <2>12. Carries(v, Receive(w, c))
    <3>1. CASE c \notin w.pending \/ w.cmds[c].delivery # "sending"
      BY <2>6, <3>1, CarriesItself
    <3>2. CASE c \in w.pending /\ w.cmds[c].delivery = "sending"
      <4> DEFINE x == [v EXCEPT !.cmds[c].delivery = "received"]
                 y == Release(x, c)
      <4>1. Receive(w, c) = Drain(y)
        BY <2>6, <3>2
      <4>2. Good(x, n, T) /\ Carries(v, x)
        <5>1. v.cmds[c].delivery \in {"sending", "received"}
          BY <2>4, <3>2
        <5> QED
          BY <2>10, <5>1, GoodDelivery, CarriesDelivery
      <4> HIDE DEF x
      <4>3. Good(y, n, T) /\ Carries(x, y)
        BY <4>2, GoodRelease, CarriesRelease
      <4> HIDE DEF y
      <4>4. Carries(y, Drain(y))
        BY <4>3, CarriesDrain
      <4> QED
        BY <4>1, <4>2, <4>3, <4>4, CarriesAll
    <3> QED
      BY <3>1, <3>2
  <2> QED
    BY <1>2, <2>4, <2>11, <2>12 DEF v
<1> QED
  BY <1>1, <1>2

\* A command that leaves the queue was handed to nobody, or it is recorded.
LEMMA CarriesLeft ==
  ASSUME NEW n, NEW T, NEW w, Good(w, n, T), NEW c \in Commands,
         NEW why \in {"done", "deleted", "recorded"}, c \notin Handed(w) \/ why = "recorded"
  PROVE  LET v == Left(w, c, why)
         IN Carries(w, v) /\ v.chan = w.chan
<1> DEFINE v == Left(w, c, why)
<1>1. w \in Session /\ NoRepeat(w.queue) /\ why \in Statuses
  BY DEF Good, Placed, Statuses
<1>2. LeftAs(w, v, c, why)
  BY <1>1, LeftFields
<1> HIDE DEF v
<1>3. Handed(w) \subseteq Handed(v)
  BY <1>2 DEF LeftAs, Handed
<1>4. v.stdin = w.stdin /\ v.chan = w.chan
  BY <1>2 DEF LeftAs
<1>5. Carries(w, v)
  BY <1>3, <1>4 DEF Carries, Written, InPhase
<1> QED
  BY <1>4, <1>5 DEF v

LEMMA CarriesRecord ==
  ASSUME NEW n, NEW T, NEW w, Good(w, n, T), NEW c \in Commands, NEW b \in Commands
  PROVE  Carries(w, Record(w, c, b))
<1> DEFINE u == [w EXCEPT !.followUps[b] = Append(@, c)]
           v == Left(u, c, "recorded")
           f == [w.followUps EXCEPT ![b] = Append(@, c)]
<1>1. w \in Session /\ NoRepeat(w.queue) /\ "recorded" \in Statuses
      /\ f \in [Commands -> Seq(Commands)]
  BY Fields DEF Good, Placed, Statuses
<1>2. u = [w EXCEPT !.followUps = f]
  BY <1>1 DEF Session
<1> HIDE DEF f
<1>3. u \in Session /\ u.queue = w.queue /\ u.cmds = w.cmds /\ u.stdin = w.stdin /\ u.chan = w.chan
  BY <1>1, <1>2 DEF Session
<1> HIDE DEF u
<1>4. LeftAs(u, v, c, "recorded")
  BY <1>1, <1>3, LeftFields
<1>5. v = Record(w, c, b)
  BY DEF Record, u
<1> HIDE DEF v
<1>6. v.stdin = w.stdin /\ v.chan = w.chan /\ Handed(w) \subseteq Handed(v)
  BY <1>3, <1>4 DEF LeftAs, Handed
<1>7. Carries(w, v)
  BY <1>6 DEF Carries, Written, InPhase
<1> QED
  BY <1>5, <1>7

LEMMA CarriesCleared ==
  ASSUME NEW n, NEW T, NEW w, Good(w, n, T), NEW c
  PROVE  Carries(w, Cleared(w, c))
<1> DEFINE u == [w EXCEPT !.pending = @ \ {c}, !.chan.due = @ \ {c}]
           v == Release(u, c)
<1>1. w \in Session /\ w.chan \in ChannelType
  BY Fields DEF Good
<1>2. /\ v.cmds = w.cmds /\ v.stdin = w.stdin
      /\ v.chan.phase = w.chan.phase /\ v.chan.timed = w.chan.timed
  BY <1>1 DEF Release, Session, ChannelType
<1> HIDE DEF v
<1>3. Carries(w, v)
  BY <1>2 DEF Carries, Handed, Written, InPhase
<1> QED
  BY <1>3 DEF v, Cleared

LEMMA CarriesConcluded ==
  ASSUME NEW n, NEW T, NEW w, Good(w, n, T), NEW c \in w.chan.due
  PROVE  Carries(w, Concluded(w, c))
<1>1. /\ w \in Session /\ c \in Commands /\ c \in w.pending
      /\ w.cmds[c].delivery \in {"sending", "received"}
      /\ w.cmds[c].status = "queued" /\ w.cmds[c].target \in Commands
  <2>1. w \in Session /\ c \in Commands
    BY Fields DEF Good, ChannelType
  <2>2. c \in w.pending
    BY DEF Good, OpenInputs
  <2>3. w.cmds[c].delivery \in {"sending", "received"}
    BY <2>2 DEF Good, OpenInputs
  <2> QED
    BY <2>1, <2>2, <2>3 DEF Good, Tried
<1> DEFINE x == Cleared(w, c)
           b == w.cmds[c].target
           y == IF w.chan.phase[c] = "accepted" THEN Record(x, c, b)
                ELSE [x EXCEPT !.cmds[c].delivery = "uncertain"]
<1>2. Good(x, n, T) /\ x.cmds = w.cmds /\ c \notin x.pending /\ Carries(w, x)
  BY GoodCleared, CarriesCleared
<1>3. Concluded(w, c) = Drain(y)
  <2> DEFINE at(v) == Release([v EXCEPT !.pending = @ \ {c}, !.chan.due = @ \ {c}], c)
  <2>1. CASE w.chan.phase[c] = "accepted"
    <3>1. Concluded(w, c) = Drain(at(Record(w, c, b)))
      BY <2>1 DEF Concluded
    <3>2. at(Record(w, c, b)) = Record(x, c, b)
      BY <1>1, ClearedCommutes
    <3> QED
      BY <2>1, <3>1, <3>2
  <2>2. CASE w.chan.phase[c] # "accepted"
    <3>1. Concluded(w, c) = Drain(at([w EXCEPT !.cmds[c].delivery = "uncertain"]))
      BY <2>2 DEF Concluded
    <3>2. at([w EXCEPT !.cmds[c].delivery = "uncertain"]) = [x EXCEPT !.cmds[c].delivery = "uncertain"]
      BY <1>1, ClearedCommutes
    <3> QED
      BY <2>2, <3>1, <3>2
  <2> QED
    BY <2>1, <2>2
<1> HIDE DEF x
<1>4. Good(y, n, T) /\ Carries(x, y)
  <2>1. CASE w.chan.phase[c] = "accepted"
    <3>1. c \in T
      BY <2>1, <1>1 DEF Good, TakenOnly
    <3> DEFINE z == Record(x, c, b)
    <3>2. Good(z, n, T)
      BY <1>1, <1>2, <3>1, GoodRecord
    <3>3. Carries(x, z)
      BY <1>1, <1>2, CarriesRecord
    <3> QED
      BY <2>1, <3>2, <3>3
  <2>2. CASE w.chan.phase[c] # "accepted"
    BY <2>2, <1>1, <1>2, GoodDelivery, CarriesDelivery
  <2> QED
    BY <2>1, <2>2
<1> HIDE DEF y
<1>5. Carries(y, Drain(y))
  BY <1>4, CarriesDrain
<1> QED
  BY <1>2, <1>3, <1>4, <1>5, CarriesAll

\* The next command is a prompt, on a channel with no input.
LEMMA CarriesFresh ==
  ASSUME NEW w, NEW v, v.cmds = w.cmds, Written(v) \subseteq Written(w),
         v.chan.phase = NewChannel.phase
  PROVE  Carries(w, v)
<1>1. InPhase(v, "sent") = {} /\ InPhase(v, "received") = {}
  BY DEF InPhase, NewChannel
<1> QED
  BY <1>1 DEF Carries, Handed

LEMMA CarriesPrompted ==
  ASSUME NEW n, NEW T, NEW w, Good(w, n, T), NEW c \in Waiting(w)
  PROVE  Carries(w, Prompted(w, c))
<1> DEFINE v == Prompted(w, c)
           item == [kind |-> "prompt", of |-> c]
<1>1. /\ w \in Session /\ c \in Commands /\ w.cmds \in [Commands -> CommandType]
      /\ w.cmds[c].status = "queued" /\ w.cmds[c].mode # "steer"
  BY Fields DEF Good, Waiting
<1>2. w.cmds[c].delivery = "none"
  BY <1>1 DEF Good, Tried
<1>3. /\ v.cmds = [w.cmds EXCEPT ![c].status = "executing"]
      /\ v.stdin = Append(w.stdin, item) /\ v.chan = w.chan
  BY <1>1 DEF Prompted, Session
<1>4. item.kind # "input" /\ w.stdin \in Seq(WrittenType)
  BY DEF Good
<1> HIDE DEF v, item
<1>5. Written(v) = Written(w)
  BY <1>3, <1>4, NothingWritten
<1>6. \A d \in Commands : d # c => v.cmds[d] = w.cmds[d]
  BY <1>1, <1>3
<1>7. Handed(w) \subseteq Handed(v)
  BY <1>1, <1>2, <1>6 DEF Handed
<1>8. Carries(w, v)
  BY <1>3, <1>5, <1>7 DEF Carries, InPhase
<1> QED
  BY <1>8 DEF v

LEMMA CarriesExecute ==
  ASSUME NEW n, NEW T, NEW w, Good(w, n, T), NEW c \in Waiting(w), ~Busy(w)
  PROVE  Carries(w, Execute(w, c))
<1>1. w \in Session /\ w.pending = {} /\ c \in Commands
  BY DEF Good, Busy, Waiting
<1>2. CASE w.child.state \in {"closing", "exited"}
  <2> DEFINE v == [w EXCEPT !.child.ready = FALSE]
  <2>1. v.cmds = w.cmds /\ v.stdin = w.stdin /\ v.chan = w.chan
    BY <1>1 DEF Session
  <2>2. Execute(w, c) = v
    BY <1>2 DEF Execute
  <2> HIDE DEF v
  <2> QED
    BY <2>1, <2>2, CarriesAside
<1>3. CASE w.child.state \notin {"closing", "exited"}
  <2> DEFINE u == IF w.child.state = "live" /\ w.child.ready THEN BeginTurn(w) ELSE Spawned(w)
  <2>1. Good(u, n, T) /\ u.cmds = w.cmds /\ Carries(w, u)
    <3>1. CASE w.child.state = "live" /\ w.child.ready
      <4>1. Good(u, n, T) /\ ChannelOnly(w, u)
        BY <1>1, <3>1, GoodBeginTurn
      <4>2. u.chan.phase = NewChannel.phase
        BY <1>1, <3>1 DEF BeginTurn, Session, NewChannel
      <4> HIDE DEF u
      <4>3. u.cmds = w.cmds /\ u.stdin = w.stdin
        BY <1>1, <4>1, ChannelOnlyFields
      <4>4. Written(u) = Written(w)
        BY <4>3 DEF Written
      <4> QED
        BY <4>1, <4>2, <4>3, <4>4, CarriesFresh
    <3>2. CASE ~(w.child.state = "live" /\ w.child.ready)
      <4>1. u = Spawned(w) /\ Good(u, n, T) /\ u.cmds = w.cmds
        BY <1>1, <1>3, <3>2, GoodSpawned
      <4>2. u.chan = NewChannel /\ u.stdin = <<>>
        BY <1>1, <4>1 DEF Spawned, Session
      <4> HIDE DEF u
      <4>3. Written(u) = {}
        BY <4>2 DEF Written
      <4> QED
        BY <4>1, <4>2, <4>3, CarriesFresh
    <3> QED
      BY <3>1, <3>2
  <2>2. Execute(w, c) = Prompted(u, c)
    BY <1>3 DEF Execute
  <2> HIDE DEF u
  <2>3. c \in Waiting(u)
    BY <2>1 DEF Waiting
  <2>4. Carries(u, Prompted(u, c))
    BY <2>1, <2>3, CarriesPrompted
  <2> QED
    BY <2>1, <2>2, <2>4, CarriesAll
<1> QED
  BY <1>2, <1>3

LEMMA CarriesProcessNext ==
  ASSUME NEW n, NEW T, NEW w, Good(w, n, T)
  PROVE  Carries(w, ProcessNext(w))
<1>1. CASE Busy(w) \/ Members(w.queue) \cap Waiting(w) = {}
  BY <1>1, CarriesItself DEF ProcessNext
<1>2. CASE ~Busy(w) /\ Members(w.queue) \cap Waiting(w) # {}
  <2> DEFINE c == w.queue[FirstOf(w.queue, Waiting(w))]
  <2>1. w.queue \in Seq(Commands)
    BY Fields DEF Good
  <2>2. c \in Waiting(w)
    BY <1>2, <2>1, FirstIsFound
  <2>3. ProcessNext(w) = Execute(w, c)
    BY <1>2 DEF ProcessNext
  <2> HIDE DEF c
  <2> QED
    BY <1>2, <2>2, <2>3, CarriesExecute
<1> QED
  BY <1>1, <1>2

\* The end of a turn.
LEMMA CarriesArchived ==
  ASSUME NEW n, NEW T, NEW w, Good(w, n, T), NEW b \in Commands, w.cmds[b].status \in Began
  PROVE  Carries(w, Archived(w, b))
<1> DEFINE u == Left(w, b, "done")
           x == NoHold(u)
           v == [x EXCEPT !.turn = NoTurn]
<1>1. /\ w.cmds[b].delivery = "none" /\ b \notin w.pending
      /\ w.cmds[b].status \notin {"new", "recorded"}
  BY DEF Good, Tried, OpenInputs, Began
<1>2. Good(u, n, T)
  BY <1>1, GoodLeft
<1>3. Carries(w, u)
  BY <1>1, CarriesLeft DEF Handed
<1> HIDE DEF u
<1>4. Good(x, n, T) /\ Carries(u, x)
  BY <1>2, GoodNoHold, CarriesNoHold
<1> HIDE DEF x
<1>5. v.cmds = x.cmds /\ v.stdin = x.stdin /\ v.chan = x.chan
  BY <1>4 DEF Good, Session
<1>6. v = Archived(w, b)
  BY DEF Archived, u, x
<1> HIDE DEF v
<1>7. Carries(x, v)
  BY <1>5, CarriesAside
<1> QED
  BY <1>3, <1>4, <1>6, <1>7, CarriesAll

\* What is cleaned before an end of the turn runs is not the input's business.
LEMMA CarriesFinalize ==
  ASSUME NEW n, NEW T, NEW w, Good(w, n, T), NEW b \in Commands, w.cmds[b].status \in Began,
         NEW ready \in BOOLEAN
  PROVE  Carries(w, Finalize(w, b, ready))
<1> DEFINE u == Archived(w, b)
           x == [u EXCEPT !.seal = NoSeal, !.child.ready = ready]
<1>1. Good(u, n, T) /\ Carries(w, u)
  BY GoodArchived, CarriesArchived
<1>2. Finalize(w, b, ready) = ProcessNext(x)
  BY DEF Finalize
<1> HIDE DEF u
<1>3. u \in Session /\ u.child \in ChildType
  BY <1>1, Fields DEF Good
<1>4. /\ x.queue = u.queue /\ x.cmds = u.cmds /\ x.followUps = u.followUps /\ x.given = u.given
      /\ x.stdin = u.stdin /\ x.pending = u.pending /\ x.sender = u.sender /\ x.chan = u.chan
      /\ x.turn = u.turn /\ x.seal = NoSeal /\ x.child.state = u.child.state
  BY <1>3 DEF Session, ChildType
<1>5. x \in Session
  <2>1. NoSeal \in SealType /\ [u.child EXCEPT !.ready = ready] \in ChildType
    BY <1>3 DEF NoSeal, SealType, ChildType
  <2> QED
    BY <1>3, <2>1 DEF Session
<1> HIDE DEF x
<1>6. TurnKnown(x) /\ x.seal.on = "no" /\ x.stdin \in Seq(WrittenType)
      /\ (x.child.state # "live" => u.child.state # "live" \/ Unsettled(u) = {})
  BY <1>1, <1>4 DEF Good, TurnKnown, NoSeal
<1>7. Good(x, n, T)
  BY <1>1, <1>4, <1>5, <1>6, Turned
<1>8. Carries(u, x) /\ Carries(x, ProcessNext(x))
  BY <1>4, <1>7, CarriesAside, CarriesProcessNext
<1> QED
  BY <1>1, <1>2, <1>8, CarriesAll

LEMMA CarriesRunSeal ==
  ASSUME NEW n, NEW T, NEW w, Good(w, n, T), NEW seal, Runnable(w, seal)
  PROVE  Carries(w, RunSeal(w, seal))
<1> DEFINE x == [w EXCEPT !.seal = NoSeal, !.child.notices = FALSE]
<1>1. w \in Session /\ w.child \in ChildType
  BY Fields DEF Good
<1>2. /\ x.queue = w.queue /\ x.cmds = w.cmds /\ x.followUps = w.followUps /\ x.given = w.given
      /\ x.stdin = w.stdin /\ x.pending = w.pending /\ x.sender = w.sender /\ x.chan = w.chan
      /\ x.turn = w.turn /\ x.seal = NoSeal
      /\ x.child.state = w.child.state /\ x.child.ready = w.child.ready
  BY <1>1 DEF Session, ChildType
<1>3. x \in Session
  <2>1. NoSeal \in SealType /\ [w.child EXCEPT !.notices = FALSE] \in ChildType
    BY <1>1 DEF NoSeal, SealType, ChildType
  <2> QED
    BY <1>1, <2>1 DEF Session
<1>4. RunSeal(w, seal) = IF seal.on = "turn" THEN Finalize(x, seal.of, TRUE) ELSE x
  BY DEF RunSeal
<1> HIDE DEF x
<1>5. Good(x, n, T)
  BY <1>2, <1>3, Cleaned
<1>6. Carries(w, x)
  BY <1>2, CarriesAside
<1>7. CASE seal.on = "turn"
  <2>1. seal.of \in Commands /\ x.cmds[seal.of].status \in Began
    BY <1>2, <1>7 DEF Runnable
  <2>2. Carries(x, Finalize(x, seal.of, TRUE))
    BY <1>5, <2>1, CarriesFinalize
  <2> QED
    BY <1>4, <1>6, <1>7, <2>2, CarriesAll
<1>8. CASE seal.on # "turn"
  BY <1>4, <1>6, <1>8
<1> QED
  BY <1>7, <1>8

LEMMA CarriesSealTurn ==
  ASSUME NEW n, NEW T, NEW w, Good(w, n, T), NEW seal, Runnable(w, seal)
  PROVE  Carries(w, SealTurn(w, seal))
<1>1. CASE MayResume(w)
  <2> DEFINE v == [w EXCEPT !.seal = seal]
  <2>1. v.cmds = w.cmds /\ v.stdin = w.stdin /\ v.chan = w.chan
    BY DEF Good, Session
  <2>2. SealTurn(w, seal) = v
    BY <1>1 DEF SealTurn
  <2> HIDE DEF v
  <2> QED
    BY <2>1, <2>2, CarriesAside
<1>2. CASE ~MayResume(w)
  BY <1>2, CarriesRunSeal DEF SealTurn
<1> QED
  BY <1>1, <1>2

LEMMA CarriesSealInFlight ==
  ASSUME NEW n, NEW T, NEW w, Good(w, n, T), w.turn.inFlight # None
  PROVE  Carries(w, SealInFlight(w))
<1> DEFINE t == [w.turn EXCEPT !.early = FALSE]
           x == [w EXCEPT !.turn.early = FALSE]
           seal == [on |-> "turn", of |-> w.turn.inFlight]
<1>1. w \in Session /\ w.turn \in TurnType
  BY Fields DEF Good
<1>2. t \in TurnType /\ t.inFlight = w.turn.inFlight /\ t.early = FALSE
      /\ t.stopping = w.turn.stopping /\ t.spoke = w.turn.spoke
  BY <1>1 DEF TurnType
<1>3. x = [w EXCEPT !.turn = t]
  BY <1>1 DEF Session
<1>4. SealInFlight(w) = SealTurn(x, seal)
  BY DEF SealInFlight
<1> HIDE DEF t
<1>5. /\ x \in Session
      /\ x.queue = w.queue /\ x.cmds = w.cmds /\ x.followUps = w.followUps /\ x.given = w.given
      /\ x.stdin = w.stdin /\ x.pending = w.pending /\ x.sender = w.sender /\ x.chan = w.chan
      /\ x.turn = t /\ x.seal = w.seal /\ x.child = w.child
  BY <1>1, <1>2, <1>3 DEF Session
<1> HIDE DEF x
<1>6. Good(x, n, T) /\ Carries(w, x)
  BY <1>2, <1>5, Cleaned, CarriesAside
<1>7. Runnable(x, seal)
  <2>1. w.turn.inFlight \in Commands /\ seal \in SealType
    BY <1>1 DEF TurnType, SealType
  <2> QED
    BY <1>5, <2>1 DEF Runnable, Good, TurnKnown
<1>8. Carries(x, SealTurn(x, seal))
  BY <1>6, <1>7, CarriesSealTurn
<1> QED
  BY <1>4, <1>6, <1>8, CarriesAll

LEMMA CarriesResultEnds ==
  ASSUME NEW n, NEW T, NEW w, Good(w, n, T)
  PROVE  Carries(w, ResultEnds(w))
<1>1. CASE w.turn.inFlight = None
  <2> DEFINE seal == [on |-> "sleep", of |-> None]
  <2>1. Runnable(w, seal)
    BY DEF Runnable, SealType
  <2> QED
    BY <1>1, <2>1, CarriesSealTurn DEF ResultEnds
<1>2. CASE w.turn.inFlight # None /\ BeforeOwnTurn(w)
  <2> DEFINE v == [w EXCEPT !.seal = NoSeal, !.child.notices = FALSE, !.turn.early = TRUE]
  <2>1. v.cmds = w.cmds /\ v.stdin = w.stdin /\ v.chan = w.chan
    BY DEF Good, Session
  <2>2. ResultEnds(w) = v
    BY <1>2 DEF ResultEnds
  <2> HIDE DEF v
  <2> QED
    BY <2>1, <2>2, CarriesAside
<1>3. CASE w.turn.inFlight # None /\ ~BeforeOwnTurn(w)
  BY <1>3, CarriesSealInFlight DEF ResultEnds
<1> QED
  BY <1>1, <1>2, <1>3

\* A result settles the inputs it names.
LEMMA CarriesDefer ==
  ASSUME NEW n, NEW T, NEW w, Good(w, n, T), NEW line, line.names \subseteq T
  PROVE  LET v == Defer(w, line)
         IN Carries(w, v) /\ Unsettled(v) = Unsettled(w) \ line.names
<1> DEFINE u == NoHold(w)
           named == line.names \cap Unsettled(w)
           x == Settled(u, named, "accepted")
           v == Defer(w, line)
<1>1. Good(u, n, T) /\ Carries(w, u)
  BY GoodNoHold, CarriesNoHold
<1>2. Unsettled(u) = Unsettled(w)
  BY DEF NoHold, Unsettled, Good, Session, ChannelType
<1>3. v = IF line.left THEN [x EXCEPT !.chan.finalizing = TRUE]
          ELSE [x EXCEPT !.chan.finalizing = TRUE, !.chan.hold = TRUE,
                         !.chan.waitFor = Unsettled(x), !.chan.timed = @ \cup Unsettled(x)]
  BY DEF Defer
<1> HIDE DEF u
<1>4. named \subseteq Unsettled(u) /\ named \subseteq T
  BY <1>2
<1>5. Good(x, n, T)
  BY <1>1, <1>4, GoodSettled
<1>6. Carries(u, x) /\ Unsettled(x) = Unsettled(u) \ named
  BY <1>1, <1>4, CarriesSettled
<1>7. Unsettled(x) = Unsettled(w) \ line.names
  BY <1>2, <1>6
<1> HIDE DEF x, v, named
<1>8. x \in Session /\ x.chan \in ChannelType
  BY <1>5, Fields DEF Good
<1>9. /\ v.cmds = x.cmds /\ v.stdin = x.stdin
      /\ v.chan.phase = x.chan.phase /\ x.chan.timed \subseteq v.chan.timed
  <2>1. CASE line.left
    BY <1>3, <1>8, <2>1 DEF Session, ChannelType
  <2>2. CASE ~line.left
    BY <1>3, <1>8, <2>2 DEF Session, ChannelType
  <2> QED
    BY <2>1, <2>2
<1>10. Carries(x, v) /\ Unsettled(v) = Unsettled(x)
  BY <1>9 DEF Carries, Handed, Written, InPhase, Unsettled
<1>11. Carries(w, v)
  BY <1>1, <1>6, <1>10, CarriesAll
<1> QED
  BY <1>7, <1>10, <1>11 DEF v

LEMMA CarriesSays ==
  ASSUME NEW n, NEW T, NEW w, Good(w, n, T)
  PROVE  Carries(w, Says(w))
<1> DEFINE u == NoHold(w)
           y == [u EXCEPT !.chan.finalizing = FALSE,
                          !.child.notices = IF w.seal.on = "no" THEN @ ELSE FALSE,
                          !.seal = NoSeal]
           v == Says(w)
<1>1. Good(u, n, T) /\ Carries(w, u)
  BY GoodNoHold, CarriesNoHold
<1>2. v = IF w.turn.inFlight = None THEN y ELSE [y EXCEPT !.turn.spoke = TRUE, !.turn.early = FALSE]
  BY DEF Says
<1> HIDE DEF u, v
<1>3. u \in Session /\ u.chan \in ChannelType
  BY <1>1, Fields DEF Good
<1>4. /\ v.cmds = u.cmds /\ v.stdin = u.stdin
      /\ v.chan.phase = u.chan.phase /\ v.chan.timed = u.chan.timed
  <2>1. DOMAIN y = DOMAIN u /\ "turn" \in DOMAIN u /\ "chan" \in DOMAIN u
    BY <1>3 DEF Session
  <2>2. /\ y.cmds = u.cmds /\ y.stdin = u.stdin
        /\ y.chan.phase = u.chan.phase /\ y.chan.timed = u.chan.timed
    BY <1>3 DEF Session, ChannelType
  <2>3. {"cmds", "stdin", "chan"} \subseteq DOMAIN y
    BY <1>3, <2>1 DEF Session
  <2> HIDE DEF y
  <2> QED
    BY <1>2, <2>2, <2>3
<1> HIDE DEF v
<1>5. Carries(u, v)
  BY <1>4 DEF Carries, Handed, Written, InPhase
<1> QED
  BY <1>1, <1>5, CarriesAll DEF v

\* A line that is no receipt; one that tells what became of an input settles it.
LEMMA CarriesHandleLine ==
  ASSUME NEW n, NEW T, NEW w, Good(w, n, T), NEW line \in SaidType(T), line.kind # "queued"
  PROVE  LET v == HandleLine(w, line)
         IN /\ Carries(w, v)
            /\ line.kind = "taken" => line.of \notin Unsettled(v)
            /\ line.kind = "result" =>
                 line.names \cap (InPhase(v, "received") \cup (InPhase(v, "sent") \cap Handed(w))) = {}
<1> DEFINE v == HandleLine(w, line)
<1>0. w \in Session
  BY DEF Good
<1>1. CASE line.kind = "taken"
  <2>1. v = Accept(w, line.of)
    BY <1>1 DEF HandleLine
  <2>2. line.of \in T
    BY <1>1 DEF SaidType
  <2>3. line.of \in Unsettled(w) => line.of \in Commands
    BY DEF Unsettled
  <2>4. CASE line.of \in Commands
    BY <1>1, <2>1, <2>2, <2>4, CarriesAccept
  <2>5. CASE line.of \notin Commands
    BY <1>1, <2>1, <2>3, <2>5, CarriesItself DEF Accept
  <2> QED
    BY <2>4, <2>5
<1>2. CASE line.kind = "says"
  BY <1>2, CarriesSays DEF HandleLine
<1>3. CASE line.kind \in {"taskStart", "taskEnd"}
  <2>1. v = [w EXCEPT !.child.tasks = TRUE]
        \/ v = [w EXCEPT !.child.tasks = FALSE, !.child.notices = TRUE]
    BY <1>3 DEF HandleLine
  <2> HIDE DEF v
  <2>2. v.cmds = w.cmds /\ v.stdin = w.stdin /\ v.chan = w.chan
    BY <1>0, <2>1 DEF Session
  <2>3. Carries(w, v)
    BY <2>2, CarriesAside
  <2> QED
    BY <1>3, <2>3 DEF v
<1>4. CASE line.kind = "result"
  <2>1. line.names \subseteq T
    BY <1>4 DEF SaidType
  <2>2. CASE Followed(w) # {}
    <3>1. v = Defer(w, line)
      BY <1>4, <2>2 DEF HandleLine
    <3>2. Carries(w, Defer(w, line)) /\ Unsettled(Defer(w, line)) = Unsettled(w) \ line.names
      BY <2>1, CarriesDefer
    <3> HIDE DEF v
    <3>3. Carries(w, v) /\ Unsettled(v) \cap line.names = {}
      BY <3>1, <3>2
    <3>4. InPhase(v, "received") \subseteq Unsettled(v) /\ InPhase(v, "sent") \subseteq Unsettled(v)
      BY DEF InPhase, Unsettled
    <3>5. line.names \cap (InPhase(v, "received") \cup (InPhase(v, "sent") \cap Handed(w))) = {}
      BY <3>3, <3>4
    <3> QED
      BY <1>4, <3>3, <3>5 DEF v
  <2>3. CASE Followed(w) = {}
    <3>1. v = ResultEnds(w)
      BY <1>4, <2>3 DEF HandleLine
    <3> HIDE DEF v
    <3>2. Carries(w, v)
      BY <3>1, CarriesResultEnds
    <3>3. InPhase(w, "sent") = {} /\ InPhase(w, "received") = {}
      BY <2>3 DEF Followed, InPhase
    <3>4. InPhase(v, "received") = {} /\ InPhase(v, "sent") \cap Handed(w) = {}
      BY <3>2, <3>3 DEF Carries
    <3> QED
      BY <1>4, <3>2, <3>4 DEF v
  <2> QED
    BY <2>2, <2>3
<1>5. line.kind \in {"taken", "says", "taskStart", "taskEnd", "result"}
  BY DEF SaidType
<1> QED
  BY <1>1, <1>2, <1>3, <1>4, <1>5

LEMMA CarriesSettleStopped ==
  ASSUME NEW n, NEW T, NEW w, Good(w, n, T)
  PROVE  Carries(w, SettleStopped(w))
<1> DEFINE x == [w EXCEPT !.turn.early = FALSE, !.turn.stopping = FALSE]
           turn == [w.turn EXCEPT !.early = FALSE, !.stopping = FALSE]
<1>1. w \in Session /\ w.turn \in TurnType
  BY Fields DEF Good
<1>2. turn \in TurnType /\ turn.inFlight = w.turn.inFlight /\ turn.early = FALSE
      /\ turn.stopping = FALSE /\ turn.spoke = w.turn.spoke
  BY <1>1 DEF TurnType
<1>3. x = [w EXCEPT !.turn = turn]
  BY <1>1 DEF Session, TurnType
<1> HIDE DEF turn
<1>4. /\ x \in Session
      /\ x.queue = w.queue /\ x.cmds = w.cmds /\ x.followUps = w.followUps /\ x.given = w.given
      /\ x.pending = w.pending /\ x.sender = w.sender /\ x.chan = w.chan /\ x.stdin = w.stdin
      /\ x.seal = w.seal /\ x.turn = turn /\ x.child = w.child
  BY <1>1, <1>2, <1>3 DEF Session
<1>5. SettleStopped(w) =
        IF w.seal.on # "no" THEN [RunSeal(x, w.seal) EXCEPT !.child.ready = FALSE]
        ELSE IF w.turn.inFlight = None THEN x
        ELSE Finalize(x, w.turn.inFlight, FALSE)
  BY DEF SettleStopped
<1> HIDE DEF x
<1>6. Good(x, n, T) /\ Carries(w, x)
  BY <1>2, <1>4, Cleaned, CarriesAside
<1>7. CASE w.seal.on # "no"
  <2> DEFINE y == RunSeal(x, w.seal)
             z == [y EXCEPT !.child.ready = FALSE]
  <2>1. Runnable(x, w.seal)
    BY <1>1, <1>4, Fields DEF Runnable, Good, TurnKnown
  <2>2. Good(y, n, T) /\ Carries(x, y)
    BY <1>6, <2>1, GoodRunSeal, CarriesRunSeal
  <2>3. SettleStopped(w) = z
    BY <1>5, <1>7
  <2> HIDE DEF y
  <2>4. z.cmds = y.cmds /\ z.stdin = y.stdin /\ z.chan = y.chan
    BY <2>2 DEF Good, Session
  <2> HIDE DEF z
  <2>5. Carries(y, z)
    BY <2>4, CarriesAside
  <2> QED
    BY <1>6, <2>2, <2>3, <2>5, CarriesAll
<1>8. CASE w.seal.on = "no" /\ w.turn.inFlight = None
  BY <1>5, <1>6, <1>8
<1>9. CASE w.seal.on = "no" /\ w.turn.inFlight # None
  <2> DEFINE b == w.turn.inFlight
  <2>1. b \in Commands /\ x.cmds[b].status \in Began
    BY <1>1, <1>4, <1>9 DEF TurnType, Good, TurnKnown
  <2>2. SettleStopped(w) = Finalize(x, b, FALSE)
    BY <1>5, <1>9
  <2> HIDE DEF b
  <2>3. Carries(x, Finalize(x, b, FALSE))
    BY <1>6, <2>1, CarriesFinalize
  <2> QED
    BY <1>6, <2>2, <2>3, CarriesAll
<1> QED
  BY <1>7, <1>8, <1>9

\* What is written may be lost with the process.
LEMMA CarriesCancelEnding ==
  ASSUME NEW n, NEW T, NEW w, Good(w, n, T), NEW child \in ChildType, NEW turn,
         NEW s, s \in {w.stdin, <<>>}
  PROVE  Carries(w, CancelEnding(w, child, turn, s))
<1> DEFINE x == Cancel(w)
           v == CancelEnding(w, child, turn, s)
<1>1. Good(x, n, T) /\ ChannelOnly(w, x) /\ Carries(w, x)
  BY GoodCancel, CarriesCancel
<1>2. w \in Session /\ x \in Session
  BY <1>1 DEF Good
<1>3. v = [[x EXCEPT !.child = child] EXCEPT !.turn = turn, !.stdin = s]
  BY <1>2, CancelBesideProcess DEF CancelEnding
<1>4. x.stdin = w.stdin
  BY <1>1, <1>2, ChannelOnlyFields
<1> HIDE DEF x, v
<1>5. v.cmds = x.cmds /\ v.chan = x.chan /\ v.stdin = s
  BY <1>2, <1>3 DEF Session
<1>6. Written(v) \subseteq Written(x)
  BY <1>4, <1>5 DEF Written
<1>7. Carries(x, v)
  BY <1>5, <1>6 DEF Carries, Handed, InPhase
<1> QED
  BY <1>1, <1>7, CarriesAll DEF v

LEMMA CarriesStop ==
  ASSUME NEW n, NEW T, NEW w, Good(w, n, T)
  PROVE  Carries(w, Stop(w))
<1> DEFINE u == [w EXCEPT !.child.tasks = FALSE, !.child.notices = FALSE]
           plain == [w.child EXCEPT !.tasks = FALSE, !.notices = FALSE]
           child == [plain EXCEPT !.intentional = TRUE,
                                  !.state = IF @ = "live" THEN "closing" ELSE @]
           x == [u EXCEPT !.child.intentional = TRUE,
                          !.child.state = IF @ = "live" THEN "closing" ELSE @]
<1>1. w \in Session /\ w.child \in ChildType
  BY Fields DEF Good
<1>2. plain \in ChildType /\ plain.state = w.child.state /\ plain.ready = w.child.ready
  BY <1>1 DEF ChildType
<1>3. u = [w EXCEPT !.child = plain]
  BY <1>1 DEF Session, ChildType
<1> HIDE DEF plain
<1>4. Good(u, n, T)
  BY <1>2, <1>3, GoodTaskLine
<1>5. /\ u \in Session /\ u.child = plain /\ u.chan = w.chan /\ u.turn = w.turn
      /\ u.stdin = w.stdin /\ u.cmds = w.cmds
  BY <1>1, <1>3, <1>4 DEF Good, Session
<1>6. Stop(w) = IF w.child.state = "none" THEN u
                ELSE IF Followed(w) # {} THEN [Cancel(x) EXCEPT !.turn.stopping = TRUE]
                ELSE SettleStopped(x)
  BY DEF Stop
<1> HIDE DEF u
<1>7. x = [u EXCEPT !.child = child]
  BY <1>2, <1>5 DEF Session, ChildType
<1>8. child \in ChildType /\ (w.child.state # "none" => child.state \in {"closing", "exited"})
  BY <1>2 DEF ChildType
<1> HIDE DEF x, child
<1>9. Carries(w, u)
  BY <1>5, CarriesAside
<1>10. CASE w.child.state = "none"
  BY <1>6, <1>9, <1>10
<1>11. CASE w.child.state # "none" /\ Followed(w) # {}
  <2> DEFINE v == [Cancel(x) EXCEPT !.turn.stopping = TRUE]
             turn == [u.turn EXCEPT !.stopping = TRUE]
             z == Cancel(x)
  <2>1. v = CancelEnding(u, child, turn, u.stdin)
    <3>1. Cancel(u) \in Session /\ Cancel(u).turn = u.turn /\ Cancel(u).stdin = u.stdin
      BY <1>4, <1>5, GoodCancel, ChannelOnlyFields DEF Good
    <3>2. z = [Cancel(u) EXCEPT !.child = child]
      BY <1>5, <1>7, <1>8, CancelBesideProcess
    <3>3. z \in Session /\ z.turn = u.turn /\ z.stdin = u.stdin
      BY <1>8, <3>1, <3>2 DEF Session
    <3> HIDE DEF z
    <3> QED
      BY <1>7, <3>3 DEF Session, z, CancelEnding
  <2>2. Stop(w) = v
    BY <1>6, <1>11
  <2> HIDE DEF v, turn
  <2>3. Carries(u, v)
    BY <1>4, <1>8, <2>1, CarriesCancelEnding
  <2> QED
    BY <1>9, <2>2, <2>3, CarriesAll
<1>12. CASE w.child.state # "none" /\ Followed(w) = {}
  <2>1. Unsettled(u) = {} /\ u.child.state # "none" /\ child.state \in {"closing", "exited"}
    BY <1>2, <1>5, <1>8, <1>12 DEF Followed, Unsettled
  <2>2. Good(x, n, T)
    BY <1>4, <1>7, <1>8, <2>1, GoodEnding
  <2>3. x.cmds = u.cmds /\ x.stdin = u.stdin /\ x.chan = u.chan
    BY <1>5, <1>7 DEF Session
  <2>4. Carries(u, x) /\ Carries(x, SettleStopped(x))
    BY <2>2, <2>3, CarriesAside, CarriesSettleStopped
  <2>5. Stop(w) = SettleStopped(x)
    BY <1>6, <1>12
  <2> QED
    BY <1>9, <2>4, <2>5, CarriesAll
<1> QED
  BY <1>10, <1>11, <1>12

LEMMA CarriesSoftInterrupt ==
  ASSUME NEW n, NEW T, NEW w, Good(w, n, T)
  PROVE  Carries(w, SoftInterrupt(w))
<1> DEFINE u == CancelPending(w)
           item == [kind |-> "interrupt", of |-> None]
           v == SoftInterrupt(w)
<1>1. Good(u, n, T) /\ Carries(w, u)
  BY GoodCancelPending, CarriesCancelPending
<1>2. v = [u EXCEPT !.turn.cut = TRUE, !.turn.fallback = TRUE,
                    !.stdin = IF w.child.state = "live" THEN Append(@, item) ELSE @]
  BY DEF SoftInterrupt
<1> HIDE DEF u, v
<1>3. u \in Session /\ u.stdin \in Seq(WrittenType)
  BY <1>1 DEF Good
<1>4. /\ v.cmds = u.cmds /\ v.chan = u.chan
      /\ v.stdin = u.stdin \/ v.stdin = Append(u.stdin, item)
  BY <1>2, <1>3 DEF Session
<1>5. item.kind # "input"
  OBVIOUS
<1> HIDE DEF item
<1>6. Written(v) = Written(u)
  <2>1. CASE v.stdin = u.stdin
    BY <2>1 DEF Written
  <2>2. CASE v.stdin = Append(u.stdin, item)
    BY <1>3, <1>5, <2>2, NothingWritten
  <2> QED
    BY <1>4, <2>1, <2>2
<1>7. Carries(u, v)
  BY <1>4, <1>6 DEF Carries, Handed, InPhase
<1> QED
  BY <1>1, <1>7, CarriesAll DEF v

LEMMA CarriesInterrupted ==
  ASSUME NEW n, NEW T, NEW w, Good(w, n, T), NEW c \in Commands, w.cmds[c].status = "queued"
  PROVE  Carries(w, Interrupted(w, c))
<1> DEFINE q == Prioritized(w.queue, c, Status(w, "queued"))
           x == [w EXCEPT !.queue = q]
           v == Interrupted(w, c)
<1>1. w \in Session /\ w.queue \in Seq(Commands) /\ NoRepeat(w.queue) /\ c \in Members(w.queue)
  BY Fields DEF Good, Placed
<1>2. q \in Seq(Commands) /\ NoRepeat(q) /\ Members(q) = Members(w.queue)
  BY <1>1, PutAhead
<1>3. x = [w EXCEPT !.queue = Prioritized(@, c, Status(w, "queued"))]
  BY <1>1 DEF Session
<1> HIDE DEF q
<1>4. Good(x, n, T)
  BY <1>2, GoodRequeued
<1>5. x.cmds = w.cmds /\ x.stdin = w.stdin /\ x.chan = w.chan
  BY <1>1 DEF Session
<1>6. v = IF ~Processing(x) THEN ProcessNext(x)
          ELSE IF x.seal.on # "no" THEN RunSeal(x, x.seal)
          ELSE IF x.turn.inFlight # None /\ x.child.state \in {"live", "closing"}
          THEN SoftInterrupt(x)
          ELSE Stop(x)
  BY <1>3 DEF Interrupted
<1> HIDE DEF x, v
<1>7. Carries(w, x)
  BY <1>5, CarriesAside
<1>8. Carries(x, ProcessNext(x)) /\ Carries(x, SoftInterrupt(x)) /\ Carries(x, Stop(x))
  BY <1>4, CarriesProcessNext, CarriesSoftInterrupt, CarriesStop
<1>9. x.seal.on # "no" => Carries(x, RunSeal(x, x.seal))
  <2>1. Runnable(x, x.seal)
    BY <1>4, Fields DEF Runnable, Good, TurnKnown
  <2> QED
    BY <1>4, <2>1, CarriesRunSeal
<1>10. Carries(x, v)
  BY <1>6, <1>8, <1>9
<1> QED
  BY <1>7, <1>10, CarriesAll DEF v

LEMMA CarriesDispatched ==
  ASSUME NEW n, NEW T, NEW w, Good(w, n, T), NEW c \in Commands, w.cmds[c].status = "queued",
         NEW m \in Modes
  PROVE  Carries(w, Dispatched(w, c, m))
<1>1. CASE m = "immediate"
  BY <1>1, CarriesInterrupted DEF Dispatched
<1>2. CASE m = "steer"
  <2> DEFINE u == TrySend(w, c)
  <2>1. Dispatched(w, c, m) = ProcessNext(u)
    BY <1>2 DEF Dispatched
  <2>2. Good(u, n, T) /\ Carries(w, u)
    BY GoodTrySend, CarriesTrySend
  <2> HIDE DEF u
  <2>3. Carries(u, ProcessNext(u))
    BY <2>2, CarriesProcessNext
  <2> QED
    BY <2>1, <2>2, <2>3, CarriesAll
<1>3. CASE m = "wait"
  BY <1>3, CarriesProcessNext DEF Dispatched
<1> QED
  BY <1>1, <1>2, <1>3 DEF Modes

\* A command that is queued, or asked for in another way, was handed to nobody.
LEMMA CarriesQueued ==
  ASSUME NEW w, w \in Session, NEW c \in Commands, c \notin Handed(w), NEW k, NEW q
  PROVE  Carries(w, Queued(w, c, k, q))
<1> DEFINE v == Queued(w, c, k, q)
<1>1. v.cmds = [w.cmds EXCEPT ![c] = k] /\ v.stdin = w.stdin /\ v.chan = w.chan
  BY DEF Queued, Session
<1>2. \A d \in Commands : d # c => v.cmds[d] = w.cmds[d]
  BY <1>1, Fields
<1> HIDE DEF v
<1>3. Handed(w) \subseteq Handed(v)
  BY <1>2 DEF Handed
<1>4. Carries(w, v)
  BY <1>1, <1>3 DEF Carries, Written, InPhase
<1> QED
  BY <1>4 DEF v

LEMMA CarriesPost ==
  ASSUME NEW n, NEW T, NEW w, Good(w, n, T), NEW c \in Commands, NEW m \in Modes,
         w.cmds[c].status = "new"
  PROVE  Carries(w, Dispatched([w EXCEPT !.queue = Append(@, c), !.cmds[c].mode = m,
                                         !.cmds[c].status = "queued"], c, m))
<1> DEFINE x == [w EXCEPT !.queue = Append(@, c), !.cmds[c].mode = m,
                          !.cmds[c].status = "queued"]
           k == [w.cmds[c] EXCEPT !.mode = m, !.status = "queued"]
           q == Append(w.queue, c)
<1>1. w \in Session /\ w.cmds \in [Commands -> CommandType] /\ w.queue \in Seq(Commands)
      /\ w.cmds[c] \in CommandType
  BY Fields DEF Good
<1>2. w.cmds[c].delivery = "none" /\ c \notin Members(w.queue) /\ c \notin w.pending
      /\ NoRepeat(w.queue) /\ c \notin Handed(w)
  BY DEF Good, Tried, Placed, OpenInputs, Handed
<1>3. q \in Seq(Commands) /\ NoRepeat(q) /\ Members(q) = Members(w.queue) \cup {c}
  BY <1>1, <1>2, PutLast
<1>4. /\ k \in CommandType /\ k.status = "queued" /\ k.delivery = "none"
      /\ k.resumed = w.cmds[c].resumed
  BY <1>1, <1>2 DEF CommandType, Statuses
<1>5. x = Queued(w, c, k, q)
  BY <1>1 DEF Queued, Session, CommandType
<1> HIDE DEF x, k, q
<1>6. Good(x, n, T) /\ x.cmds[c] = k
  BY <1>2, <1>3, <1>4, <1>5, GoodQueued
<1>7. Carries(w, x)
  BY <1>1, <1>2, <1>5, CarriesQueued
<1>8. Carries(x, Dispatched(x, c, m))
  BY <1>4, <1>6, CarriesDispatched
<1> QED
  BY <1>7, <1>8, CarriesAll DEF x

LEMMA CarriesMode ==
  ASSUME NEW n, NEW T, NEW w, Good(w, n, T), NEW c \in Commands, NEW m \in Modes,
         w.cmds[c].status = "queued", ~Locked(w, c)
  PROVE  LET x == [w EXCEPT !.cmds[c].mode = m, !.cmds[c].delivery = "none"]
         IN Carries(w, x) /\ Carries(w, Dispatched(x, c, m))
<1> DEFINE x == [w EXCEPT !.cmds[c].mode = m, !.cmds[c].delivery = "none"]
           k == [w.cmds[c] EXCEPT !.mode = m, !.delivery = "none"]
           q == w.queue
<1>1. w \in Session /\ w.cmds \in [Commands -> CommandType] /\ w.queue \in Seq(Commands)
      /\ w.cmds[c] \in CommandType
  BY Fields DEF Good
<1>2. w.cmds[c].delivery \in {"none", "unavailable"} /\ c \notin w.pending /\ c \notin Handed(w)
  BY <1>1 DEF Locked, CommandType, Deliveries, Handed
<1>3. q \in Seq(Commands) /\ NoRepeat(q) /\ Members(q) = Members(w.queue) \cup {c}
  BY <1>1 DEF Good, Placed
<1>4. /\ k \in CommandType /\ k.status = "queued" /\ k.delivery = "none"
      /\ k.resumed = w.cmds[c].resumed
  BY <1>1 DEF CommandType, Deliveries
<1>5. x = Queued(w, c, k, q)
  BY <1>1 DEF Queued, Session, CommandType
<1> HIDE DEF x, k, q
<1>6. Good(x, n, T) /\ x.cmds[c] = k
  BY <1>2, <1>3, <1>4, <1>5, GoodQueued
<1>7. Carries(w, x)
  BY <1>1, <1>2, <1>5, CarriesQueued
<1>8. Carries(x, Dispatched(x, c, m))
  BY <1>4, <1>6, CarriesDispatched
<1> QED
  BY <1>7, <1>8, CarriesAll DEF x

\* What the user stops was handed to nobody.
LEMMA CarriesWithoutDropped ==
  ASSUME NEW n, NEW T, NEW w, Good(w, n, T)
  PROVE  Carries(w, WithoutDropped(w))
<1> DEFINE v == WithoutDropped(w)
<1>1. w \in Session /\ w.cmds \in [Commands -> CommandType]
  BY Fields DEF Good
<1>2. /\ v.stdin = w.stdin /\ v.chan = w.chan
      /\ \A c \in Commands : c \notin Dropped(w) => v.cmds[c] = w.cmds[c]
  BY <1>1 DEF WithoutDropped, Session
<1> HIDE DEF v
<1>3. \A c \in Commands : c \in Dropped(w) => c \notin Handed(w)
  BY DEF Dropped, Status, Locked, Handed
<1>4. Handed(w) \subseteq Handed(v)
  BY <1>2, <1>3 DEF Handed
<1>5. Carries(w, v)
  BY <1>2, <1>4 DEF Carries, Written, InPhase
<1> QED
  BY <1>5 DEF v

LEMMA CarriesSealedIfDead ==
  ASSUME NEW n, NEW T, NEW w, Good(w, n, T)
  PROVE  Carries(w, SealedIfDead(w))
<1>1. CASE w.child.state # "none" \/ Executing(w) = {}
  BY <1>1, CarriesItself DEF SealedIfDead
<1>2. CASE w.child.state = "none" /\ Executing(w) # {}
  <2> DEFINE b == CHOOSE c \in Executing(w) : TRUE
  <2>1. b \in Commands /\ w.cmds[b].status = "executing"
    BY <1>2 DEF Executing, Status
  <2>2. SealedIfDead(w) = Left(w, b, "done")
    BY <1>2 DEF SealedIfDead
  <2> HIDE DEF b
  <2>3. b \notin Handed(w)
    BY <2>1 DEF Good, Tried, Handed
  <2> QED
    BY <2>1, <2>2, <2>3, CarriesLeft
<1> QED
  BY <1>1, <1>2

LEMMA CarriesStopSession ==
  ASSUME NEW n, NEW T, NEW w, Good(w, n, T)
  PROVE  Carries(w, SealedIfDead(Stop(WithoutDropped(w))))
<1> DEFINE x == WithoutDropped(w)
           y == Stop(x)
           v == SealedIfDead(y)
<1>1. Good(x, n, T) /\ Carries(w, x)
  BY GoodWithoutDropped, CarriesWithoutDropped
<1> HIDE DEF x
<1>2. Good(y, n, T) /\ Carries(x, y)
  BY <1>1, GoodStop, CarriesStop
<1> HIDE DEF y
<1>3. Carries(y, v)
  BY <1>2, CarriesSealedIfDead
<1> HIDE DEF v
<1>4. Carries(w, v)
  BY <1>1, <1>2, <1>3, CarriesAll
<1> QED
  BY <1>4 DEF v, y, x

LEMMA CarriesDelete ==
  ASSUME NEW n, NEW T, NEW w, Good(w, n, T), NEW c \in Commands, ~Locked(w, c),
         w.cmds[c].status \in {"queued", "executing"}
  PROVE  LET x == Left(w, c, "deleted")
         IN Carries(w, x) /\ Carries(w, ProcessNext(x))
<1> DEFINE x == Left(w, c, "deleted")
<1>1. Good(x, n, T)
  BY HandledDelete
<1>2. c \notin Handed(w)
  BY DEF Locked, Handed
<1>3. Carries(w, x)
  BY <1>2, CarriesLeft
<1> HIDE DEF x
<1>4. Carries(x, ProcessNext(x))
  BY <1>1, CarriesProcessNext
<1>5. Carries(w, ProcessNext(x))
  BY <1>3, <1>4, CarriesAll
<1> QED
  BY <1>3, <1>5 DEF x

LEMMA CarriesClosed ==
  ASSUME NEW n, NEW T, NEW w, Good(w, n, T), w.child.state = "exited"
  PROVE  Carries(w, Closed(w))
<1> DEFINE child == [NoChild EXCEPT !.notices = w.child.notices /\ ~w.child.tasks]
           b == w.turn.inFlight
           x == [w EXCEPT !.child = child, !.turn = NoTurn]
           v == Closed(w)
<1>1. w \in Session /\ w.child \in ChildType /\ w.turn \in TurnType
  BY Fields DEF Good
<1>2. child \in ChildType /\ child.state = "none" /\ NoTurn \in TurnType
  BY <1>1 DEF NoChild, ChildType, NoTurn, TurnType
<1>3. NoTurn.inFlight = None /\ ~NoTurn.early /\ ~NoTurn.stopping /\ ~NoTurn.spoke
  BY DEF NoTurn
<1>4. v = IF w.child.intentional
          THEN IF b = None THEN ProcessNext(x) ELSE Finalize(x, b, FALSE)
          ELSE IF b = None THEN x ELSE ProcessNext(Archived(x, b))
  BY DEF Closed
<1> HIDE DEF child, v
<1>5. /\ x \in Session
      /\ x.queue = w.queue /\ x.cmds = w.cmds /\ x.followUps = w.followUps /\ x.given = w.given
      /\ x.pending = w.pending /\ x.sender = w.sender /\ x.chan = w.chan /\ x.stdin = w.stdin
      /\ x.seal = w.seal /\ x.turn = NoTurn /\ x.child = child
  BY <1>1, <1>2 DEF Session
<1> HIDE DEF x
<1>6. TurnKnown(x)
  BY <1>2, <1>3, <1>5 DEF Good, TurnKnown
<1>7. x.stdin \in Seq(WrittenType) /\ (x.seal.on # "no" => ~x.turn.spoke \/ w.pending = {})
  BY <1>3, <1>5 DEF Good, OpenInputs
<1>8. Good(x, n, T) /\ Carries(w, x)
  BY <1>5, <1>6, <1>7, Turned, CarriesAside
<1>9. b # None => b \in Commands /\ x.cmds[b].status \in Began
  BY <1>1, <1>5 DEF TurnType, Good, TurnKnown
<1> HIDE DEF b
<1>10. Carries(x, ProcessNext(x))
  BY <1>8, CarriesProcessNext
<1>11. ASSUME b # None
       PROVE  Carries(x, Finalize(x, b, FALSE)) /\ Carries(x, ProcessNext(Archived(x, b)))
  <2> DEFINE u == Archived(x, b)
  <2>1. Carries(x, Finalize(x, b, FALSE))
    BY <1>8, <1>9, <1>11, CarriesFinalize
  <2>2. Good(u, n, T) /\ Carries(x, u)
    BY <1>8, <1>9, <1>11, GoodArchived, CarriesArchived
  <2> HIDE DEF u
  <2>3. Carries(u, ProcessNext(u))
    BY <2>2, CarriesProcessNext
  <2>4. Carries(x, ProcessNext(u))
    BY <2>2, <2>3, CarriesAll
  <2> QED
    BY <2>1, <2>4 DEF u
<1>12. v = x \/ Carries(x, v)
  BY <1>4, <1>10, <1>11
<1>13. Carries(w, v)
  BY <1>8, <1>12, CarriesAll
<1> QED
  BY <1>13 DEF v

LEMMA CarriesHeldResult ==
  ASSUME NEW n, NEW T, NEW w, Good(w, n, T)
  PROVE  Carries(w, ResultEnds(NoHold(w)))
<1> DEFINE x == NoHold(w)
<1>1. Good(x, n, T) /\ Carries(w, x)
  BY GoodNoHold, CarriesNoHold
<1> HIDE DEF x
<1>2. Carries(x, ResultEnds(x))
  BY <1>1, CarriesResultEnds
<1>3. Carries(w, ResultEnds(x))
  BY <1>1, <1>2, CarriesAll
<1> QED
  BY <1>3 DEF x

LEMMA CarriesSeal ==
  ASSUME NEW n, NEW T, NEW w, Good(w, n, T), w.seal.on # "no"
  PROVE  Carries(w, RunSeal(w, w.seal))
<1>1. Runnable(w, w.seal)
  BY Fields DEF Runnable, Good, TurnKnown
<1> QED
  BY <1>1, CarriesRunSeal

LEMMA CarriesInterruptExpires ==
  ASSUME NEW n, NEW T, NEW w, Good(w, n, T)
  PROVE  LET x == [w EXCEPT !.turn.fallback = FALSE]
         IN Carries(w, IF x.seal.on # "no" THEN RunSeal(x, x.seal) ELSE Stop(x))
<1> DEFINE x == [w EXCEPT !.turn.fallback = FALSE]
           turn == [w.turn EXCEPT !.fallback = FALSE]
           v == IF x.seal.on # "no" THEN RunSeal(x, x.seal) ELSE Stop(x)
<1>1. w \in Session /\ w.turn \in TurnType
  BY Fields DEF Good
<1>2. turn \in TurnType /\ turn.inFlight = w.turn.inFlight /\ turn.early = w.turn.early
      /\ turn.stopping = w.turn.stopping /\ turn.spoke = w.turn.spoke
  BY <1>1 DEF TurnType
<1>3. x = [w EXCEPT !.turn = turn]
  BY <1>1 DEF Session
<1> HIDE DEF turn
<1>4. /\ x \in Session
      /\ x.queue = w.queue /\ x.cmds = w.cmds /\ x.followUps = w.followUps /\ x.given = w.given
      /\ x.stdin = w.stdin /\ x.pending = w.pending /\ x.sender = w.sender /\ x.chan = w.chan
      /\ x.seal = w.seal /\ x.turn = turn /\ x.child = w.child
  BY <1>1, <1>2, <1>3 DEF Session
<1> HIDE DEF x
<1>5. Good(x, n, T) /\ Carries(w, x)
  BY <1>2, <1>4, Cleaned, CarriesAside
<1>6. Carries(x, v)
  BY <1>5, CarriesSeal, CarriesStop
<1> HIDE DEF v
<1>7. Carries(w, v)
  BY <1>5, <1>6, CarriesAll
<1> QED
  BY <1>7 DEF v, x

LEMMA CarriesSettleLocked ==
  ASSUME NEW n, NEW T, NEW w, Good(w, n, T), NEW c \in Commands, LockedRecord(w, c)
  PROVE  Carries(w, SettleLocked(w, c))
<1> DEFINE b == w.cmds[c].target
<1>1. w.cmds[c].status = "queued" /\ w.cmds[c].delivery = "uncertain"
  BY DEF LockedRecord
<1>2. b \in Commands
  BY <1>1 DEF Good, Tried
<1>3. c \notin Members(w.followUps[b])
  BY <1>1, <1>2 DEF Good, Placed
<1>4. SettleLocked(w, c) = Record(w, c, b)
  BY <1>3 DEF SettleLocked
<1> HIDE DEF b
<1> QED
  BY <1>2, <1>4, CarriesRecord

LEMMA UserCarries ==
  ASSUME TurnsInv, User
  PROVE  Carries(session, session') /\ stdout' = stdout /\ engine' = engine
<1> DEFINE n == engine.restarts
           T == engine.took
<1>0. Good(session, n, T)
  BY DEF TurnsInv
<1> HIDE DEF n, T
<1> USE DEF Become
<1>1. ASSUME NEW c \in Commands, NEW m \in Modes, Post(c, m)
      PROVE  Carries(session, session')
  BY <1>0, <1>1, CarriesPost DEF Post
<1>2. ASSUME NEW c \in Commands, NEW m \in Modes, ChangeMode(c, m)
      PROVE  Carries(session, session')
  <2> DEFINE x == [session EXCEPT !.cmds[c].mode = m, !.cmds[c].delivery = "none"]
  <2>1. session' \in {x, Dispatched(x, c, m)}
    BY <1>2 DEF ChangeMode
  <2>2. session.cmds[c].status = "queued" /\ ~Locked(session, c)
    BY <1>2 DEF ChangeMode
  <2>3. Carries(session, x) /\ Carries(session, Dispatched(x, c, m))
    BY <1>0, <2>2, CarriesMode
  <2> HIDE DEF x
  <2> QED
    BY <2>1, <2>3
<1>3. ASSUME NEW c \in Commands, Delete(c)
      PROVE  Carries(session, session')
  <2> DEFINE x == Left(session, c, "deleted")
  <2>1. session' \in {x, ProcessNext(x)}
    BY <1>3 DEF Delete
  <2>2. session.cmds[c].status \in {"queued", "executing"} /\ ~Locked(session, c)
    BY <1>3, SessionAssumption DEF Delete
  <2>3. Carries(session, x) /\ Carries(session, ProcessNext(x))
    BY <1>0, <2>2, CarriesDelete
  <2> HIDE DEF x
  <2> QED
    BY <2>1, <2>3
<1>4. ASSUME NEW i \in DOMAIN session.queue, NEW j \in DOMAIN session.queue, Reorder(i, j)
      PROVE  Carries(session, session')
  <2> DEFINE v == [session EXCEPT !.queue = Moved(@, i, j)]
  <2>1. v.cmds = session.cmds /\ v.stdin = session.stdin /\ v.chan = session.chan
    BY <1>0 DEF Good, Session
  <2>2. session' = v
    BY <1>4 DEF Reorder
  <2> HIDE DEF v
  <2> QED
    BY <2>1, <2>2, CarriesAside
<1>5. ASSUME StopSession
      PROVE  Carries(session, session')
  BY <1>0, <1>5, CarriesStopSession DEF StopSession
<1>6. Carries(session, session')
  BY <1>1, <1>2, <1>3, <1>4, <1>5 DEF User
<1>7. stdout' = stdout /\ engine' = engine
  BY UserAdvances
<1> QED
  BY <1>6, <1>7

LEMMA TimersCarry ==
  ASSUME TurnsInv, Timers
  PROVE  Carries(session, session') /\ stdout' = stdout /\ engine' = engine
<1> DEFINE n == engine.restarts
           T == engine.took
<1>0. Good(session, n, T)
  BY DEF TurnsInv
<1> HIDE DEF n, T
<1> USE DEF Become
<1>1. ASSUME HeldResultEnds
      PROVE  Carries(session, session')
  BY <1>0, <1>1, CarriesHeldResult DEF HeldResultEnds
<1>2. ASSUME EarlyResultExpires
      PROVE  Carries(session, session')
  <2>1. session.turn.early /\ session' = SealInFlight(session)
    BY <1>2 DEF EarlyResultExpires
  <2>2. session.turn.inFlight # None
    BY <1>0, <2>1 DEF Good, TurnKnown
  <2> QED
    BY <1>0, <2>1, <2>2, CarriesSealInFlight
<1>3. ASSUME SealExpires
      PROVE  Carries(session, session')
  BY <1>0, <1>3, CarriesSeal DEF SealExpires
<1>4. ASSUME InterruptExpires
      PROVE  Carries(session, session')
  BY <1>0, <1>4, CarriesInterruptExpires DEF InterruptExpires
<1>5. ASSUME StopSettles
      PROVE  Carries(session, session')
  BY <1>0, <1>5, CarriesSettleStopped DEF StopSettles
<1>6. ASSUME ChildCloses
      PROVE  Carries(session, session')
  BY <1>0, <1>6, CarriesClosed DEF ChildCloses
<1>7. ASSUME Watchdog
      PROVE  Carries(session, session')
  BY <1>0, <1>7, CarriesProcessNext DEF Watchdog
<1>8. ASSUME NEW c \in Commands, Continue(c)
      PROVE  Carries(session, session')
  <2> DEFINE x == Concluded(session, c)
  <2>1. session' = ProcessNext(x) /\ c \in session.chan.due
    BY <1>8 DEF Continue
  <2>2. Good(x, n, T) /\ Carries(session, x)
    BY <1>0, <2>1, GoodConcluded, CarriesConcluded
  <2> HIDE DEF x
  <2>3. Carries(x, ProcessNext(x))
    BY <2>2, CarriesProcessNext
  <2> QED
    BY <2>1, <2>2, <2>3, CarriesAll
<1>9. ASSUME NEW c \in Commands, ReceiptTimesOut(c)
      PROVE  Carries(session, session')
  BY <1>0, <1>9, CarriesReject DEF ReceiptTimesOut
<1>10. ASSUME NEW c \in Commands, TranscriptShows(c)
       PROVE  Carries(session, session')
  BY <1>0, <1>10, CarriesSettleLocked DEF TranscriptShows
<1>11. Carries(session, session')
  BY <1>1, <1>2, <1>3, <1>4, <1>5, <1>6, <1>7, <1>8, <1>9, <1>10 DEF Timers
<1>12. stdout' = stdout /\ engine' = engine
  BY TimersAdvance
<1> QED
  BY <1>11, <1>12

\* What the server does without a line of the engine leaves every open input where it is: a
\* newly sent one was never handed out, so it is not announced.
LEMMA CarriedTrace ==
  ASSUME TraceInv, Carries(session, session'), stdout' = stdout, engine' = engine
  PROVE  TraceInv'
<1>1. Announced' = Announced /\ Told' = Told /\ WithEngine' = WithEngine
  BY DEF Announced, Told, WithEngine, Inputs, At
<1>2. /\ Handed(session)' = Handed(session') /\ Written(session)' = Written(session')
      /\ \A p : InPhase(session, p)' = InPhase(session', p)
  BY DEF Handed, Written, InPhase
<1>3. Written(session') \cup Announced \subseteq Handed(session')
  BY DEF TraceInv, Carries
<1>4. InPhase(session', "sent") \subseteq session'.chan.timed
  BY DEF TraceInv, Carries
<1>5. InPhase(session', "sent") \cap Announced \subseteq InPhase(session, "sent") \cap Announced
  BY DEF TraceInv, Carries
<1>6. EngineDrops \/ InPhase(session', "received") \cup (InPhase(session', "sent") \cap Announced)
                       \subseteq WithEngine \cup Told
  BY <1>5 DEF TraceInv, Carries
<1> QED
  BY <1>1, <1>3, <1>4, <1>6 DEF TraceInv, Handed, Written, InPhase

\* The first member of a sequence and what is left of it.
LEMMA HeadAndRest ==
  ASSUME NEW X, NEW q \in Seq(X), q # <<>>
  PROVE  /\ 1 \in DOMAIN q /\ q[1] = Head(q)
         /\ \A i \in DOMAIN q : i = 1 \/ (i - 1 \in DOMAIN Tail(q) /\ Tail(q)[i - 1] = q[i])
         /\ \A j \in DOMAIN Tail(q) : j + 1 \in DOMAIN q /\ Tail(q)[j] = q[j + 1]
OBVIOUS

\* What is lost with a line that is read.
LEMMA LineIsRead ==
  ASSUME stdout \in Seq(SaidType(engine.took)), stdout # <<>>, stdout' = Tail(stdout)
  PROVE  LET line == Head(stdout)
         IN /\ Announced' \subseteq Announced
            /\ \A c \in Commands : line = Line("queued", c) => c \in Announced
            /\ \A c \in Told : \/ c \in Told'
                               \/ line = Line("taken", c)
                               \/ line.kind = "result" /\ c \in line.names
<1> DEFINE line == Head(stdout)
           rest == Tail(stdout)
<1>1. /\ 1 \in DOMAIN stdout /\ stdout[1] = line
      /\ \A i \in DOMAIN stdout : i = 1 \/ (i - 1 \in DOMAIN rest /\ rest[i - 1] = stdout[i])
      /\ \A j \in DOMAIN rest : j + 1 \in DOMAIN stdout /\ rest[j] = stdout[j + 1]
  BY HeadAndRest
<1>2. stdout' = rest
  OBVIOUS
<1> HIDE DEF line, rest
<1>3. Announced' \subseteq Announced
  BY <1>1, <1>2 DEF Announced
<1>4. \A c \in Commands : line = Line("queued", c) => c \in Announced
  BY <1>1 DEF Announced
<1>5. ASSUME NEW c \in Told
      PROVE  c \in Told' \/ line = Line("taken", c) \/ (line.kind = "result" /\ c \in line.names)
  <2>1. PICK i \in DOMAIN stdout : \/ stdout[i] = Line("taken", c)
                                   \/ stdout[i].kind = "result" /\ c \in stdout[i].names
    BY <1>5 DEF Told
  <2>2. CASE i = 1
    BY <1>1, <2>1, <2>2
  <2>3. CASE i # 1
    <3>1. i - 1 \in DOMAIN rest /\ rest[i - 1] = stdout[i]
      BY <1>1, <2>3
    <3>2. c \in Commands
      BY <1>5 DEF Told
    <3> QED
      BY <1>2, <2>1, <3>1, <3>2 DEF Told
  <2> QED
    BY <2>2, <2>3
<1> QED
  BY <1>3, <1>4, <1>5 DEF line

LEMMA ReadLineTraces ==
  ASSUME TurnsInv, TraceInv, ReadLine
  PROVE  TraceInv'
<1> DEFINE n == engine.restarts
           T == engine.took
           line == Head(stdout)
           w == session
           v == HandleLine(w, line)
<1>1. Good(w, n, T) /\ stdout \in Seq(SaidType(T))
  BY DEF TurnsInv, EngineGood
<1>2. session' = v /\ stdout # <<>> /\ stdout' = Tail(stdout) /\ engine' = engine
  BY DEF ReadLine
<1>3. line \in SaidType(T)
  BY <1>1, <1>2
<1>4. /\ Announced' \subseteq Announced
      /\ \A c \in Commands : line = Line("queued", c) => c \in Announced
      /\ \A c \in Told : \/ c \in Told'
                         \/ line = Line("taken", c)
                         \/ line.kind = "result" /\ c \in line.names
  BY <1>1, <1>2, LineIsRead
<1>5. WithEngine' = WithEngine
  BY <1>2 DEF WithEngine, Inputs, At
<1>6. /\ Written(w) \cup Announced \subseteq Handed(w)
      /\ InPhase(w, "sent") \subseteq w.chan.timed
      /\ EngineDrops \/ InPhase(w, "received") \cup (InPhase(w, "sent") \cap Announced)
                          \subseteq WithEngine \cup Told
  BY DEF TraceInv
<1>7. SUFFICES /\ Written(v) \cup Announced' \subseteq Handed(v)
               /\ InPhase(v, "sent") \subseteq v.chan.timed
               /\ EngineDrops \/ InPhase(v, "received") \cup (InPhase(v, "sent") \cap Announced')
                                   \subseteq WithEngine \cup Told'
  BY <1>2, <1>5 DEF TraceInv, Written, Handed, InPhase
<1> HIDE DEF line
<1>8. CASE line.kind # "queued"
  <2>1. /\ Carries(w, v)
        /\ line.kind = "taken" => line.of \notin Unsettled(v)
        /\ line.kind = "result" =>
             line.names \cap (InPhase(v, "received") \cup (InPhase(v, "sent") \cap Handed(w))) = {}
    BY <1>1, <1>3, <1>8, CarriesHandleLine
  <2> HIDE DEF v
  <2>2. Written(v) \cup Announced' \subseteq Handed(v) /\ InPhase(v, "sent") \subseteq v.chan.timed
    BY <1>4, <1>6, <2>1 DEF Carries
  <2>3. ASSUME ~EngineDrops,
               NEW c \in InPhase(v, "received") \cup (InPhase(v, "sent") \cap Announced')
        PROVE  c \in WithEngine \cup Told'
    <3>1. c \in InPhase(v, "received") \/ (c \in InPhase(v, "sent") /\ c \in Handed(w))
      BY <1>4, <1>6, <2>3
    <3>2. c \in WithEngine \cup Told
      BY <1>4, <1>6, <2>1, <2>3 DEF Carries
    <3>3. c \in Unsettled(v)
      BY <3>1 DEF InPhase, Unsettled
    <3>4. ~(line = Line("taken", c))
      BY <2>1, <3>3 DEF Line
    <3>5. ~(line.kind = "result" /\ c \in line.names)
      BY <2>1, <3>1
    <3> QED
      BY <1>4, <3>2, <3>4, <3>5
  <2> QED
    BY <2>2, <2>3
<1>9. CASE line.kind = "queued"
  <2> DEFINE a == line.of
             u == Receipt(w, a)
  <2>1. a \in Commands /\ line = Line("queued", a)
    BY <1>3, <1>9 DEF SaidType, Line
  <2>2. a \in Announced /\ Told \subseteq Told'
    BY <1>4, <1>9, <2>1 DEF Line
  <2>3. v = Receive(w, a)
    BY <1>9 DEF HandleLine
  <2> HIDE DEF a, v
  <2>4. CASE w.chan.phase[a] # "sent"
    <3>1. v = w
      BY <1>1, <2>1, <2>3, <2>4, CarriesReceive
    <3> QED
      BY <1>4, <1>6, <2>2, <3>1
  <2>5. CASE w.chan.phase[a] = "sent"
    <3>1. /\ InPhase(u, "received") = InPhase(w, "received") \cup {a}
          /\ InPhase(u, "sent") = InPhase(w, "sent") \ {a}
          /\ u.chan.timed = w.chan.timed \ {a}
          /\ u.cmds = w.cmds /\ u.stdin = w.stdin
          /\ Carries(u, v)
      BY <1>1, <2>1, <2>3, <2>5, CarriesReceive
    <3> HIDE DEF u
    <3>2. Handed(u) = Handed(w) /\ Written(u) = Written(w)
      BY <3>1 DEF Handed, Written
    <3>3. a \in InPhase(w, "sent") \cap Announced
      BY <2>1, <2>2, <2>5 DEF InPhase
    <3>4. Written(v) \cup Announced' \subseteq Handed(v)
      BY <1>4, <1>6, <3>1, <3>2 DEF Carries
    <3>5. InPhase(v, "sent") \subseteq v.chan.timed
      BY <1>6, <3>1 DEF Carries
    <3>6. InPhase(v, "received") \cup (InPhase(v, "sent") \cap Announced')
            \subseteq InPhase(w, "received") \cup (InPhase(w, "sent") \cap Announced)
      BY <1>4, <1>6, <3>1, <3>2, <3>3 DEF Carries
    <3> QED
      BY <1>6, <2>2, <3>4, <3>5, <3>6
  <2> QED
    BY <2>4, <2>5
<1> QED
  BY <1>8, <1>9

LEMMA ChildExitsTraces ==
  ASSUME TurnsInv, TraceInv, ChildExits
  PROVE  TraceInv'
<1> DEFINE n == engine.restarts
           T == engine.took
           w == session
           x == Cancel(w)
           child == [w.child EXCEPT !.state = "exited"]
           v == [x EXCEPT !.child.state = "exited", !.stdin = <<>>]
<1>1. Good(w, n, T)
  BY DEF TurnsInv
<1>2. session' = v /\ stdout' = stdout
  BY DEF ChildExits
<1>3. x \in Session /\ Carries(w, x)
  BY <1>1, GoodCancel, CarriesCancel DEF Good
<1> HIDE DEF x
<1>4. v.cmds = x.cmds /\ v.stdin = <<>> /\ v.child.state = "exited"
  BY <1>3, Fields DEF Session, ChildType
<1> HIDE DEF v
<1>5. Handed(w) \subseteq Handed(v) /\ Written(v) = {}
  BY <1>3, <1>4 DEF Carries, Handed, Written
<1>6. Unsettled(v) = {}
  <2>1. TurnsInv'
    BY ChildExitsSteps
  <2>2. OpenInputs(session')
    BY <2>1 DEF TurnsInv, Good
  <2> QED
    BY <1>2, <1>4, <2>2 DEF OpenInputs
<1>7. InPhase(v, "sent") = {} /\ InPhase(v, "received") = {}
  BY <1>6 DEF InPhase, Unsettled
<1>8. Announced' = Announced
  BY <1>2 DEF Announced
<1>9. Written(v) \cup Announced' \subseteq Handed(v)
  BY <1>5, <1>8 DEF TraceInv
<1> QED
  BY <1>2, <1>7, <1>9 DEF TraceInv, Written, Handed, InPhase

LEMMA RestartTraces ==
  ASSUME TurnsInv, TraceInv, Restart
  PROVE  TraceInv'
<1>1. PICK resumes \in BOOLEAN : session' = Restored(session, resumes)
  BY DEF Restart
<1>2. stdout' = <<>>
  BY DEF Restart
<1>3. session \in Session
  BY DEF TurnsInv, Good
<1>4. session'.stdin = <<>> /\ session'.chan = NewChannel
  BY <1>1, <1>3 DEF Restored, Left, Session
<1>5. Written(session)' = {} /\ Announced' = {}
  BY <1>2, <1>4 DEF Written, Announced
<1>6. InPhase(session, "sent")' = {} /\ InPhase(session, "received")' = {}
  BY <1>4 DEF InPhase, NewChannel
<1> QED
  BY <1>5, <1>6 DEF TraceInv

\* The inputs in a line of the engine.
WaitsIn(q) == { q[i].of : i \in { j \in DOMAIN q : q[j].kind = "input" } }

LEMMA EngineHolds == WithEngine = WaitsIn(engine.waiting) \cup engine.named
BY DEF WithEngine, WaitsIn, Inputs, At

LEMMA WaitsMore ==
  ASSUME NEW X, NEW q \in Seq(X), NEW item
  PROVE  /\ WaitsIn(q) \subseteq WaitsIn(Append(q, item))
         /\ item.kind = "input" => item.of \in WaitsIn(Append(q, item))
<1>1. /\ \A i \in DOMAIN q : i \in DOMAIN Append(q, item) /\ Append(q, item)[i] = q[i]
      /\ Len(q) + 1 \in DOMAIN Append(q, item) /\ Append(q, item)[Len(q) + 1] = item
  OBVIOUS
<1> QED
  BY <1>1 DEF WaitsIn

LEMMA WaitsLessHead ==
  ASSUME NEW X, NEW q \in Seq(X), q # <<>>
  PROVE  WaitsIn(q) \subseteq
           WaitsIn(Tail(q)) \cup (IF Head(q).kind = "input" THEN {Head(q).of} ELSE {})
<1>1. /\ q[1] = Head(q)
      /\ \A i \in DOMAIN q : i = 1 \/ (i - 1 \in DOMAIN Tail(q) /\ Tail(q)[i - 1] = q[i])
  BY HeadAndRest
<1> DEFINE r == Tail(q)
<1> HIDE DEF r
<1>2. ASSUME NEW i \in DOMAIN q, q[i].kind = "input"
      PROVE  q[i].of \in WaitsIn(r) \/ (Head(q).kind = "input" /\ q[i].of = Head(q).of)
  <2>1. CASE i = 1
    BY <1>1, <1>2, <2>1
  <2>2. CASE i # 1
    <3>1. i - 1 \in DOMAIN r /\ r[i - 1] = q[i]
      BY <1>1, <2>2 DEF r
    <3> QED
      BY <1>2, <3>1 DEF WaitsIn
  <2> QED
    BY <2>1, <2>2
<1>3. WaitsIn(q) \subseteq WaitsIn(r) \cup (IF Head(q).kind = "input" THEN {Head(q).of} ELSE {})
  BY <1>2 DEF WaitsIn
<1> QED
  BY <1>3 DEF r

LEMMA WaitsLessOne ==
  ASSUME NEW X, NEW q \in Seq(X), NEW i \in DOMAIN q
  PROVE  WaitsIn(q) \subseteq
           WaitsIn(SubSeq(q, 1, i - 1) \o SubSeq(q, i + 1, Len(q))) \cup {q[i].of}
<1> DEFINE a == SubSeq(q, 1, i - 1)
           b == SubSeq(q, i + 1, Len(q))
           r == a \o b
<1>a. i \in Nat /\ 1 <= i /\ i <= Len(q)
  OBVIOUS
<1>b. /\ a \in Seq(X) /\ Len(a) = i - 1
      /\ \A j \in 1..(i - 1) : a[j] = q[j]
  BY <1>a
<1>c. /\ b \in Seq(X) /\ Len(b) = Len(q) - i
      /\ \A j \in 1..(Len(q) - i) : b[j] = q[i + j]
  BY <1>a
<1> HIDE DEF a, b
<1>d. /\ Len(r) = Len(q) - 1 /\ DOMAIN r = 1..Len(r) /\ DOMAIN q = 1..Len(q)
      /\ \A j \in 1..(i - 1) : r[j] = a[j]
      /\ \A j \in 1..(Len(q) - i) : r[i - 1 + j] = b[j]
  <2>t. a \in Seq(X) /\ b \in Seq(X)
    BY <1>b, <1>c
  <2>0. r \in Seq(X)
    BY <2>t
  <2>1. Len(r) = Len(a) + Len(b)
    BY <2>t
  <2>2. \A j \in 1..Len(a) : r[j] = a[j]
    BY <2>t
  <2>3. \A j \in 1..Len(b) : r[Len(a) + j] = b[j]
    BY <2>t
  <2>4. Len(a) = i - 1 /\ Len(b) = Len(q) - i
    BY <1>b, <1>c
  <2> HIDE DEF r
  <2>5. Len(r) = Len(q) - 1 /\ DOMAIN r = 1..Len(r) /\ DOMAIN q = 1..Len(q)
    BY <1>a, <2>0, <2>1, <2>4
  <2> QED
    BY <2>2, <2>3, <2>4, <2>5
<1> HIDE DEF r
<1>1. \A j \in DOMAIN q : j < i => j \in DOMAIN r /\ r[j] = q[j]
  BY <1>a, <1>b, <1>d
<1>2. ASSUME NEW j \in DOMAIN q, j > i
      PROVE  j - 1 \in DOMAIN r /\ r[j - 1] = q[j]
  <2>1. /\ j - 1 \in 1..Len(r) /\ j - i \in 1..(Len(q) - i)
        /\ i - 1 + (j - i) = j - 1 /\ i + (j - i) = j
    BY <1>a, <1>d, <1>2
  <2>2. r[i - 1 + (j - i)] = b[j - i]
    BY <1>d, <2>1
  <2>3. b[j - i] = q[i + (j - i)]
    BY <1>c, <2>1
  <2> QED
    BY <1>d, <2>1, <2>2, <2>3
<1>3. \A j \in DOMAIN q : j = i \/ j < i \/ j > i
  OBVIOUS
<1>4. WaitsIn(q) \subseteq WaitsIn(r) \cup {q[i].of}
  BY <1>1, <1>2, <1>3 DEF WaitsIn
<1> QED
  BY <1>4 DEF r, a, b

\* A line that is emitted.
LEMMA LineIsEmitted ==
  ASSUME NEW X, stdout \in Seq(X), NEW line, stdout' = Append(stdout, line)
  PROVE  /\ Announced' = Announced \cup { c \in Commands : line = Line("queued", c) }
         /\ Told' = Told \cup { c \in Commands : \/ line = Line("taken", c)
                                                 \/ line.kind = "result" /\ c \in line.names }
<1>1. /\ DOMAIN stdout' = DOMAIN stdout \cup {Len(stdout) + 1}
      /\ \A i \in DOMAIN stdout : stdout'[i] = stdout[i]
      /\ stdout'[Len(stdout) + 1] = line
  OBVIOUS
<1>2. Announced' = Announced \cup { c \in Commands : line = Line("queued", c) }
  BY <1>1 DEF Announced
<1>3. Told' = Told \cup { c \in Commands : \/ line = Line("taken", c)
                                           \/ line.kind = "result" /\ c \in line.names }
  BY <1>1 DEF Told
<1> QED
  BY <1>2, <1>3

LEMMA ResultIsEmitted ==
  ASSUME NEW X, stdout \in Seq(X), NEW left, NEW names, names \subseteq Commands,
         stdout' = Append(stdout, ResultLine(left, names))
  PROVE  Announced' \subseteq Announced /\ Told \cup names \subseteq Told'
<1> DEFINE line == ResultLine(left, names)
<1>1. line.kind = "result" /\ line.names = names
  BY DEF ResultLine
<1>2. \A c \in Commands : line # Line("queued", c)
  BY <1>1 DEF Line
<1> HIDE DEF line
<1>3. stdout' = Append(stdout, line)
  BY DEF line
<1> QED
  BY <1>1, <1>2, <1>3, LineIsEmitted

\* The engine only announces what it read and loses nothing but what it drops.
LEMMA EngineTrace ==
  ASSUME TraceInv, session'.cmds = session.cmds, session'.chan = session.chan,
         Written(session') \subseteq Written(session),
         Announced' \subseteq Announced \cup (Written(session) \cap (WithEngine \cup Told)'),
         EngineDrops \/ WithEngine \cup Told \subseteq (WithEngine \cup Told)'
  PROVE  TraceInv'
<1>1. /\ Handed(session)' = Handed(session) /\ Written(session)' = Written(session')
      /\ InPhase(session, "sent")' = InPhase(session, "sent")
      /\ InPhase(session, "received")' = InPhase(session, "received")
  BY DEF Handed, Written, InPhase
<1>2. Written(session') \cup Announced' \subseteq Handed(session)
  BY DEF TraceInv
<1>3. EngineDrops \/ InPhase(session, "received") \cup (InPhase(session, "sent") \cap Announced')
                       \subseteq (WithEngine \cup Told)'
  BY DEF TraceInv
<1> QED
  BY <1>1, <1>2, <1>3 DEF TraceInv

LEMMA EngineTraces ==
  ASSUME TurnsInv, TraceInv, Engine
  PROVE  TraceInv'
<1> DEFINE e == engine
           T == e.took
<1>1. /\ Good(session, e.restarts, T) /\ stdout \in Seq(SaidType(T))
      /\ e \in EngineType /\ e.waiting \in Seq(UnreadType) /\ e.named \subseteq Commands
  BY DEF TurnsInv, EngineGood, EngineType
<1>2. session \in Session /\ session.stdin \in Seq(WrittenType)
  BY <1>1 DEF Good
<1>3. /\ WithEngine = WaitsIn(e.waiting) \cup e.named
      /\ WithEngine' = WaitsIn(engine'.waiting) \cup engine'.named
  BY EngineHolds DEF WithEngine, WaitsIn, Inputs, At
<1>4. session' = session =>
        /\ session'.cmds = session.cmds /\ session'.chan = session.chan
        /\ Written(session') \subseteq Written(session)
  OBVIOUS
<1>5. stdout' = stdout => Announced' = Announced /\ Told' = Told
  BY DEF Announced, Told
<1>6. ASSUME EngineReads
      PROVE  TraceInv'
  <2> DEFINE item == Head(session.stdin)
             rest == Tail(session.stdin)
  <2>1. session' = [session EXCEPT !.stdin = rest] /\ session.stdin # <<>>
    BY <1>6, <1>2 DEF EngineReads, Session
  <2>2. item \in WrittenType /\ item = session.stdin[1] /\ 1 \in DOMAIN session.stdin
        /\ \A j \in DOMAIN rest : j + 1 \in DOMAIN session.stdin /\ rest[j] = session.stdin[j + 1]
    BY <1>2, <2>1, HeadAndRest
  <2>3. CASE item.kind = "interrupt"
    <3>1. \/ stdout' = stdout /\ engine' = engine
          \/ /\ stdout' = Append(stdout, ResultLine(e.waiting # <<>>, e.named))
             /\ engine' = [engine EXCEPT !.busy = FALSE, !.named = {}]
      BY <1>6, <2>3 DEF EngineReads, Emit
    <3> HIDE DEF item, rest
    <3>2. session'.cmds = session.cmds /\ session'.chan = session.chan /\ session'.stdin = rest
      BY <1>2, <2>1 DEF Session
    <3>3. Written(session') \subseteq Written(session)
      BY <2>2, <3>2 DEF Written
    <3>4. CASE stdout' = stdout /\ engine' = engine
      BY <1>3, <1>5, <3>2, <3>3, <3>4, EngineTrace
    <3>5. CASE /\ stdout' = Append(stdout, ResultLine(e.waiting # <<>>, e.named))
               /\ engine' = [engine EXCEPT !.busy = FALSE, !.named = {}]
      <4>1. engine'.waiting = e.waiting /\ engine'.named = {}
        BY <1>1, <3>5 DEF EngineType
      <4>2. Announced' \subseteq Announced /\ Told \cup e.named \subseteq Told'
        BY <1>1, <3>5, ResultIsEmitted
      <4> QED
        BY <1>3, <3>2, <3>3, <4>1, <4>2, EngineTrace
    <3> QED
      BY <3>1, <3>4, <3>5
  <2>4. CASE item.kind \in {"input", "prompt"}
    <3>1. /\ \/ stdout' = stdout
             \/ item.kind = "input" /\ stdout' = Append(stdout, Line("queued", item.of))
          /\ engine' = [engine EXCEPT !.waiting = Append(@, item)]
      BY <1>6, <2>4 DEF EngineReads, Emit
    <3> HIDE DEF item, rest
    <3>2. session'.cmds = session.cmds /\ session'.chan = session.chan /\ session'.stdin = rest
      BY <1>2, <2>1 DEF Session
    <3>3. Written(session') \subseteq Written(session)
      BY <2>2, <3>2 DEF Written
    <3>4. engine'.waiting = Append(e.waiting, item) /\ engine'.named = e.named
      BY <1>1, <3>1 DEF EngineType
    <3>5. /\ WithEngine \subseteq WithEngine'
          /\ item.kind = "input" => item.of \in WithEngine'
      BY <1>1, <1>3, <3>4, WaitsMore
    <3>6. item.kind = "input" => item.of \in Written(session)
      <4>1. item.kind = "input" => item = [kind |-> "input", of |-> item.of] /\ item.of \in Commands
        BY <2>2 DEF WrittenType
      <4> QED
        BY <2>2, <4>1 DEF Written
    <3>7. /\ Announced' \subseteq Announced \cup (Written(session) \cap WithEngine')
          /\ Told \subseteq Told'
      <4>1. CASE stdout' = stdout
        BY <1>5, <4>1
      <4>2. CASE item.kind = "input" /\ stdout' = Append(stdout, Line("queued", item.of))
        <5>1. /\ Announced' = Announced \cup { c \in Commands : Line("queued", item.of) = Line("queued", c) }
              /\ Told \subseteq Told'
          BY <1>1, <4>2, LineIsEmitted
        <5>2. \A c \in Commands : Line("queued", item.of) = Line("queued", c) => c = item.of
          BY DEF Line
        <5> QED
          BY <3>5, <3>6, <4>2, <5>1, <5>2
      <4> QED
        BY <3>1, <4>1, <4>2
    <3> QED
      BY <3>2, <3>3, <3>5, <3>7, EngineTrace
  <2> QED
    BY <2>2, <2>3, <2>4 DEF WrittenType
<1>7. ASSUME EngineStarts
      PROVE  TraceInv'
  <2>1. session' = session
    BY <1>7 DEF EngineStarts
  <2>2. CASE /\ stdout' = stdout
             /\ engine' = [engine EXCEPT !.busy = TRUE, !.said = FALSE, !.notice = FALSE]
    <3>1. engine'.waiting = e.waiting /\ engine'.named = e.named
      BY <1>1, <2>2 DEF EngineType
    <3> QED
      BY <1>3, <1>4, <1>5, <2>1, <2>2, <3>1, EngineTrace
  <2>3. CASE /\ e.waiting # <<>>
             /\ LET item == Head(e.waiting)
                IN /\ engine' = [engine EXCEPT !.busy = TRUE, !.said = FALSE, !.waiting = Tail(@),
                                   !.took = IF item.kind = "input" THEN @ \cup {item.of} ELSE @]
                   /\ stdout' = IF item.kind = "input" THEN Append(stdout, Line("taken", item.of))
                                ELSE stdout
    <3> DEFINE item == Head(e.waiting)
    <3>1. engine'.waiting = Tail(e.waiting) /\ engine'.named = e.named
      BY <1>1, <2>3 DEF EngineType
    <3>2. WaitsIn(e.waiting) \subseteq
            WaitsIn(Tail(e.waiting)) \cup (IF item.kind = "input" THEN {item.of} ELSE {})
      BY <1>1, <2>3, WaitsLessHead
    <3>3. item.of \in Commands
      <4>1. item \in UnreadType
        BY <1>1, <2>3
      <4> QED
        BY <4>1 DEF UnreadType
    <3>4. stdout' = IF item.kind = "input" THEN Append(stdout, Line("taken", item.of)) ELSE stdout
      BY <2>3
    <3> HIDE DEF item
    <3>5. /\ Announced' \subseteq Announced /\ Told \subseteq Told'
          /\ item.kind = "input" => item.of \in Told'
      <4>1. CASE item.kind = "input"
        BY <1>1, <3>3, <3>4, <4>1, LineIsEmitted DEF Line
      <4>2. CASE item.kind # "input"
        BY <1>5, <3>4, <4>2
      <4> QED
        BY <4>1, <4>2
    <3>6. WithEngine \cup Told \subseteq WithEngine' \cup Told'
      BY <1>3, <3>1, <3>2, <3>5
    <3> QED
      BY <1>4, <2>1, <3>5, <3>6, EngineTrace
  <2> QED
    BY <1>7, <2>2, <2>3 DEF EngineStarts, Emit
<1>8. ASSUME EngineTakes
      PROVE  TraceInv'
  <2> DEFINE i == CHOOSE i \in Inputs : \A j \in Inputs : i <= j
  <2>1. session' = session /\ Inputs # {}
    BY <1>8 DEF EngineTakes
  <2>2. \/ /\ engine' = [engine EXCEPT !.waiting = Unqueued(i), !.said = FALSE,
                                       !.took = @ \cup {At(i)}]
           /\ stdout' = Append(stdout, Line("taken", At(i)))
        \/ /\ engine' = [engine EXCEPT !.waiting = Unqueued(i), !.said = FALSE,
                                       !.took = @ \cup {At(i)}, !.named = @ \cup {At(i)}]
           /\ stdout' = stdout
    BY <1>8 DEF EngineTakes, Emit
  <2>3. i \in Inputs
    <3>1. Inputs \subseteq Nat
      BY <1>1 DEF Inputs
    <3>2. \E k \in Inputs : \A j \in Inputs : k <= j
      BY <2>1, <3>1, Least
    <3> QED
      BY <3>2
  <2> HIDE DEF i
  <2>4. i \in DOMAIN e.waiting /\ e.waiting[i] \in UnreadType
    BY <1>1, <2>3 DEF Inputs
  <2>5. At(i) \in Commands
    BY <2>4 DEF At, UnreadType
  <2> DEFINE q == Unqueued(i)
             a == At(i)
  <2>6. WaitsIn(e.waiting) \subseteq WaitsIn(q) \cup {a}
    BY <1>1, <2>4, WaitsLessOne DEF Unqueued, At
  <2> HIDE DEF q, a
  <2>7. \/ /\ engine'.waiting = q /\ engine'.named = e.named
           /\ stdout' = Append(stdout, Line("taken", a))
        \/ /\ engine'.waiting = q /\ engine'.named = e.named \cup {a}
           /\ stdout' = stdout
    <3>1. \/ /\ engine' = [engine EXCEPT !.waiting = q, !.said = FALSE, !.took = @ \cup {a}]
             /\ stdout' = Append(stdout, Line("taken", a))
          \/ /\ engine' = [engine EXCEPT !.waiting = q, !.said = FALSE,
                                         !.took = @ \cup {a}, !.named = @ \cup {a}]
             /\ stdout' = stdout
      BY <2>2 DEF q, a
    <3> QED
      BY <1>1, <3>1 DEF EngineType
  <2>8. CASE /\ engine'.waiting = q /\ engine'.named = e.named
             /\ stdout' = Append(stdout, Line("taken", a))
    <3>1. Announced' \subseteq Announced /\ Told \cup {a} \subseteq Told'
      BY <1>1, <2>5, <2>8, LineIsEmitted DEF Line, a
    <3> QED
      BY <1>3, <1>4, <2>1, <2>6, <2>8, <3>1, EngineTrace
  <2>9. CASE /\ engine'.waiting = q /\ engine'.named = e.named \cup {a}
             /\ stdout' = stdout
    BY <1>3, <1>4, <1>5, <2>1, <2>6, <2>9, EngineTrace
  <2> QED
    BY <2>7, <2>8, <2>9
<1>9. ASSUME EngineLoses
      PROVE  TraceInv'
  <2>1. EngineDrops /\ session' = session /\ stdout' = stdout
    BY <1>9 DEF EngineLoses
  <2> QED
    BY <1>4, <1>5, <2>1, EngineTrace
<1>10. ASSUME EngineSpeaks
       PROVE  TraceInv'
  <2>1. /\ session' = session /\ stdout' = Append(stdout, Line("says", None))
        /\ engine' = [engine EXCEPT !.said = TRUE]
    BY <1>10 DEF EngineSpeaks, Emit
  <2>2. engine'.waiting = e.waiting /\ engine'.named = e.named
    BY <1>1, <2>1 DEF EngineType
  <2>3. Announced' \subseteq Announced /\ Told \subseteq Told'
    BY <1>1, <2>1, LineIsEmitted DEF Line
  <2> QED
    BY <1>3, <1>4, <2>1, <2>2, <2>3, EngineTrace
<1>11. ASSUME EngineEnds
       PROVE  TraceInv'
  <2>1. /\ session' = session /\ stdout' = Append(stdout, ResultLine(e.waiting # <<>>, e.named))
        /\ engine' = [engine EXCEPT !.busy = FALSE, !.named = {}]
    BY <1>11 DEF EngineEnds, Emit
  <2>2. engine'.waiting = e.waiting /\ engine'.named = {}
    BY <1>1, <2>1 DEF EngineType
  <2>3. Announced' \subseteq Announced /\ Told \cup e.named \subseteq Told'
    BY <1>1, <2>1, ResultIsEmitted
  <2> QED
    BY <1>3, <1>4, <2>1, <2>2, <2>3, EngineTrace
<1>12. ASSUME EngineTask
       PROVE  TraceInv'
  <2>1. /\ session' = session
        /\ \E k \in {"taskStart", "taskEnd"} : stdout' = Append(stdout, Line(k, None))
        /\ \/ engine' = [engine EXCEPT !.task = TRUE, !.tasks = @ + 1]
           \/ engine' = [engine EXCEPT !.task = FALSE, !.notice = TRUE]
    BY <1>12 DEF EngineTask, Emit
  <2>2. engine'.waiting = e.waiting /\ engine'.named = e.named
    BY <1>1, <2>1 DEF EngineType
  <2>3. Announced' \subseteq Announced /\ Told \subseteq Told'
    BY <1>1, <2>1, LineIsEmitted DEF Line
  <2> QED
    BY <1>3, <1>4, <2>1, <2>2, <2>3, EngineTrace
<1> QED
  BY <1>6, <1>7, <1>8, <1>9, <1>10, <1>11, <1>12 DEF Engine

LEMMA TraceSteps ==
  ASSUME TurnsInv, TraceInv, [Next]_vars
  PROVE  TraceInv'
<1>1. CASE User
  BY <1>1, UserCarries, CarriedTrace
<1>2. CASE Timers
  BY <1>2, TimersCarry, CarriedTrace
<1>3. CASE ReadLine
  BY <1>3, ReadLineTraces
<1>4. CASE ChildExits
  BY <1>4, ChildExitsTraces
<1>5. CASE Restart
  BY <1>5, RestartTraces
<1>6. CASE Engine
  BY <1>6, EngineTraces
<1>7. CASE UNCHANGED vars
  <2>1. session' = session /\ stdout' = stdout /\ engine' = engine
    BY <1>7 DEF vars
  <2> QED
    BY <2>1, CarriesItself, CarriedTrace
<1>8. Next => User \/ Timers \/ ReadLine \/ ChildExits \/ Restart \/ Engine
  BY DEF Next, Server, Timers
<1> QED
  BY <1>1, <1>2, <1>3, <1>4, <1>5, <1>6, <1>7, <1>8

LEMMA InitTraces ==
  ASSUME Init
  PROVE  TraceInv
<1>1. session.stdin = <<>> /\ session.chan = NewChannel /\ stdout = <<>>
  BY DEF Init
<1>2. /\ Written(session) = {} /\ Announced = {}
      /\ InPhase(session, "sent") = {} /\ InPhase(session, "received") = {}
  BY <1>1 DEF Written, Announced, InPhase, NewChannel
<1> QED
  BY <1>2 DEF TraceInv

\* An input the queue waits for (pendingSessions, pendingCommands) is never forgotten: its
\* continuation is due, or its receipt timer runs, or the process lives and, unless it drops
\* what it queued, holds the input or has said what became of it; the timers of
\* claudeLiveFollowUp.ts and the lines of the engine are all that settle one.
THEOREM InputsAreTraced == Spec => []OpenInputsAreTraced
<1>1. Init => TraceInv
  BY InitTraces
<1>2. TurnsInv /\ TraceInv /\ [Next]_vars => TraceInv'
  BY TraceSteps
<1>3. TurnsInv /\ TraceInv => OpenInputsAreTraced
  <2> SUFFICES ASSUME TurnsInv, TraceInv, NEW c \in session.pending
               PROVE  \/ c \in session.chan.due
                      \/ c \in session.chan.timed
                      \/ /\ session.chan.phase[c] = "received" /\ session.child.state = "live"
                         /\ EngineDrops \/ c \in WithEngine \cup Told
    BY DEF OpenInputsAreTraced
  <2>1. OpenInputs(session)
    BY DEF TurnsInv, Good
  <2>2. c \in session.chan.due \/ c \in Unsettled(session)
    BY <2>1 DEF OpenInputs
  <2>3. ASSUME c \in Unsettled(session)
        PROVE  c \in InPhase(session, "sent") \cup InPhase(session, "received")
    BY <2>3 DEF Unsettled, InPhase
  <2>4. Unsettled(session) # {} => session.child.state = "live"
    BY <2>1 DEF OpenInputs
  <2>5. c \in InPhase(session, "received") => session.chan.phase[c] = "received"
    BY DEF InPhase
  <2> QED
    BY <2>2, <2>3, <2>4, <2>5 DEF TraceInv
<1> QED
  BY <1>1, <1>2, <1>3, TurnsInvariant, PTL DEF Spec
=============================================================================
