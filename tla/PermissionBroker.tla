--------------------------- MODULE PermissionBroker ---------------------------
(***************************************************************************)
(* The cards that hold a tool call until a person answers:                 *)
(* services/permissionBroker.ts (may this tool run?) and its twin          *)
(* services/askUserQuestionBroker.ts (what does the user choose?), with    *)
(* what their callers do around them: the hook routes of index.ts, which   *)
(* mark the agent as blocked while they wait, the local engine's gate in   *)
(* services/subAgentManager.ts, and the stop and close buttons.            *)
(*                                                                         *)
(* A card is closed by whichever comes first of an answer, its 60 s timer, *)
(* a stop of its session or its agent, and the death of the connection     *)
(* that waits for it.  Each of these is a callback of its own, so each is  *)
(* an action, enabled by the resource that would call it: the timer, the   *)
(* abort listener, the entry of the map.                                   *)
(***************************************************************************)
EXTENDS FiniteSets

CONSTANTS
  Cards,       \* request ids (randomUUID: never used twice)
  Agents,      \* agent bubbles
  Sessions,    \* session tabs (sub-agents)
  AgentOf,     \* the bubble a session belongs to
  NoSession,   \* a hook whose environment names no session
  Calls        \* the calls an instance asks about: a subset of CallType

\* Who waits for the card: a hook over HTTP, the local engine in process, or
\* a hook that put a question to the user through the other broker.
Kinds == {"hook", "local", "question"}

\* silence: what 60 s without an answer means (the timeout policy; a question
\* simply stays unanswered).  allowAlways, rejectAlways: whether the card
\* offers "always" on that side (PermissionRequest.alwaysAllow, alwaysReject).
CallType ==
  { r \in [agent: Agents, session: Sessions \cup {NoSession}, kind: Kinds,
           silence: {"allow", "deny"}, allowAlways: BOOLEAN, rejectAlways: BOOLEAN] :
      /\ r.session # NoSession => r.agent = AgentOf[r.session]
      /\ r.kind = "local" => r.session # NoSession
      /\ r.kind = "question" => r.silence = "deny" }

ASSUME CardAssumption ==
  /\ AgentOf \in [Sessions -> Agents]
  /\ NoSession \notin Sessions
  /\ Calls \subseteq CallType

Buttons == {"allow_once", "allow_always", "reject_once", "reject_always"}

\* How a card was closed: the decision and who made it (the reason, and the
\* `cancelled` mark only the server writes).
Outcomes == [decision: {"allow", "deny"}, by: {"person", "timeout", "stopped", "gone"}]
Unsettled == [decision |-> "none", by |-> "nobody"]
NotAsked == [kind |-> "none"]

VARIABLES
  call,       \* what each card asks (NotAsked before)
  pending,    \* the two brokers' maps of open cards
  timers,     \* the 60 s timers that are armed
  listening,  \* the abort listeners that are attached
  outcome,    \* what each promise was resolved with
  blocked,    \* permissionWaitingAgents: the agents pinned as active
  stopped     \* history: the cards that were open when their session was stopped

vars == <<call, pending, timers, listening, outcome, blocked, stopped>>

Init ==
  /\ call = [c \in Cards |-> NotAsked]
  /\ pending = {} /\ timers = {} /\ listening = {}
  /\ outcome = [c \in Cards |-> Unsettled]
  /\ blocked = {}
  /\ stopped = {}

Fresh(c) == call[c] = NotAsked

\* The callers that mark the agent as blocked for the wait: all but the local engine.
Blocks(r) == r.kind \in {"hook", "question"}
AgentsOf(C) == { call[c].agent : c \in { d \in C : Blocks(call[d]) } }

\* `foldPermissionChoice`, and the choices the decide route refuses with a 400.
FoldToTheChoice(choice) == choice
Fold(choice) == IF choice \in {"allow_once", "allow_always"} THEN "allow" ELSE "deny"
Refused(c, choice) ==
  \/ choice = "allow_always" /\ ~call[c].allowAlways
  \/ choice = "reject_always" /\ ~call[c].rejectAlways

(***************************************************************************)
(* Asking.                                                                 *)
(***************************************************************************)
AskWithoutTimer(c, r) ==
  /\ Fresh(c)
  /\ call' = [call EXCEPT ![c] = r]
  /\ pending' = pending \cup {c}
  /\ listening' = IF r.kind = "hook" THEN listening \cup {c} ELSE listening
  /\ blocked' = IF Blocks(r) THEN blocked \cup {r.agent} ELSE blocked
  /\ UNCHANGED <<timers, outcome, stopped>>
Ask(c, r) ==
  /\ Fresh(c)
  /\ call' = [call EXCEPT ![c] = r]
  /\ pending' = pending \cup {c}
  /\ timers' = timers \cup {c}
  /\ listening' = IF r.kind = "hook" THEN listening \cup {c} ELSE listening
  /\ blocked' = IF Blocks(r) THEN blocked \cup {r.agent} ELSE blocked
  /\ UNCHANGED <<outcome, stopped>>

AskAbortedButShown(c, r) ==
  /\ Fresh(c) /\ r.kind = "hook"
  /\ call' = [call EXCEPT ![c] = r]
  /\ outcome' = [outcome EXCEPT ![c] = [decision |-> "deny", by |-> "gone"]]
  /\ pending' = pending \cup {c} /\ timers' = timers \cup {c}
  /\ blocked' = blocked \ {r.agent}
  /\ UNCHANGED <<listening, stopped>>
AskAbortedWithoutFinally(c, r) ==
  /\ Fresh(c) /\ r.kind = "hook"
  /\ call' = [call EXCEPT ![c] = r]
  /\ outcome' = [outcome EXCEPT ![c] = [decision |-> "deny", by |-> "gone"]]
  /\ blocked' = blocked \cup {r.agent}
  /\ UNCHANGED <<pending, timers, listening, stopped>>
\* The connection was gone before the card could be shown: it never is.
AskAborted(c, r) ==
  /\ Fresh(c) /\ r.kind = "hook"
  /\ call' = [call EXCEPT ![c] = r]
  /\ outcome' = [outcome EXCEPT ![c] = [decision |-> "deny", by |-> "gone"]]
  /\ blocked' = blocked \ {r.agent}
  /\ UNCHANGED <<pending, timers, listening, stopped>>

(***************************************************************************)
(* Closing.  The timer is cleared, the listener detached and the entry     *)
(* deleted before the promise resolves; the waiting route then drops the   *)
(* agent's mark in its `finally`, before any other callback runs.          *)
(***************************************************************************)
SettleKeepingTheListener(C, decision, by) ==
  /\ timers' = timers \ C
  /\ pending' = pending \ C
  /\ outcome' = [c \in Cards |-> IF c \in C THEN [decision |-> decision, by |-> by]
                                 ELSE outcome[c]]
  /\ blocked' = blocked \ AgentsOf(C)
  /\ UNCHANGED <<call, listening>>
Settle(C, decision, by) ==
  /\ timers' = timers \ C
  /\ listening' = listening \ C
  /\ pending' = pending \ C
  /\ outcome' = [c \in Cards |-> IF c \in C THEN [decision |-> decision, by |-> by]
                                 ELSE outcome[c]]
  /\ blocked' = blocked \ AgentsOf(C)
  /\ UNCHANGED call

\* Somebody pressed a button of the card.  An unknown card is ignored (404),
\* an "always" the card does not offer is refused and leaves it open (400).
Answer(c, choice) ==
  /\ c \in pending /\ call[c].kind # "question" /\ ~Refused(c, choice)
  /\ Settle({c}, Fold(choice), "person")
  /\ UNCHANGED stopped

\* The user chose among the labels of a question.
AnswerQuestion(c) ==
  /\ c \in pending /\ call[c].kind = "question"
  /\ Settle({c}, "allow", "person")
  /\ UNCHANGED stopped

\* 60 s passed: a permission card follows its policy, a question stays unanswered.
TimedOut(c) ==
  /\ c \in timers /\ c \in pending
  /\ Settle({c}, call[c].silence, "timeout")
  /\ UNCHANGED stopped

\* The hook's connection closed before it got its answer.
CallerGone(c) ==
  /\ c \in listening /\ c \in pending
  /\ Settle({c}, "deny", "gone")
  /\ UNCHANGED stopped

\* cancelForSubAgent, cancelForAgent: permission cards only, the question
\* broker has no way to cancel.
OfSessionHooksOnly(s) == { c \in pending : call[c].session = s /\ call[c].kind = "hook" }
OfSession(s) == { c \in pending : call[c].session = s /\ call[c].kind # "question" }
OfAgent(a) == { c \in pending : call[c].agent = a /\ call[c].kind # "question" }

\* A session is stopped, interrupted or closed.
StopSession(s) ==
  /\ Settle(OfSession(s), "deny", "stopped")
  /\ stopped' = stopped \cup { c \in pending : call[c].session = s /\ call[c].kind # "question" }

\* Every session of an agent is stopped, and the cards that name no session go too.
StopAgent(a) ==
  /\ Settle(OfAgent(a), "deny", "stopped")
  /\ stopped' = stopped \cup { c \in pending : call[c].agent = a /\ call[c].kind # "question" }

AskSome == \E c \in Cards, r \in Calls : Ask(c, r) \/ AskAborted(c, r)
AnswerSome == \E c \in Cards : \/ \E choice \in Buttons : Answer(c, choice)
                               \/ AnswerQuestion(c)
CloseSome == \E c \in pending : TimedOut(c) \/ CallerGone(c)
StopSome == \/ \E s \in Sessions : StopSession(s)
            \/ \E a \in Agents : StopAgent(a)

Next == AskSome \/ AnswerSome \/ CloseSome \/ StopSome

\* setTimeout fires.
Fairness == \A c \in Cards : WF_vars(TimedOut(c))

Spec == Init /\ [][Next]_vars /\ Fairness

-----------------------------------------------------------------------------
(***************************************************************************)
(* Properties.                                                             *)
(***************************************************************************)
\* Every variable holds what the code keeps in it; in particular a promise is
\* only ever resolved with one of the two words the hook understands.
TypeOK ==
  /\ call \in [Cards -> Calls \cup {NotAsked}]
  /\ pending \subseteq Cards /\ timers \subseteq Cards /\ listening \subseteq Cards
  /\ outcome \in [Cards -> Outcomes \cup {Unsettled}]
  /\ blocked \subseteq Agents
  /\ stopped \subseteq Cards

\* An open card is one somebody still waits on: it was asked, its promise is not
\* resolved, its timer is armed, and a hook's connection is watched; and nothing
\* of it is left behind once it is closed, whichever of the five ways closed it.
ClosedCardsLeaveNothing ==
  /\ \A c \in Cards : call[c] = NotAsked => outcome[c] = Unsettled
  /\ pending = { c \in Cards : call[c] # NotAsked /\ outcome[c] = Unsettled }
  /\ timers = pending
  /\ listening = { c \in pending : call[c].kind = "hook" }

\* A permission card that was open when the user stopped its session or its agent
\* never ends as allowed: not by its 60 s default, not by a late answer.
StoppedCallsAreNotAllowed ==
  \A c \in stopped : outcome[c].decision = "deny"

\* No agent stays pinned as active once the last card that pinned it is closed.
BlockedAgentsHaveAnOpenCard ==
  blocked \subseteq AgentsOf(pending)

\* Whatever closed a card first is its answer for good: a timer, an answer, a stop
\* or a lost connection that comes second changes nothing.
FirstAnswerStands ==
  [][\A c \in Cards : outcome[c] # Unsettled => outcome'[c] = outcome[c]]_vars

\* Every card that is asked is answered, even if nobody looks at it.
AskedIsAnswered ==
  \A c \in Cards : call[c] # NotAsked ~> outcome[c] # Unsettled

\* The brokers keep the promise their callers rely on.
Promise == INSTANCE OneAnswer WITH
  Questions <- Cards, Answers <- Outcomes, NoAnswer <- Unsettled,
  waiting <- pending, answer <- outcome
KeepsItsPromise == Promise!Spec
=============================================================================
