------------------------ MODULE PermissionBrokerProofs ------------------------
(***************************************************************************)
(* The safety properties of PermissionBroker for any number of cards,      *)
(* agents and sessions, and the refinement of OneAnswer.  The invariant is *)
(* the conjunction of the four state properties: what makes a second       *)
(* answer harmless is ClosedCardsLeaveNothing, by which everything that    *)
(* could close a card is gone once it is closed.                           *)
(***************************************************************************)
EXTENDS PermissionBroker, TLAPS

BrokerInv ==
  /\ TypeOK
  /\ ClosedCardsLeaveNothing
  /\ StoppedCallsAreNotAllowed
  /\ BlockedAgentsHaveAnOpenCard

\* A call has one of the three kinds, so it is not the mark of a card never asked.
LEMMA CallsAreCalls ==
  ASSUME NEW r \in Calls
  PROVE  /\ r # NotAsked /\ r.kind \in Kinds /\ r.agent \in Agents
         /\ r.silence \in {"allow", "deny"}
<1>1. r \in CallType
  BY CardAssumption
<1>2. r.kind \in Kinds /\ r.agent \in Agents /\ r.silence \in {"allow", "deny"}
  BY <1>1 DEF CallType
<1>3. NotAsked.kind \notin Kinds
  BY DEF NotAsked, Kinds
<1> QED
  BY <1>2, <1>3

\* An outcome has a decision, so it is not the mark of an unresolved promise.
LEMMA OutcomesAreOutcomes ==
  ASSUME NEW o \in Outcomes
  PROVE  o # Unsettled /\ o.decision \in {"allow", "deny"}
BY DEF Outcomes, Unsettled

LEMMA OpenCardsWereAsked ==
  ASSUME BrokerInv, NEW c \in pending
  PROVE  c \in Cards /\ call[c] \in Calls /\ outcome[c] = Unsettled
BY DEF BrokerInv, TypeOK, ClosedCardsLeaveNothing

\* Closing some of the open cards keeps everything, whatever closes them.
LEMMA SettleKeepsInv ==
  ASSUME BrokerInv,
         NEW C \in SUBSET pending,
         NEW decision \in {"allow", "deny"},
         NEW by \in {"person", "timeout", "stopped", "gone"},
         Settle(C, decision, by),
         \/ stopped' = stopped
         \/ decision = "deny" /\ \E S \in SUBSET C : stopped' = stopped \cup S
  PROVE  BrokerInv'
<1> DEFINE o == [decision |-> decision, by |-> by]
<1>1. o \in Outcomes /\ o # Unsettled /\ o.decision = decision
  BY OutcomesAreOutcomes DEF Outcomes
<1>2. outcome' = [c \in Cards |-> IF c \in C THEN o ELSE outcome[c]] /\ call' = call
  BY DEF Settle
<1>3. TypeOK'
  <2>1. outcome' \in [Cards -> Outcomes \cup {Unsettled}]
    BY <1>1, <1>2 DEF BrokerInv, TypeOK
  <2>2. stopped' \subseteq Cards
    BY DEF BrokerInv, TypeOK
  <2>3. blocked' \subseteq Agents /\ pending' \subseteq Cards /\ timers' \subseteq Cards
        /\ listening' \subseteq Cards
    BY DEF BrokerInv, TypeOK, Settle
  <2> QED
    BY <1>2, <2>1, <2>2, <2>3 DEF BrokerInv, TypeOK
<1>4. ClosedCardsLeaveNothing'
  <2>1. ASSUME NEW c \in Cards
        PROVE  c \in pending' <=> (call'[c] # NotAsked /\ outcome'[c] = Unsettled)
    BY <1>1, <1>2 DEF BrokerInv, ClosedCardsLeaveNothing, Settle
  <2>2. pending' = { c \in Cards : call'[c] # NotAsked /\ outcome'[c] = Unsettled }
    BY <1>3, <2>1 DEF TypeOK
  <2>3. timers' = pending'
    BY DEF BrokerInv, ClosedCardsLeaveNothing, Settle
  <2>4. listening' = { c \in pending' : call'[c].kind = "hook" }
    BY <1>2 DEF BrokerInv, ClosedCardsLeaveNothing, Settle
  <2>5. \A c \in Cards : call'[c] = NotAsked => outcome'[c] = Unsettled
    BY <1>2, OpenCardsWereAsked, CallsAreCalls DEF BrokerInv, ClosedCardsLeaveNothing
  <2> QED
    BY <2>2, <2>3, <2>4, <2>5 DEF ClosedCardsLeaveNothing
<1>5. StoppedCallsAreNotAllowed'
  <2> SUFFICES ASSUME NEW c \in stopped' PROVE outcome'[c].decision = "deny"
    BY DEF StoppedCallsAreNotAllowed
  <2>0. c \in Cards
    BY <1>3 DEF TypeOK
  <2>1. CASE c \in stopped
    <3>1. outcome[c].decision = "deny"
      BY <2>1 DEF BrokerInv, StoppedCallsAreNotAllowed
    <3>2. c \notin C
      BY <3>1, OpenCardsWereAsked DEF Unsettled
    <3> QED
      BY <1>2, <2>0, <3>1, <3>2
  <2>2. CASE c \notin stopped
    BY <1>1, <1>2, <2>0, <2>2
  <2> QED
    BY <2>1, <2>2
<1>6. BlockedAgentsHaveAnOpenCard'
  <2> SUFFICES ASSUME NEW a \in blocked' PROVE a \in AgentsOf(pending)'
    BY DEF BlockedAgentsHaveAnOpenCard
  <2>1. a \in blocked /\ a \notin AgentsOf(C)
    BY DEF Settle
  <2>2. PICK d \in pending : Blocks(call[d]) /\ call[d].agent = a
    BY <2>1 DEF BrokerInv, BlockedAgentsHaveAnOpenCard, AgentsOf
  <2>3. d \notin C
    BY <2>1, <2>2 DEF AgentsOf
  <2>4. d \in pending'
    BY <2>3 DEF Settle
  <2> QED
    BY <1>2, <2>2, <2>4 DEF AgentsOf
<1> QED
  BY <1>3, <1>4, <1>5, <1>6 DEF BrokerInv

\* Asking opens one card and touches no other.
LEMMA AskKeepsInv ==
  ASSUME BrokerInv, NEW c \in Cards, NEW r \in Calls, Ask(c, r)
  PROVE  BrokerInv'
<1>1. c \notin pending /\ outcome[c] = Unsettled
  BY DEF Ask, Fresh, BrokerInv, ClosedCardsLeaveNothing
<1>2. call' = [call EXCEPT ![c] = r] /\ outcome' = outcome /\ stopped' = stopped
      /\ pending' = pending \cup {c}
  BY DEF Ask
<1>3. r # NotAsked /\ r.agent \in Agents
  BY CallsAreCalls
<1>4. \A d \in Cards : d # c => call'[d] = call[d]
  BY <1>2 DEF BrokerInv, TypeOK
<1>5. call'[c] = r
  BY <1>2 DEF BrokerInv, TypeOK
<1>6. TypeOK'
  <2>1. blocked' \subseteq Agents /\ timers' \subseteq Cards /\ listening' \subseteq Cards
    BY <1>3 DEF BrokerInv, TypeOK, Ask
  <2>2. call' \in [Cards -> Calls \cup {NotAsked}]
    BY <1>2 DEF BrokerInv, TypeOK
  <2> QED
    BY <1>2, <2>1, <2>2 DEF BrokerInv, TypeOK
<1>7. ClosedCardsLeaveNothing'
  <2>1. \A d \in Cards : call'[d] = NotAsked => outcome'[d] = Unsettled
    BY <1>1, <1>2, <1>4 DEF BrokerInv, ClosedCardsLeaveNothing
  <2>2. \A d \in Cards : d \in pending' <=> (call'[d] # NotAsked /\ outcome'[d] = Unsettled)
    BY <1>1, <1>2, <1>3, <1>4, <1>5 DEF BrokerInv, ClosedCardsLeaveNothing
  <2>3. pending' = { d \in Cards : call'[d] # NotAsked /\ outcome'[d] = Unsettled }
    BY <1>6, <2>2 DEF TypeOK
  <2>4. timers' = pending'
    BY DEF BrokerInv, ClosedCardsLeaveNothing, Ask
  <2>5. listening' = { d \in pending' : call'[d].kind = "hook" }
    <3>1. listening = { d \in pending : call[d].kind = "hook" }
      BY DEF BrokerInv, ClosedCardsLeaveNothing
    <3>2. \A d \in pending : call'[d] = call[d]
      BY <1>1, <1>4, OpenCardsWereAsked
    <3>3. listening' = IF r.kind = "hook" THEN listening \cup {c} ELSE listening
      BY DEF Ask
    <3> QED
      BY <1>1, <1>2, <1>5, <3>1, <3>2, <3>3
  <2> QED
    BY <2>1, <2>3, <2>4, <2>5 DEF ClosedCardsLeaveNothing
<1>8. StoppedCallsAreNotAllowed'
  BY <1>2 DEF BrokerInv, StoppedCallsAreNotAllowed
<1>9. BlockedAgentsHaveAnOpenCard'
  <2> SUFFICES ASSUME NEW a \in blocked' PROVE a \in AgentsOf(pending)'
    BY DEF BlockedAgentsHaveAnOpenCard
  <2>1. CASE a \in blocked
    <3>1. PICK d \in pending : Blocks(call[d]) /\ call[d].agent = a
      BY <2>1 DEF BrokerInv, BlockedAgentsHaveAnOpenCard, AgentsOf
    <3>2. call'[d] = call[d] /\ d \in pending'
      BY <1>1, <1>2, <1>4, OpenCardsWereAsked
    <3> QED
      BY <3>1, <3>2 DEF AgentsOf
  <2>2. CASE a \notin blocked
    <3>1. Blocks(r) /\ a = r.agent
      BY <2>2 DEF Ask
    <3> QED
      BY <1>2, <1>5, <3>1 DEF AgentsOf
  <2> QED
    BY <2>1, <2>2
<1> QED
  BY <1>6, <1>7, <1>8, <1>9 DEF BrokerInv

\* A call whose connection is already gone is answered without ever opening a card.
LEMMA AskAbortedKeepsInv ==
  ASSUME BrokerInv, NEW c \in Cards, NEW r \in Calls, AskAborted(c, r)
  PROVE  BrokerInv'
<1> DEFINE o == [decision |-> "deny", by |-> "gone"]
<1>1. o \in Outcomes /\ o # Unsettled /\ o.decision = "deny"
  BY OutcomesAreOutcomes DEF Outcomes
<1>2. c \notin pending
  BY DEF AskAborted, Fresh, BrokerInv, ClosedCardsLeaveNothing
<1>3. call' = [call EXCEPT ![c] = r] /\ outcome' = [outcome EXCEPT ![c] = o]
      /\ pending' = pending /\ timers' = timers /\ listening' = listening /\ stopped' = stopped
  BY DEF AskAborted
<1>4. /\ \A d \in Cards : d # c => call'[d] = call[d] /\ outcome'[d] = outcome[d]
      /\ call'[c] = r /\ outcome'[c] = o
  BY <1>3 DEF BrokerInv, TypeOK
<1>5. r # NotAsked
  BY CallsAreCalls
<1>6. TypeOK'
  <2>1. call' \in [Cards -> Calls \cup {NotAsked}]
        /\ outcome' \in [Cards -> Outcomes \cup {Unsettled}]
    BY <1>1, <1>3 DEF BrokerInv, TypeOK
  <2>2. blocked' \subseteq Agents
    BY DEF BrokerInv, TypeOK, AskAborted
  <2> QED
    BY <1>3, <2>1, <2>2 DEF BrokerInv, TypeOK
<1>7. ClosedCardsLeaveNothing'
  <2>1. \A d \in Cards : call'[d] = NotAsked => outcome'[d] = Unsettled
    BY <1>4, <1>5 DEF BrokerInv, ClosedCardsLeaveNothing
  <2>2. \A d \in Cards : d \in pending' <=> (call'[d] # NotAsked /\ outcome'[d] = Unsettled)
    BY <1>1, <1>2, <1>3, <1>4 DEF BrokerInv, ClosedCardsLeaveNothing
  <2>3. pending' = { d \in Cards : call'[d] # NotAsked /\ outcome'[d] = Unsettled }
    BY <1>6, <2>2 DEF TypeOK
  <2>4. timers' = pending'
    BY <1>3 DEF BrokerInv, ClosedCardsLeaveNothing
  <2>5. listening' = { d \in pending' : call'[d].kind = "hook" }
    <3>1. listening = { d \in pending : call[d].kind = "hook" }
      BY DEF BrokerInv, ClosedCardsLeaveNothing
    <3>2. \A d \in pending : call'[d] = call[d]
      BY <1>2, <1>4, OpenCardsWereAsked
    <3> QED
      BY <1>3, <3>1, <3>2
  <2> QED
    BY <2>1, <2>3, <2>4, <2>5 DEF ClosedCardsLeaveNothing
<1>8. StoppedCallsAreNotAllowed'
  BY <1>1, <1>3, <1>4, <1>6 DEF BrokerInv, StoppedCallsAreNotAllowed, TypeOK
<1>9. BlockedAgentsHaveAnOpenCard'
  <2> SUFFICES ASSUME NEW a \in blocked' PROVE a \in AgentsOf(pending)'
    BY DEF BlockedAgentsHaveAnOpenCard
  <2>1. a \in blocked
    BY DEF AskAborted
  <2>2. PICK d \in pending : Blocks(call[d]) /\ call[d].agent = a
    BY <2>1 DEF BrokerInv, BlockedAgentsHaveAnOpenCard, AgentsOf
  <2>3. call'[d] = call[d] /\ d \in pending'
    BY <1>2, <1>3, <1>4, OpenCardsWereAsked
  <2> QED
    BY <2>2, <2>3 DEF AgentsOf
<1> QED
  BY <1>6, <1>7, <1>8, <1>9 DEF BrokerInv

\* What a step that closes cards does, whichever of the callbacks it is: it is the
\* whole of Next but asking.
Closes(C, decision, by) ==
  /\ Settle(C, decision, by)
  /\ \/ stopped' = stopped
     \/ decision = "deny" /\ \E S \in SUBSET C : stopped' = stopped \cup S

LEMMA StepsCloseOrAsk ==
  ASSUME BrokerInv, Next
  PROVE  \/ \E c \in Cards, r \in Calls : Ask(c, r) \/ AskAborted(c, r)
         \/ \E C \in SUBSET pending, decision \in {"allow", "deny"},
               by \in {"person", "timeout", "stopped", "gone"} : Closes(C, decision, by)
<1>1. CASE AskSome
  BY <1>1 DEF AskSome
<1>2. ASSUME NEW c \in Cards, NEW choice \in Buttons, Answer(c, choice)
      PROVE  Closes({c}, Fold(choice), "person") /\ {c} \in SUBSET pending
             /\ Fold(choice) \in {"allow", "deny"}
  BY <1>2 DEF Answer, Closes, Fold
<1>3. ASSUME NEW c \in Cards, AnswerQuestion(c)
      PROVE  Closes({c}, "allow", "person") /\ {c} \in SUBSET pending
  BY <1>3 DEF AnswerQuestion, Closes
<1>4. ASSUME NEW c \in pending, TimedOut(c)
      PROVE  Closes({c}, call[c].silence, "timeout") /\ {c} \in SUBSET pending
             /\ call[c].silence \in {"allow", "deny"}
  <2>1. call[c] \in Calls
    BY OpenCardsWereAsked
  <2> QED
    BY <1>4, <2>1, CallsAreCalls DEF TimedOut, Closes
<1>5. ASSUME NEW c \in pending, CallerGone(c)
      PROVE  Closes({c}, "deny", "gone") /\ {c} \in SUBSET pending
  BY <1>5 DEF CallerGone, Closes
<1>6. ASSUME NEW s \in Sessions, StopSession(s)
      PROVE  Closes(OfSession(s), "deny", "stopped") /\ OfSession(s) \in SUBSET pending
  BY <1>6 DEF StopSession, OfSession, Closes
<1>7. ASSUME NEW a \in Agents, StopAgent(a)
      PROVE  Closes(OfAgent(a), "deny", "stopped") /\ OfAgent(a) \in SUBSET pending
  BY <1>7 DEF StopAgent, OfAgent, Closes
<1>8. CASE AnswerSome
  BY <1>2, <1>3, <1>8 DEF AnswerSome
<1>9. CASE CloseSome
  BY <1>4, <1>5, <1>9 DEF CloseSome
<1>10. CASE StopSome
  BY <1>6, <1>7, <1>10 DEF StopSome
<1> QED
  BY <1>1, <1>8, <1>9, <1>10 DEF Next

\* A step that closes cards gives no second answer to a card that has one.
LEMMA ClosedCardsKeepTheirAnswer ==
  ASSUME BrokerInv, Next
  PROVE  \A c \in Cards : outcome[c] # Unsettled => outcome'[c] = outcome[c]
<1> SUFFICES ASSUME NEW c \in Cards, outcome[c] # Unsettled
             PROVE  outcome'[c] = outcome[c]
  OBVIOUS
<1>1. ASSUME NEW d \in Cards, NEW r \in Calls, Ask(d, r)
      PROVE  outcome'[c] = outcome[c]
  BY <1>1 DEF Ask
<1>2. ASSUME NEW d \in Cards, NEW r \in Calls, AskAborted(d, r)
      PROVE  outcome'[c] = outcome[c]
  <2>1. c # d
    BY <1>2 DEF AskAborted, Fresh, BrokerInv, ClosedCardsLeaveNothing
  <2> QED
    BY <1>2, <2>1 DEF AskAborted, BrokerInv, TypeOK
<1>3. ASSUME NEW C \in SUBSET pending, NEW decision \in {"allow", "deny"},
             NEW by \in {"person", "timeout", "stopped", "gone"}, Closes(C, decision, by)
      PROVE  outcome'[c] = outcome[c]
  <2>1. c \notin C
    BY OpenCardsWereAsked
  <2> QED
    BY <1>3, <2>1 DEF Closes, Settle
<1> QED
  BY <1>1, <1>2, <1>3, StepsCloseOrAsk

LEMMA InitInv == Init => BrokerInv
<1> SUFFICES ASSUME Init PROVE BrokerInv
  OBVIOUS
<1>1. TypeOK
  BY DEF Init, TypeOK
<1>2. ClosedCardsLeaveNothing
  BY DEF Init, ClosedCardsLeaveNothing
<1>3. StoppedCallsAreNotAllowed /\ BlockedAgentsHaveAnOpenCard
  BY DEF Init, StoppedCallsAreNotAllowed, BlockedAgentsHaveAnOpenCard
<1> QED
  BY <1>1, <1>2, <1>3 DEF BrokerInv

LEMMA NextInv == BrokerInv /\ [Next]_vars => BrokerInv'
<1> SUFFICES ASSUME BrokerInv, [Next]_vars PROVE BrokerInv'
  OBVIOUS
<1>1. CASE Next
  <2>1. ASSUME NEW c \in Cards, NEW r \in Calls, Ask(c, r) \/ AskAborted(c, r)
        PROVE  BrokerInv'
    BY <2>1, AskKeepsInv, AskAbortedKeepsInv
  <2>2. ASSUME NEW C \in SUBSET pending, NEW decision \in {"allow", "deny"},
               NEW by \in {"person", "timeout", "stopped", "gone"}, Closes(C, decision, by)
        PROVE  BrokerInv'
    BY <2>2, SettleKeepsInv DEF Closes
  <2> QED
    BY <1>1, <2>1, <2>2, StepsCloseOrAsk
<1>2. CASE UNCHANGED vars
  BY <1>2 DEF vars, BrokerInv, TypeOK, ClosedCardsLeaveNothing, StoppedCallsAreNotAllowed,
              BlockedAgentsHaveAnOpenCard, AgentsOf
<1> QED
  BY <1>1, <1>2

THEOREM BrokerSafety == Spec => []BrokerInv
BY InitInv, NextInv, PTL DEF Spec

\* The brokers' state is well formed: a promise is only resolved with an outcome.
THEOREM BrokerTypes == Spec => []TypeOK
<1>1. BrokerInv => TypeOK
  BY DEF BrokerInv
<1> QED
  BY <1>1, BrokerSafety, PTL

\* A closed card leaves no timer, listener or entry behind, and an open one has all three.
THEOREM NothingIsLeftBehind == Spec => []ClosedCardsLeaveNothing
<1>1. BrokerInv => ClosedCardsLeaveNothing
  BY DEF BrokerInv
<1> QED
  BY <1>1, BrokerSafety, PTL

\* A call stopped by the user is never allowed by the card it left behind.
THEOREM StoppedIsNotAllowed == Spec => []StoppedCallsAreNotAllowed
<1>1. BrokerInv => StoppedCallsAreNotAllowed
  BY DEF BrokerInv
<1> QED
  BY <1>1, BrokerSafety, PTL

\* No agent is pinned as active without an open card.
THEOREM NobodyStaysBlocked == Spec => []BlockedAgentsHaveAnOpenCard
<1>1. BrokerInv => BlockedAgentsHaveAnOpenCard
  BY DEF BrokerInv
<1> QED
  BY <1>1, BrokerSafety, PTL

\* The first answer of a card is its answer for good.
THEOREM FirstAnswerWins == Spec => FirstAnswerStands
<1>1. BrokerInv /\ [Next]_vars =>
        [\A c \in Cards : outcome[c] # Unsettled => outcome'[c] = outcome[c]]_vars
  BY ClosedCardsKeepTheirAnswer
<1> QED
  BY <1>1, BrokerSafety, PTL DEF Spec, FirstAnswerStands

\* The brokers implement what their callers rely on: a question waits, and what closes
\* it first is its answer.
THEOREM BrokersKeepTheirPromise == Spec => KeepsItsPromise
<1>1. Init => Promise!Init
  BY DEF Init, Promise!Init
<1>2. BrokerInv /\ [Next]_vars => [Promise!Next]_<<pending, outcome>>
  <2> SUFFICES ASSUME BrokerInv, [Next]_vars
               PROVE  [Promise!Next]_<<pending, outcome>>
    OBVIOUS
  <2>1. ASSUME NEW c \in Cards, NEW r \in Calls, Ask(c, r)
        PROVE  Promise!Next
    <3>1. Promise!Ask(c)
      BY <2>1 DEF Ask, Fresh, Promise!Ask, Promise!Fresh, BrokerInv, ClosedCardsLeaveNothing
    <3> QED
      BY <3>1 DEF Promise!Next
  <2>2. ASSUME NEW c \in Cards, NEW r \in Calls, AskAborted(c, r)
        PROVE  Promise!Next
    <3> DEFINE o == [decision |-> "deny", by |-> "gone"]
    <3>1. o \in Outcomes
      BY DEF Outcomes
    <3>2. Promise!AskAndClose(c, o)
      BY <2>2 DEF AskAborted, Fresh, Promise!AskAndClose, Promise!Fresh, BrokerInv,
                  ClosedCardsLeaveNothing
    <3> QED
      BY <3>1, <3>2 DEF Promise!Next
  <2>3. ASSUME NEW C \in SUBSET pending, NEW decision \in {"allow", "deny"},
               NEW by \in {"person", "timeout", "stopped", "gone"}, Closes(C, decision, by)
        PROVE  [Promise!Next]_<<pending, outcome>>
    <3> DEFINE o == [decision |-> decision, by |-> by]
    <3>1. o \in Outcomes /\ C \in SUBSET Cards
      BY DEF Outcomes, BrokerInv, TypeOK
    <3>2. CASE C # {}
      <4>1. Promise!Close(C, o)
        BY <2>3, <3>2 DEF Closes, Settle, Promise!Close
      <4> QED
        BY <3>1, <4>1 DEF Promise!Next
    <3>3. CASE C = {}
      <4>1. pending' = pending
        BY <2>3, <3>3 DEF Closes, Settle
      <4>2. outcome' = outcome
        BY <2>3, <3>3 DEF Closes, Settle, BrokerInv, TypeOK
      <4> QED
        BY <4>1, <4>2
    <3> QED
      BY <3>2, <3>3
  <2>4. CASE UNCHANGED vars
    BY <2>4 DEF vars
  <2> QED
    BY <2>1, <2>2, <2>3, <2>4, StepsCloseOrAsk
<1> QED
  BY <1>1, <1>2, BrokerSafety, PTL DEF Spec, KeepsItsPromise, Promise!Spec
=============================================================================
