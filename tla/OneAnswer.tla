------------------------------ MODULE OneAnswer ------------------------------
(***************************************************************************)
(* What the brokers of services/permissionBroker.ts and                    *)
(* services/askUserQuestionBroker.ts promise a caller: a question that was *)
(* asked waits until something closes it, and what closed it first is its  *)
(* answer for good.  Several questions may be closed at once (a session is *)
(* stopped), and a question may be closed the moment it is asked.          *)
(***************************************************************************)
CONSTANTS Questions, Answers, NoAnswer

VARIABLES waiting,   \* the questions somebody waits on
          answer     \* what each question was answered

Init == waiting = {} /\ answer = [q \in Questions |-> NoAnswer]

Fresh(q) == q \notin waiting /\ answer[q] = NoAnswer

Ask(q) == Fresh(q) /\ waiting' = waiting \cup {q} /\ UNCHANGED answer

AskAndClose(q, a) ==
  /\ Fresh(q)
  /\ answer' = [answer EXCEPT ![q] = a]
  /\ UNCHANGED waiting

Close(Q, a) ==
  /\ Q # {} /\ Q \subseteq waiting
  /\ waiting' = waiting \ Q
  /\ answer' = [q \in Questions |-> IF q \in Q THEN a ELSE answer[q]]

Next ==
  \/ \E q \in Questions : Ask(q)
  \/ \E q \in Questions, a \in Answers : AskAndClose(q, a)
  \/ \E Q \in SUBSET Questions, a \in Answers : Close(Q, a)

Spec == Init /\ [][Next]_<<waiting, answer>>
=============================================================================
