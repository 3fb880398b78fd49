--------------------------- MODULE PermissionWindow ---------------------------
(***************************************************************************)
(* One window in front of the permission cards: the store of the client    *)
(* (stores/graphStore.ts), its ledger of what is uncertain                 *)
(* (utils/pendingPromptSync.ts), the socket that announces each card and   *)
(* each closing once (hooks/useWebSocket.ts), and the two HTTP calls that  *)
(* run beside it: the GET that fetches the open cards when the window is   *)
(* built or its socket comes back (utils/pendingPrompts.ts), and the POST  *)
(* that carries an answer.  Socket and HTTP deliver in any order; either   *)
(* may fail.  The server is PermissionBroker; everything it does without   *)
(* this window (other windows answer too) is a step of it.                 *)
(***************************************************************************)
EXTENDS PermissionBroker, Sequences, Naturals, SequencesExt

CONSTANTS
  MaxDrops,     \* bound: how often the socket is lost
  MaxFailures,  \* bound: how many HTTP calls fail
  MaxAnswers    \* bound: how often the user presses a button of one card

ASSUME WindowAssumption ==
  MaxDrops \in Nat /\ MaxFailures \in Nat /\ MaxAnswers \in Nat

VARIABLES
  up,        \* the socket is open
  opened,    \* hasOpenedRef: it was open before
  wire,      \* announcements under way over the socket
  shown,     \* pendingPermissions: the cards on the screen
  failed,    \* permissionSendFailures: cards marked "your answer did not arrive"
  token,     \* decisions: the answer a card waits for (0: none)
  journal,   \* PendingPromptSync.restore: the ids touched since the GET began
  list,      \* that GET: none, asked, or read by the server
  posts,     \* answers under way
  answers,   \* how many answers were given per card (their tokens)
  drops, failures,
  inSync,    \* history: the last GET was read while this socket was open
  revived    \* history: cards a refused answer put back, unless a later list confirmed them

windowVars == <<up, opened, wire, shown, failed, token, journal, list, posts,
                answers, drops, failures, inSync, revived>>
allVars == <<vars, windowVars>>

\* The broadcast cards: questions have a store and a route of their own.
Open == { c \in pending : call[c].kind # "question" }

NoJournal == [open |-> FALSE, ids |-> {}]
NoList == [stage |-> "none", cards |-> {}]

\* PendingPromptSync.changed
TouchNothing(j, c) == j
Touch(j, c) == IF j.open THEN [j EXCEPT !.ids = @ \cup {c}] ELSE j

\* restorePendingPrompts: a new GET takes the journal over from an older one,
\* whose answer will be ignored.
BeginRestore ==
  /\ journal' = [open |-> TRUE, ids |-> {}]
  /\ list' = [stage |-> "asked", cards |-> {}]

\* The window is built: it asks for the open cards before its socket is open.
WindowInit ==
  /\ Init
  /\ up = FALSE /\ opened = FALSE /\ wire = <<>>
  /\ shown = {} /\ failed = {} /\ token = [c \in Cards |-> 0]
  /\ journal = [open |-> TRUE, ids |-> {}]
  /\ list = [stage |-> "asked", cards |-> {}]
  /\ posts = {} /\ answers = [c \in Cards |-> 0]
  /\ drops = 0 /\ failures = 0
  /\ inSync = FALSE /\ revived = {}

(***************************************************************************)
(* The server moves.  Every card that opens or closes is broadcast once,   *)
(* to the sockets that are open at that moment.                            *)
(***************************************************************************)
OpenNext == { c \in pending' : call'[c].kind # "question" }
Announcements ==
  SetToSeq({ [what |-> "request", card |-> c] : c \in OpenNext \ Open }
           \cup { [what |-> "resolved", card |-> c] : c \in Open \ OpenNext })
Broadcast == wire' = IF up THEN wire \o Announcements ELSE wire

ServerMoves ==
  /\ Next
  /\ Broadcast
  /\ UNCHANGED <<up, opened, shown, failed, token, journal, list, posts, answers,
                 drops, failures, inSync, revived>>

(***************************************************************************)
(* The socket.                                                             *)
(***************************************************************************)
\* What was under way is lost.
Drop ==
  /\ up /\ drops < MaxDrops
  /\ up' = FALSE /\ wire' = <<>> /\ drops' = drops + 1
  /\ inSync' = FALSE
  /\ UNCHANGED <<opened, shown, failed, token, journal, list, posts, answers, failures, revived>>
  /\ UNCHANGED vars

\* onopen: a socket that comes back fetches the open cards again, the first does not.
SocketOpens ==
  /\ ~up
  /\ up' = TRUE /\ opened' = TRUE
  /\ IF opened THEN BeginRestore ELSE UNCHANGED <<journal, list>>
  /\ UNCHANGED <<wire, shown, failed, token, posts, answers, drops, failures, inSync, revived>>
  /\ UNCHANGED vars

\* addPendingPermission: a card whose answer is under way stays hidden.
CardAnnounced(c) ==
  /\ journal' = Touch(journal, c)
  /\ shown' = IF token[c] # 0 THEN shown ELSE shown \cup {c}
  /\ UNCHANGED <<failed, token, revived>>

\* removePendingPermission: the answer under way, if any, is no longer waited for.
CardClosed(c) ==
  /\ journal' = Touch(journal, c)
  /\ token' = [token EXCEPT ![c] = 0]
  /\ shown' = shown \ {c}
  /\ failed' = failed \ {c}
  /\ revived' = revived \ {c}

Deliver ==
  /\ up /\ wire # <<>>
  /\ wire' = Tail(wire)
  /\ LET m == Head(wire) IN
       IF m.what = "request" THEN CardAnnounced(m.card) ELSE CardClosed(m.card)
  /\ UNCHANGED <<up, opened, list, posts, answers, drops, failures, inSync>>
  /\ UNCHANGED vars

(***************************************************************************)
(* The GET.                                                                *)
(***************************************************************************)
ServeList ==
  /\ list.stage = "asked"
  /\ list' = [stage |-> "read", cards |-> Open]
  /\ inSync' = up
  /\ UNCHANGED <<up, opened, wire, shown, failed, token, journal, posts, answers, drops,
                 failures, revived>>
  /\ UNCHANGED vars

\* It failed, at the server or on the way back: `cancel`, and nobody asks again.
ListFails ==
  /\ list.stage # "none" /\ failures < MaxFailures
  /\ failures' = failures + 1
  /\ list' = NoList /\ journal' = NoJournal
  /\ inSync' = FALSE
  /\ UNCHANGED <<up, opened, wire, shown, failed, token, posts, answers, drops, revived>>
  /\ UNCHANGED vars

\* PendingPromptSync.merge: the server's list, except that what was touched since
\* the GET began is as it is now, and a card whose answer is under way is hidden.
Waiting == { c \in Cards : token[c] # 0 }
MergedFromTheListAlone == list.cards \ Waiting
Merged == ((list.cards \ journal.ids) \cup (journal.ids \cap shown)) \ Waiting
\* The list says a card is closed whose closing this window missed.
ConfirmedByAnyList == Waiting
ConfirmedClosed == { c \in Waiting : c \notin list.cards /\ c \notin journal.ids }

ListArrives ==
  /\ list.stage = "read"
  /\ shown' = Merged
  /\ failed' = failed \cap Merged
  /\ token' = [c \in Cards |-> IF c \in ConfirmedClosed THEN 0 ELSE token[c]]
  /\ revived' = revived \cap Merged \cap journal.ids
  /\ list' = NoList /\ journal' = NoJournal
  /\ UNCHANGED <<up, opened, wire, posts, answers, drops, failures, inSync>>
  /\ UNCHANGED vars

(***************************************************************************)
(* The POST.                                                               *)
(***************************************************************************)
\* respondPermission: the card is taken off at once and the answer sent.
Respond(c, choice) ==
  /\ c \in shown /\ token[c] = 0 /\ answers[c] < MaxAnswers
  /\ journal' = Touch(journal, c)
  /\ shown' = shown \ {c} /\ failed' = failed \ {c} /\ revived' = revived \ {c}
  /\ answers' = [answers EXCEPT ![c] = @ + 1]
  /\ token' = [token EXCEPT ![c] = answers[c] + 1]
  /\ posts' = posts \cup { [card |-> c, token |-> answers[c] + 1, choice |-> choice,
                            reply |-> "awaited"] }
  /\ UNCHANGED <<up, opened, wire, list, drops, failures, inSync>>
  /\ UNCHANGED vars

Replied(p, reply) == posts' = (posts \ {p}) \cup {[p EXCEPT !.reply = reply]}

\* POST /api/permission-decide: 404 for a closed card, 400 for an "always" the card
\* does not offer, else the answer is applied.
ServePost(p) ==
  /\ p.reply = "awaited"
  /\ \/ /\ p.card \notin pending
        /\ Replied(p, "gone")
        /\ UNCHANGED <<vars, wire>>
     \/ /\ p.card \in pending /\ Refused(p.card, p.choice)
        /\ Replied(p, "rejected")
        /\ UNCHANGED <<vars, wire>>
     \/ /\ Answer(p.card, p.choice)
        /\ Broadcast
        /\ Replied(p, "accepted")
  /\ UNCHANGED <<up, opened, shown, failed, token, journal, list, answers, drops, failures,
                 inSync, revived>>

\* A 5xx, or the request or its reply is lost: the window cannot tell which.
PostFails(p) ==
  /\ p.reply # "unconfirmed" /\ failures < MaxFailures
  /\ failures' = failures + 1
  /\ Replied(p, "unconfirmed")
  /\ UNCHANGED <<up, opened, wire, shown, failed, token, journal, list, answers, drops,
                 inSync, revived>>
  /\ UNCHANGED vars

PostReturnsForgettingTheCard(p) ==
  /\ p.reply # "awaited"
  /\ posts' = posts \ {p}
  /\ token' = IF token[p.card] = p.token THEN [token EXCEPT ![p.card] = 0] ELSE token
  /\ UNCHANGED <<shown, failed, journal, list, revived>>
  /\ UNCHANGED <<up, opened, wire, answers, drops, failures, inSync>>
  /\ UNCHANGED vars
\* The end of respondPermission.  A reply to an answer nobody waits for any more, an
\* accepted one and a 404 change nothing on the screen; a refused or unconfirmed one
\* brings the card back, marked, and an unconfirmed one also asks the server what is open.
PostReturns(p) ==
  /\ p.reply # "awaited"
  /\ posts' = posts \ {p}
  /\ \/ /\ token[p.card] # p.token
        /\ UNCHANGED <<shown, failed, token, journal, list, revived>>
     \/ /\ token[p.card] = p.token /\ p.reply \in {"accepted", "gone"}
        /\ token' = [token EXCEPT ![p.card] = 0]
        /\ journal' = Touch(journal, p.card)
        /\ UNCHANGED <<shown, failed, list, revived>>
     \/ /\ token[p.card] = p.token /\ p.reply \in {"rejected", "unconfirmed"}
        /\ token' = [token EXCEPT ![p.card] = 0]
        /\ failed' = failed \cup {p.card}
        /\ shown' = shown \cup {p.card}
        /\ revived' = IF p.reply = "rejected" THEN revived \cup {p.card} ELSE revived
        /\ IF p.reply = "unconfirmed" THEN BeginRestore
           ELSE journal' = Touch(journal, p.card) /\ UNCHANGED list
  /\ UNCHANGED <<up, opened, wire, answers, drops, failures, inSync>>
  /\ UNCHANGED vars

ListSteps == ServeList \/ ListFails \/ ListArrives
PostSteps == \/ \E c \in Cards, choice \in Buttons : Respond(c, choice)
             \/ \E p \in posts : ServePost(p) \/ PostFails(p) \/ PostReturns(p)

WindowNext == ServerMoves \/ Drop \/ SocketOpens \/ Deliver \/ ListSteps \/ PostSteps

\* Announcements are delivered, and an HTTP call that was made comes back.
WindowFairness ==
  /\ WF_allVars(Deliver)
  /\ WF_allVars(ServeList) /\ WF_allVars(ListArrives)
  /\ WF_allVars(\E p \in posts : ServePost(p))
  /\ WF_allVars(\E p \in posts : PostReturns(p))

WindowSpec == WindowInit /\ [][WindowNext]_allVars /\ WindowFairness

-----------------------------------------------------------------------------
(***************************************************************************)
(* Properties.                                                             *)
(***************************************************************************)
\* The window's stores hold what the code keeps in them.
WindowTypeOK ==
  /\ up \in BOOLEAN /\ opened \in BOOLEAN
  /\ wire \in Seq([what: {"request", "resolved"}, card: Cards])
  /\ shown \subseteq Cards /\ failed \subseteq shown
  /\ token \in [Cards -> 0 .. MaxAnswers]
  /\ journal \in [open: BOOLEAN, ids: SUBSET Cards]
  /\ list \in [stage: {"none", "asked", "read"}, cards: SUBSET Cards]
  /\ posts \subseteq [card: Cards, token: 1 .. MaxAnswers, choice: Buttons,
                      reply: {"awaited", "accepted", "gone", "rejected", "unconfirmed"}]
  /\ answers \in [Cards -> 0 .. MaxAnswers]
  /\ drops \in 0 .. MaxDrops /\ failures \in 0 .. MaxFailures
  /\ inSync \in BOOLEAN /\ revived \subseteq Cards

\* Nothing is under way between the window and the server.
Quiet == up /\ wire = <<>> /\ list.stage = "none" /\ posts = {}

\* Once a GET was read over an open socket and nothing is under way, every card the
\* server holds open is on the screen: none is lost between the list and the
\* announcements, and none stays hidden behind an answer that failed.
NoCardIsMissed == Quiet /\ inSync => Open \subseteq shown

\* Under the same conditions the screen shows no card that is closed, except one that
\* a refused answer put back unverified (NoGhostCards has that case).
NoOtherGhostCards == Quiet /\ inSync => shown \ revived \subseteq Open

\* While an answer may still be applied the user is not offered the card again: of
\* two answers to an open card at most one can still reach it.
OneAnswerUnderWay ==
  \A p, q \in posts :
    p.card = q.card /\ p.reply = "awaited" /\ q.reply = "awaited" /\ p.card \in pending => p = q

\* An answer the user gave never just vanishes: the card ends up closed, or it is
\* back on the screen to be answered again.
AnswersAreNotLost ==
  \A c \in Cards : token[c] # 0 ~> (outcome[c] # Unsettled \/ c \in shown)

\* pendingPrompts.ts:4 layers only live changes over the list, so that a late HTTP reply
\* cannot undo newer news; the card a late refusal puts back counts as such a change, and
\* survives a list that says it is closed.
NoGhostCards == Quiet /\ inSync => shown \subseteq Open
=============================================================================
