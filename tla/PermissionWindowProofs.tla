------------------------ MODULE PermissionWindowProofs ------------------------
(***************************************************************************)
(* The invariants of PermissionWindow for any number of cards, answers,    *)
(* drops and failures.  What the screen shows is compared with what the    *)
(* server holds open through everything that is still under way: the       *)
(* announcements on the wire, the list a GET has read, the journal kept    *)
(* beside it, and the answers not yet returned.  The conjuncts of          *)
(* WindowInv say what each of them owes; when nothing is under way, only   *)
(* the screen is left, and it agrees with the server.                      *)
(***************************************************************************)
EXTENDS PermissionWindow, PermissionBrokerProofs, FiniteSetTheorems

\* The cards a window can ever have heard of.
Announced == { c \in Cards : call[c] # NotAsked /\ call[c].kind # "question" }

Says(what, c) == [what |-> what, card |-> c]
\* The opening, the closing of the card c is under way.
Opening(c) == \E i \in DOMAIN wire : wire[i] = Says("request", c)
Closing(c) == \E i \in DOMAIN wire : wire[i] = Says("resolved", c)

\* An answer that is under way is the last the window gave for its card, or the card is
\* closed; what the window waits for is under way; and a reply tells the truth.
PostsInv ==
  /\ \A p \in posts : p.card \in Announced /\ p.token <= answers[p.card]
  /\ \A p, q \in posts : p.card = q.card /\ p.token = q.token => p = q
  /\ \A p \in posts : p.reply = "awaited" /\ p.card \in pending => token[p.card] = p.token
  /\ \A p \in posts : p.reply \in {"accepted", "gone"} => p.card \notin pending
  /\ \A c \in Cards : token[c] # 0 => \E p \in posts : p.card = c /\ p.token = token[c]

\* The window knows only cards that were announced, and what the wire says is true: a
\* closing is of a closed card, and the opening of a closed card has its closing behind it.
KnownInv ==
  /\ shown \subseteq Announced /\ list.cards \subseteq Announced
  /\ journal.ids \subseteq Announced
  /\ \A c \in Cards : token[c] # 0 => c \in Announced /\ c \notin shown
IsTrue(i) ==
  /\ wire[i].card \in Announced
  /\ wire[i].what = "resolved" => wire[i].card \notin pending
  /\ wire[i].what = "request" /\ wire[i].card \notin pending
       => \E j \in DOMAIN wire : i < j /\ wire[j] = Says("resolved", wire[i].card)
WireInv ==
  /\ ~up => wire = <<>>
  /\ \A i \in DOMAIN wire : IsTrue(i)

\* A GET has its journal; one that was read over the open socket has seen it open.
SyncInv ==
  /\ list.stage # "none" <=> journal.open
  /\ inSync => up
  /\ up => opened

\* What the journal keeps of an open card is on the screen or waits for its answer; an
\* answered card that the list does not have is in the journal or closed.
JournalKeepsOpenCards ==
  journal.open => \A c \in journal.ids \cap Open : c \in shown \/ token[c] # 0
ConfirmedAreClosed ==
  list.stage = "read" => \A c \in Open : token[c] # 0 => c \in list.cards \/ c \in journal.ids
\* What the journal keeps on the screen is open, about to be closed, or put back.
JournalKeepsNoGhosts ==
  journal.open => \A c \in journal.ids \cap shown :
    c \in revived \/ (~up /\ opened) \/ (up /\ (c \in Open \/ Closing(c)))

\* The list that was read and what came since: no open card is missing, and every closed
\* one is about to be closed.
ListIsGood ==
  inSync /\ list.stage = "read" =>
    /\ \A c \in Open : c \in list.cards \/ c \in journal.ids \/ Opening(c)
    /\ \A c \in list.cards : c \in journal.ids \/ c \in Open \/ Closing(c)
\* The same of the screen once the list is merged.
ScreenIsGood ==
  inSync /\ list.stage = "none" =>
    /\ \A c \in Open : c \in shown \/ token[c] # 0 \/ Opening(c)
    /\ \A c \in shown : c \in revived \/ c \in Open \/ Closing(c)

WatchInv ==
  /\ KnownInv /\ WireInv /\ SyncInv
  /\ JournalKeepsOpenCards /\ ConfirmedAreClosed /\ JournalKeepsNoGhosts
  /\ ListIsGood /\ ScreenIsGood

WindowInv == PostsInv /\ WatchInv

(***************************************************************************)
(* What the server does, seen from the wire.                               *)
(***************************************************************************)
\* A finite set laid out as a sequence has the same members.
LEMMA LaidOut ==
  ASSUME NEW S, IsFiniteSet(S)
  PROVE  /\ SetToSeq(S) \in Seq(S)
         /\ \A x \in S : \E i \in DOMAIN SetToSeq(S) : SetToSeq(S)[i] = x
<1> DEFINE n == Cardinality(S)
           f == SetToSeq(S)
<1>1. n \in Nat /\ ExistsBijection(1..n, S)
  BY FS_CardinalityType
<1>2. PICK g : g \in Bijection(1..n, S)
  BY <1>1 DEF ExistsBijection
<1>3. g \in [1..n -> S] /\ IsInjective(g)
  BY <1>2 DEF Bijection, Injection
<1>4. f \in [1..n -> S] /\ IsInjective(f)
  BY <1>3 DEF SetToSeq
<1>5. f \in Injection(1..n, S)
  BY <1>4 DEF Injection
<1>6. Cardinality(1..n) = n
  BY <1>1, FS_Interval
<1>7. f \in Surjection(1..n, S)
  BY <1>5, <1>6, FS_Injection
<1>8. \A x \in S : \E i \in 1..n : f[i] = x
  BY <1>7 DEF Surjection
<1> QED
  BY <1>1, <1>4, <1>8

\* What a step can announce is finite: a broker holds finitely many cards.
LEMMA AnnouncementsAreFinite ==
  ASSUME NEW O, NEW N, IsFiniteSet(O), IsFiniteSet(N)
  PROVE  IsFiniteSet({ [what |-> "request", card |-> c] : c \in N \ O }
                     \cup { [what |-> "resolved", card |-> c] : c \in O \ N })
<1>1. ASSUME NEW S, IsFiniteSet(S), NEW w
      PROVE  IsFiniteSet({ [what |-> w, card |-> c] : c \in S })
  <2> DEFINE T == { [what |-> w, card |-> c] : c \in S }
             f == [c \in S |-> [what |-> w, card |-> c]]
  <2>1. f \in [S -> T] /\ \A t \in T : \E c \in S : f[c] = t
    OBVIOUS
  <2>2. f \in Surjection(S, T)
    BY <2>1 DEF Surjection
  <2> HIDE DEF T, f
  <2>3. IsFiniteSet(T)
    BY <1>1, <2>2, FS_Surjection
  <2> QED
    BY <2>3 DEF T
<1>2. IsFiniteSet(N \ O) /\ IsFiniteSet(O \ N)
  BY FS_Subset
<1> QED
  BY <1>1, <1>2, FS_Union

\* Only open cards are opened or closed, each once, and what is broadcast says which.
ServerEffect ==
  /\ Announced \subseteq Announced'
  /\ \A c \in Announced : c \in pending' => c \in pending
  /\ ~up => wire' = wire
  /\ \A i \in DOMAIN wire : i \in DOMAIN wire' /\ wire'[i] = wire[i]
  /\ \A i \in DOMAIN wire' :
        \/ i \in DOMAIN wire
        \/ \E c \in Open' \ Open : wire'[i] = Says("request", c)
        \/ \E c \in Open \ Open' : wire'[i] = Says("resolved", c)
  /\ up => \A c \in Open' \ Open : \E i \in DOMAIN wire' : wire'[i] = Says("request", c)
  /\ up => \A c \in Open \ Open' : \E i \in DOMAIN wire' :
             /\ wire'[i] = Says("resolved", c)
             /\ \A j \in DOMAIN wire : j < i

Wires == [what: {"request", "resolved"}, card: Cards]

LEMMA OpenIsAnnounced == BrokerInv => Open \subseteq Announced
BY OpenCardsWereAsked, CallsAreCalls DEF Open, Announced

\* A card that was announced stays so, and one that is closed is not opened again.
LEMMA CardsOpenOnce ==
  ASSUME BrokerInv, Next
  PROVE  /\ Announced \subseteq Announced'
         /\ \A c \in Announced : c \in pending' => c \in pending
         /\ IsFiniteSet(pending) => IsFiniteSet(pending')
<1>1. ASSUME NEW d \in Cards, NEW r \in Calls, Ask(d, r) \/ AskAborted(d, r)
      PROVE  /\ Announced \subseteq Announced'
             /\ \A c \in Announced : c \in pending' => c \in pending
             /\ IsFiniteSet(pending) => IsFiniteSet(pending')
  <2>1. call[d] = NotAsked /\ call' = [call EXCEPT ![d] = r]
        /\ pending' \in {pending, pending \cup {d}}
    BY <1>1 DEF Ask, AskAborted, Fresh
  <2>2. \A c \in Cards : c # d => call'[c] = call[c]
    BY <2>1 DEF BrokerInv, TypeOK
  <2>3. d \notin Announced
    BY <2>1 DEF Announced
  <2> QED
    BY <2>1, <2>2, <2>3, FS_AddElement DEF Announced
<1>2. ASSUME NEW C \in SUBSET pending, NEW decision \in {"allow", "deny"},
             NEW by \in {"person", "timeout", "stopped", "gone"}, Closes(C, decision, by)
      PROVE  /\ Announced \subseteq Announced'
             /\ \A c \in Announced : c \in pending' => c \in pending
             /\ IsFiniteSet(pending) => IsFiniteSet(pending')
  <2>1. call' = call /\ pending' = pending \ C
    BY <1>2 DEF Closes, Settle
  <2> QED
    BY <2>1, FS_Subset DEF Announced
<1> QED
  BY <1>1, <1>2, StepsCloseOrAsk

LEMMA ServerHasEffect ==
  ASSUME BrokerInv, BrokerInv', IsFiniteSet(pending), wire \in Seq(Wires), Next, Broadcast
  PROVE  ServerEffect /\ wire' \in Seq(Wires)
<1> DEFINE A == { [what |-> "request", card |-> c] : c \in OpenNext \ Open }
                \cup { [what |-> "resolved", card |-> c] : c \in Open \ OpenNext }
           s == SetToSeq(A)
<1>1. OpenNext = Open'
  BY DEF OpenNext, Open
<1>2. IsFiniteSet(Open) /\ IsFiniteSet(OpenNext)
  BY CardsOpenOnce, FS_Subset DEF Open, OpenNext
<1>3. IsFiniteSet(A)
  BY <1>2, AnnouncementsAreFinite
<1>4. Announcements = s
  BY DEF Announcements
<1>5. A \subseteq Wires
  BY DEF Wires, Open, OpenNext, BrokerInv, TypeOK
<1>6. \A x \in A : \/ \E c \in Open' \ Open : x = Says("request", c)
                   \/ \E c \in Open \ Open' : x = Says("resolved", c)
  BY <1>1 DEF Says
<1>7. /\ \A c \in Open' \ Open : Says("request", c) \in A
      /\ \A c \in Open \ Open' : Says("resolved", c) \in A
  BY <1>1 DEF Says
<1> HIDE DEF A
<1>8. s \in Seq(A) /\ \A x \in A : \E i \in DOMAIN s : s[i] = x
  BY <1>3, LaidOut
<1> HIDE DEF s
<1>9. CASE ~up
  <2>1. wire' = wire
    BY <1>9 DEF Broadcast
  <2> QED
    BY <1>9, <2>1, CardsOpenOnce DEF ServerEffect
<1>10. CASE up
  <2>1. wire' = wire \o s /\ s \in Seq(Wires)
    BY <1>4, <1>5, <1>8, <1>10 DEF Broadcast
  <2>2. /\ wire' \in Seq(Wires) /\ Len(wire') = Len(wire) + Len(s)
        /\ \A i \in 1..Len(wire) : wire'[i] = wire[i]
        /\ \A i \in 1..Len(s) : wire'[Len(wire) + i] = s[i]
    BY <2>1
  <2>3. Len(wire) \in Nat /\ Len(s) \in Nat
        /\ DOMAIN wire = 1..Len(wire) /\ DOMAIN wire' = 1..Len(wire') /\ DOMAIN s = 1..Len(s)
    BY <2>1, <2>2
  <2>4. \A i \in DOMAIN wire : i \in DOMAIN wire' /\ wire'[i] = wire[i]
    BY <2>2, <2>3
  <2>5. ASSUME NEW i \in DOMAIN wire', i \notin DOMAIN wire
        PROVE  \/ \E c \in Open' \ Open : wire'[i] = Says("request", c)
               \/ \E c \in Open \ Open' : wire'[i] = Says("resolved", c)
    <3>1. i \in Nat /\ Len(wire) < i /\ i <= Len(wire) + Len(s)
      BY <2>2, <2>3, <2>5
    <3> DEFINE k == i - Len(wire)
    <3>2. k \in 1..Len(s) /\ i = Len(wire) + k
      BY <2>3, <3>1
    <3> HIDE DEF k
    <3>5. wire'[i] = s[k]
      BY <2>2, <3>2
    <3>3. s[k] \in A
      BY <1>8, <2>3, <3>2
    <3> QED
      BY <1>6, <3>5, <3>3
  <2>6. ASSUME NEW x \in A
        PROVE  \E i \in DOMAIN wire' : wire'[i] = x /\ \A j \in DOMAIN wire : j < i
    <3>1. PICK k \in DOMAIN s : s[k] = x
      BY <1>8
    <3>2. k \in 1..Len(s)
      BY <2>3, <3>1
    <3>5. PICK i \in Nat : i = Len(wire) + k
      BY <2>3, <3>2
    <3>6. wire'[i] = x
      BY <2>2, <3>1, <3>2, <3>5
    <3>7. i \in 1..Len(wire') /\ \A j \in 1..Len(wire) : j < i
      BY <2>2, <2>3, <3>2, <3>5
    <3>3. i \in DOMAIN wire' /\ wire'[i] = x /\ \A j \in DOMAIN wire : j < i
      BY <2>3, <3>6, <3>7
    <3> QED
      BY <3>3
  <2>7. \A c \in Open' \ Open : \E i \in DOMAIN wire' : wire'[i] = Says("request", c)
    BY <1>7, <2>6
  <2>8. \A c \in Open \ Open' : \E i \in DOMAIN wire' :
             /\ wire'[i] = Says("resolved", c)
             /\ \A j \in DOMAIN wire : j < i
    BY <1>7, <2>6
  <2> QED
    <3>1. /\ Announced \subseteq Announced'
          /\ \A c \in Announced : c \in pending' => c \in pending
      BY CardsOpenOnce
    <3>2. \A i \in DOMAIN wire' :
            \/ i \in DOMAIN wire
            \/ \E c \in Open' \ Open : wire'[i] = Says("request", c)
            \/ \E c \in Open \ Open' : wire'[i] = Says("resolved", c)
      BY <2>5
    <3> HIDE DEF Open, Announced, Says
    <3> QED
      BY <1>10, <2>2, <2>4, <2>7, <2>8, <3>1, <3>2 DEF ServerEffect
<1> QED
  BY <1>9, <1>10

(***************************************************************************)
(* Types.                                                                  *)
(***************************************************************************)
Base == BrokerInv /\ IsFiniteSet(pending) /\ WindowTypeOK

Posts == [card: Cards, token: 1 .. MaxAnswers, choice: Buttons,
          reply: {"awaited", "accepted", "gone", "rejected", "unconfirmed"}]
Replies == {"awaited", "accepted", "gone", "rejected", "unconfirmed"}

LEMMA ReplyIsAPost ==
  ASSUME NEW p \in Posts, NEW r \in Replies
  PROVE  /\ [p EXCEPT !.reply = r] \in Posts
         /\ [p EXCEPT !.reply = r].card = p.card /\ [p EXCEPT !.reply = r].token = p.token
         /\ [p EXCEPT !.reply = r].reply = r
BY DEF Posts, Replies

LEMMA TouchType ==
  ASSUME NEW j \in [open: BOOLEAN, ids: SUBSET Cards], NEW c \in Cards
  PROVE  /\ Touch(j, c) \in [open: BOOLEAN, ids: SUBSET Cards]
         /\ Touch(j, c).open = j.open
         /\ Touch(j, c).ids = IF j.open THEN j.ids \cup {c} ELSE j.ids
BY DEF Touch

\* A step of the window leaves the server alone or is one of the server's.
LEMMA ServerStepsOrNot ==
  ASSUME Base, WindowNext
  PROVE  UNCHANGED vars \/ (Next /\ Broadcast)
<1>1. ASSUME NEW p \in posts, ServePost(p)
      PROVE  UNCHANGED vars \/ (Next /\ Broadcast)
  <2>1. CASE Answer(p.card, p.choice) /\ Broadcast
    <3>1. p.card \in Cards /\ p.choice \in Buttons
      BY DEF Base, WindowTypeOK
    <3> QED
      BY <2>1, <3>1 DEF Next, AnswerSome
  <2> QED
    BY <1>1, <2>1 DEF ServePost
<1> QED
  BY <1>1 DEF WindowNext, ServerMoves, Drop, SocketOpens, Deliver, ListSteps, PostSteps,
              ServeList, ListFails, ListArrives, Respond, PostFails, PostReturns

LEMMA BrokerStep ==
  ASSUME Base, WindowNext
  PROVE  BrokerInv' /\ IsFiniteSet(pending')
<1>1. [Next]_vars
  BY ServerStepsOrNot
<1>2. BrokerInv'
  BY <1>1, NextInv DEF Base
<1>3. IsFiniteSet(pending')
  BY ServerStepsOrNot, CardsOpenOnce DEF Base, vars
<1> QED
  BY <1>2, <1>3

LEMMA BroadcastStep ==
  ASSUME Base, WindowNext, Next, Broadcast
  PROVE  ServerEffect /\ wire' \in Seq(Wires)
BY BrokerStep, ServerHasEffect DEF Base, WindowTypeOK, Wires

LEMMA RepliedType ==
  ASSUME WindowTypeOK, NEW p \in posts, NEW r \in Replies, Replied(p, r)
  PROVE  posts' \subseteq Posts
<1>1. posts \subseteq Posts
  BY DEF WindowTypeOK, Posts
<1> QED
  BY <1>1, ReplyIsAPost DEF Replied

LEMMA TypeStep ==
  ASSUME Base, WindowNext
  PROVE  WindowTypeOK'
<1> USE DEF Base
<1>1. /\ up \in BOOLEAN /\ opened \in BOOLEAN /\ wire \in Seq(Wires)
      /\ shown \subseteq Cards /\ failed \subseteq shown
      /\ token \in [Cards -> 0 .. MaxAnswers] /\ answers \in [Cards -> 0 .. MaxAnswers]
      /\ journal \in [open: BOOLEAN, ids: SUBSET Cards]
      /\ list \in [stage: {"none", "asked", "read"}, cards: SUBSET Cards]
      /\ posts \subseteq Posts
      /\ drops \in 0 .. MaxDrops /\ failures \in 0 .. MaxFailures
      /\ inSync \in BOOLEAN /\ revived \subseteq Cards
  BY DEF WindowTypeOK, Wires, Posts
<1>2. /\ NoJournal \in [open: BOOLEAN, ids: SUBSET Cards]
      /\ NoList \in [stage: {"none", "asked", "read"}, cards: SUBSET Cards]
  BY DEF NoJournal, NoList
<1>15. ASSUME BeginRestore
       PROVE  /\ journal' \in [open: BOOLEAN, ids: SUBSET Cards]
              /\ list' \in [stage: {"none", "asked", "read"}, cards: SUBSET Cards]
  BY <1>15 DEF BeginRestore
<1>16. 0 \in 0 .. MaxAnswers /\ <<>> \in Seq(Wires)
  BY WindowAssumption
<1> SUFFICES
      /\ up' \in BOOLEAN /\ opened' \in BOOLEAN /\ wire' \in Seq(Wires)
      /\ shown' \subseteq Cards /\ failed' \subseteq shown'
      /\ token' \in [Cards -> 0 .. MaxAnswers] /\ answers' \in [Cards -> 0 .. MaxAnswers]
      /\ journal' \in [open: BOOLEAN, ids: SUBSET Cards]
      /\ list' \in [stage: {"none", "asked", "read"}, cards: SUBSET Cards]
      /\ posts' \subseteq Posts
      /\ drops' \in 0 .. MaxDrops /\ failures' \in 0 .. MaxFailures
      /\ inSync' \in BOOLEAN /\ revived' \subseteq Cards
  BY DEF WindowTypeOK, Wires, Posts
<1> HIDE DEF Base
<1>3. CASE ServerMoves
  <2>1. wire' \in Seq(Wires)
    BY <1>3, BroadcastStep DEF ServerMoves
  <2> QED
    BY <1>1, <1>3, <2>1 DEF ServerMoves
<1>4. CASE Drop
  <2>1. drops' \in 0 .. MaxDrops
    BY <1>1, <1>4, WindowAssumption DEF Drop
  <2> QED
    BY <1>1, <1>4, <1>16, <2>1 DEF Drop
<1>5. CASE SocketOpens
  BY <1>1, <1>5, <1>15 DEF SocketOpens
<1>6. CASE Deliver
  <2> DEFINE m == Head(wire)
  <2>1. m \in Wires /\ wire' \in Seq(Wires)
    BY <1>1, <1>6 DEF Deliver
  <2>2. m.card \in Cards
    BY <2>1 DEF Wires
  <2>3. IF m.what = "request" THEN CardAnnounced(m.card) ELSE CardClosed(m.card)
    BY <1>6 DEF Deliver
  <2> HIDE DEF m
  <2>4. CASE CardAnnounced(m.card)
    BY <1>1, <1>6, <2>1, <2>2, <2>4, TouchType DEF Deliver, CardAnnounced
  <2>5. CASE CardClosed(m.card)
    <3>1. token' \in [Cards -> 0 .. MaxAnswers]
      BY <1>1, <1>16, <2>5 DEF CardClosed
    <3> QED
      BY <1>1, <1>6, <2>1, <2>2, <2>5, <3>1, TouchType DEF Deliver, CardClosed
  <2> QED
    BY <2>3, <2>4, <2>5
<1>7. CASE ServeList
  BY <1>1, <1>7 DEF ServeList, Open, BrokerInv, TypeOK, Base
<1>8. CASE ListFails
  <2>1. failures' \in 0 .. MaxFailures
    BY <1>1, <1>8, WindowAssumption DEF ListFails
  <2> QED
    BY <1>1, <1>2, <1>8, <2>1 DEF ListFails
<1>9. CASE ListArrives
  <2>1. Merged \subseteq Cards
    BY <1>1 DEF Merged
  <2>2. token' \in [Cards -> 0 .. MaxAnswers]
    BY <1>1, <1>9, WindowAssumption DEF ListArrives
  <2> QED
    BY <1>1, <1>2, <1>9, <2>1, <2>2 DEF ListArrives
<1>10. ASSUME NEW c \in Cards, NEW choice \in Buttons, Respond(c, choice)
       PROVE  WindowTypeOK'
  <2> DEFINE t == answers[c] + 1
             p == [card |-> c, token |-> t, choice |-> choice, reply |-> "awaited"]
  <2>1. t \in 1 .. MaxAnswers
    BY <1>1, <1>10, WindowAssumption DEF Respond
  <2>2. p \in Posts
    BY <2>1 DEF Posts
  <2>3. answers' = [answers EXCEPT ![c] = t] /\ token' = [token EXCEPT ![c] = t]
        /\ posts' = posts \cup {p}
    BY <1>10 DEF Respond
  <2> HIDE DEF t, p
  <2>4. /\ answers' \in [Cards -> 0 .. MaxAnswers] /\ token' \in [Cards -> 0 .. MaxAnswers]
        /\ posts' \subseteq Posts
    BY <1>1, <2>1, <2>2, <2>3, WindowAssumption
  <2>5. /\ wire' \in Seq(Wires) /\ shown' \subseteq Cards /\ failed' \subseteq shown'
        /\ journal' \in [open: BOOLEAN, ids: SUBSET Cards] /\ revived' \subseteq Cards
    BY <1>1, <1>10, TouchType DEF Respond
  <2> QED
    BY <1>1, <1>10, <2>4, <2>5 DEF Respond, WindowTypeOK, Wires, Posts
<1>11. ASSUME NEW p \in posts, ServePost(p)
       PROVE  WindowTypeOK'
  <2>1. posts' \subseteq Posts
    BY <1>1, <1>11, RepliedType DEF ServePost, Replies, Base
  <2>2. wire' \in Seq(Wires)
    <3>1. CASE Answer(p.card, p.choice) /\ Broadcast
      <4>1. p.card \in Cards /\ p.choice \in Buttons
        BY <1>1 DEF Posts
      <4>2. Next
        BY <3>1, <4>1 DEF Next, AnswerSome
      <4> QED
        BY <3>1, <4>2, BroadcastStep
    <3> QED
      BY <1>1, <1>11, <3>1 DEF ServePost
  <2> QED
    BY <1>1, <1>11, <2>1, <2>2 DEF ServePost, WindowTypeOK, Wires, Posts
<1>12. ASSUME NEW p \in posts, PostFails(p)
       PROVE  WindowTypeOK'
  <2>1. posts' \subseteq Posts
    BY <1>1, <1>12, RepliedType DEF PostFails, Replies, Base
  <2>2. failures' \in 0 .. MaxFailures
    BY <1>1, <1>12, WindowAssumption DEF PostFails
  <2> QED
    BY <1>1, <1>12, <2>1, <2>2 DEF PostFails, WindowTypeOK, Wires, Posts
<1>13. ASSUME NEW p \in posts, PostReturns(p)
       PROVE  WindowTypeOK'
  <2>1. p.card \in Cards /\ posts' \subseteq Posts
    BY <1>1, <1>13 DEF PostReturns, Posts
  <2>2. token' \in [Cards -> 0 .. MaxAnswers]
    BY <1>1, <1>13, <1>16 DEF PostReturns
  <2>3. /\ journal' \in [open: BOOLEAN, ids: SUBSET Cards]
        /\ list' \in [stage: {"none", "asked", "read"}, cards: SUBSET Cards]
    <3>1. CASE BeginRestore
      BY <1>15, <3>1
    <3>2. CASE ~BeginRestore
      <4>1. journal' \in {journal, Touch(journal, p.card)} /\ list' = list
        BY <1>13, <3>2 DEF PostReturns
      <4>2. Touch(journal, p.card) \in [open: BOOLEAN, ids: SUBSET Cards]
        BY <1>1, <2>1, TouchType
      <4> QED
        BY <1>1, <4>1, <4>2
    <3> QED
      BY <3>1, <3>2
  <2>4. shown' \subseteq Cards /\ failed' \subseteq shown' /\ revived' \subseteq Cards
    BY <1>1, <1>13, <2>1 DEF PostReturns
  <2> QED
    BY <1>1, <1>13, <2>1, <2>2, <2>3, <2>4 DEF PostReturns, WindowTypeOK, Wires, Posts
<1> QED
  BY <1>3, <1>4, <1>5, <1>6, <1>7, <1>8, <1>9, <1>10, <1>11, <1>12, <1>13
     DEF WindowNext, ListSteps, PostSteps, WindowTypeOK, Wires, Posts

(***************************************************************************)
(* The invariant, step by step.                                            *)
(***************************************************************************)
LEMMA Shapes ==
  ASSUME Base
  PROVE  /\ up \in BOOLEAN /\ opened \in BOOLEAN /\ wire \in Seq(Wires)
         /\ shown \subseteq Cards /\ token \in [Cards -> Nat] /\ answers \in [Cards -> Nat]
         /\ journal \in [open: BOOLEAN, ids: SUBSET Cards]
         /\ list \in [stage: {"none", "asked", "read"}, cards: SUBSET Cards]
         /\ posts \subseteq Posts
         /\ inSync \in BOOLEAN /\ revived \subseteq Cards
         /\ Open \subseteq Announced /\ Announced \subseteq Cards
         /\ Open = Announced \cap pending
<1>1. 0 .. MaxAnswers \subseteq Nat
  OBVIOUS
<1>2. Open \subseteq Announced
  BY OpenIsAnnounced DEF Base
<1> QED
  BY <1>1, <1>2 DEF Base, WindowTypeOK, Wires, Posts, Announced, Open

LEMMA Unmoved ==
  ASSUME UNCHANGED vars
  PROVE  Open' = Open /\ Announced' = Announced /\ pending' = pending
BY DEF vars, Open, Announced

\* What the server does while a window looks on.
LEMMA ServerKeepsWatch ==
  ASSUME Base, Base', WatchInv, ServerEffect,
         UNCHANGED <<up, opened, shown, token, journal, list, inSync, revived>>
  PROVE  WatchInv'
<1>1. /\ Open = Announced \cap pending /\ Open' = Announced' \cap pending'
      /\ Announced \subseteq Cards /\ Announced' \subseteq Cards
  BY DEF Base, BrokerInv, ClosedCardsLeaveNothing, Open, Announced
<1>2. /\ Announced \subseteq Announced'
      /\ \A c \in Announced : c \in pending' => c \in pending
  BY DEF ServerEffect
<1>3. \A c \in Announced : c \in Open' => c \in Open
  BY <1>1, <1>2
<1>4. \A c \in Cards : (Opening(c) => Opening(c)') /\ (Closing(c) => Closing(c)')
  BY DEF ServerEffect, Opening, Closing
<1>5. up => \A c \in Open : c \in Open' \/ Closing(c)'
  BY DEF ServerEffect, Closing
<1>6. up => \A c \in Open' : c \in Open \/ Opening(c)'
  BY DEF ServerEffect, Opening
<1>7. WireInv'
  <2>1. ~up' => wire' = <<>>
    BY DEF ServerEffect, WatchInv, WireInv
  <2>2. ASSUME NEW i \in DOMAIN wire'
        PROVE  IsTrue(i)'
    <3>1. CASE i \in DOMAIN wire
      <4>1. wire'[i] = wire[i] /\ wire[i].card \in Announced
        BY <3>1 DEF ServerEffect, WatchInv, WireInv, IsTrue
      <4>2. wire[i].what = "resolved" => wire[i].card \notin pending'
        BY <1>2, <3>1, <4>1 DEF WatchInv, WireInv, IsTrue
      <4>3. ASSUME wire[i].what = "request", wire[i].card \notin pending'
            PROVE  \E j \in DOMAIN wire' : i < j /\ wire'[j] = Says("resolved", wire[i].card)
        <5>1. CASE wire[i].card \in pending
          <6>1. wire[i].card \in Open \ Open'
            BY <1>1, <4>1, <4>3, <5>1
          <6>2. up
            BY <3>1 DEF WatchInv, WireInv
          <6> QED
            BY <3>1, <6>1, <6>2 DEF ServerEffect
        <5>2. CASE wire[i].card \notin pending
          <6>1. PICK j \in DOMAIN wire : i < j /\ wire[j] = Says("resolved", wire[i].card)
            BY <3>1, <4>3, <5>2 DEF WatchInv, WireInv, IsTrue
          <6>2. j \in DOMAIN wire' /\ wire'[j] = wire[j]
            BY DEF ServerEffect
          <6> QED
            BY <6>1, <6>2
        <5> QED
          BY <5>1, <5>2
      <4> QED
        BY <1>2, <4>1, <4>2, <4>3 DEF IsTrue
    <3>2. CASE \E c \in Open' \ Open : wire'[i] = Says("request", c)
      BY <1>1, <3>2 DEF Says, IsTrue
    <3>3. CASE \E c \in Open \ Open' : wire'[i] = Says("resolved", c)
      BY <1>1, <1>2, <3>3 DEF Says, IsTrue
    <3> QED
      BY <3>1, <3>2, <3>3 DEF ServerEffect
  <2> QED
    BY <2>1, <2>2 DEF WireInv, IsTrue
<1>8. SyncInv'
  BY DEF WatchInv, SyncInv
<1>9. JournalKeepsOpenCards' /\ ConfirmedAreClosed'
  BY <1>1, <1>2, <1>3 DEF WatchInv, KnownInv, JournalKeepsOpenCards, ConfirmedAreClosed
<1>10. JournalKeepsNoGhosts'
  BY <1>1, <1>4, <1>5 DEF WatchInv, KnownInv, JournalKeepsNoGhosts
<1>11. ListIsGood'
  BY <1>1, <1>2, <1>4, <1>5, <1>6 DEF WatchInv, KnownInv, ListIsGood, SyncInv
<1>12. ScreenIsGood'
  BY <1>1, <1>2, <1>4, <1>5, <1>6 DEF WatchInv, KnownInv, ScreenIsGood, SyncInv
<1>13. KnownInv'
  BY <1>2 DEF WatchInv, KnownInv
<1> QED
  BY <1>7, <1>8, <1>9, <1>10, <1>11, <1>12, <1>13 DEF WatchInv

\* A server step leaves the answers under way as they are, but for one that it serves.
LEMMA ServerKeepsPosts ==
  ASSUME Base, WatchInv, PostsInv, ServerEffect, UNCHANGED <<token, answers>>,
         \/ posts' = posts
         \/ \E p \in posts : p.card \notin pending' /\ Replied(p, "accepted")
  PROVE  PostsInv'
<1>1. /\ Announced \subseteq Announced'
      /\ \A c \in Announced : c \in pending' => c \in pending
  BY DEF ServerEffect
<1>2. CASE posts' = posts
  BY <1>1, <1>2 DEF PostsInv
<1>3. ASSUME NEW p \in posts, p.card \notin pending', Replied(p, "accepted")
      PROVE  PostsInv'
  <2> DEFINE r == [p EXCEPT !.reply = "accepted"]
  <2>1. p \in Posts /\ p.card \in Cards
    BY Shapes DEF Posts
  <2>2. r.card = p.card /\ r.token = p.token /\ r.reply = "accepted"
    BY <2>1, ReplyIsAPost DEF Replies
  <2>3. posts' = (posts \ {p}) \cup {r}
    BY <1>3 DEF Replied
  <2> HIDE DEF r
  <2> QED
    BY <1>1, <1>3, <2>2, <2>3 DEF PostsInv
<1> QED
  BY <1>2, <1>3

LEMMA ServerMovesKeepsInv ==
  ASSUME Base, Base', WindowInv, ServerMoves
  PROVE  WindowInv'
<1>1. ServerEffect
  BY BroadcastStep DEF ServerMoves, WindowNext
<1>2. WatchInv'
  BY <1>1, ServerKeepsWatch DEF ServerMoves, WindowInv
<1>3. PostsInv'
  BY <1>1, ServerKeepsPosts DEF ServerMoves, WindowInv
<1> QED
  BY <1>2, <1>3 DEF WindowInv

LEMMA DropKeepsInv ==
  ASSUME Base, WindowInv, Drop
  PROVE  WindowInv'
<1> USE DEF WindowInv, WatchInv
<1>1. Open' = Open /\ Announced' = Announced /\ pending' = pending
  BY Unmoved DEF Drop
<1>2. PostsInv' /\ KnownInv'
  BY <1>1 DEF Drop, PostsInv, KnownInv
<1>3. WireInv'
  BY DEF Drop, WireInv, IsTrue
<1>4. SyncInv'
  BY DEF Drop, SyncInv
<1>5. JournalKeepsOpenCards' /\ ConfirmedAreClosed'
  BY <1>1 DEF Drop, JournalKeepsOpenCards, ConfirmedAreClosed
<1>6. JournalKeepsNoGhosts'
  BY DEF Drop, JournalKeepsNoGhosts, SyncInv
<1>7. ListIsGood' /\ ScreenIsGood'
  BY DEF Drop, ListIsGood, ScreenIsGood
<1> QED
  BY <1>2, <1>3, <1>4, <1>5, <1>6, <1>7

LEMMA SocketOpensKeepsInv ==
  ASSUME Base, WindowInv, SocketOpens
  PROVE  WindowInv'
<1> USE DEF WindowInv, WatchInv
<1>1. Open' = Open /\ Announced' = Announced /\ pending' = pending
  BY Unmoved DEF SocketOpens
<1>2. PostsInv'
  BY <1>1 DEF SocketOpens, PostsInv
<1>3. KnownInv'
  BY <1>1 DEF SocketOpens, BeginRestore, KnownInv
<1>4. WireInv'
  BY <1>1 DEF SocketOpens, WireInv, IsTrue
<1>5. SyncInv'
  BY DEF SocketOpens, BeginRestore, SyncInv
<1>6. JournalKeepsOpenCards' /\ ConfirmedAreClosed'
  BY <1>1 DEF SocketOpens, BeginRestore, JournalKeepsOpenCards, ConfirmedAreClosed
<1>7. JournalKeepsNoGhosts'
  BY DEF SocketOpens, BeginRestore, JournalKeepsNoGhosts
<1>8. ListIsGood' /\ ScreenIsGood'
  BY DEF SocketOpens, ListIsGood, ScreenIsGood, SyncInv
<1> QED
  BY <1>2, <1>3, <1>4, <1>5, <1>6, <1>7, <1>8

\* The wire after its head was delivered: what was said of another card is still said.
LEMMA TailOfTheWire ==
  ASSUME NEW w \in Seq(Wires), w # <<>>
  PROVE  /\ Tail(w) \in Seq(Wires)
         /\ \A i \in DOMAIN Tail(w) : i + 1 \in DOMAIN w /\ Tail(w)[i] = w[i + 1]
         /\ \A i \in DOMAIN w : i = 1 \/ (i - 1 \in DOMAIN Tail(w) /\ Tail(w)[i - 1] = w[i])
         /\ 1 \in DOMAIN w /\ Head(w) = w[1]
<1>1. Len(w) \in Nat /\ Len(w) # 0 /\ Len(Tail(w)) = Len(w) - 1 /\ Tail(w) \in Seq(Wires)
  OBVIOUS
<1>2. DOMAIN w = 1..Len(w) /\ DOMAIN Tail(w) = 1..(Len(w) - 1)
  BY <1>1
<1>3. \A i \in 1..(Len(w) - 1) : Tail(w)[i] = w[i + 1]
  OBVIOUS
<1>4. \A i \in 1..(Len(w) - 1) : i + 1 \in 1..Len(w)
  BY <1>1
<1>5. \A i \in 1..Len(w) : i = 1 \/ (i - 1 \in 1..(Len(w) - 1) /\ Tail(w)[i - 1] = w[i])
  BY <1>1
<1> QED
  BY <1>1, <1>2, <1>3, <1>4, <1>5

LEMMA DeliverKeepsInv ==
  ASSUME Base, WindowInv, Deliver
  PROVE  WindowInv'
<1> USE DEF WindowInv, WatchInv
<1> DEFINE m == Head(wire)
<1>0. PICK c : c = m.card
  OBVIOUS
<1>1. /\ up /\ wire # <<>> /\ wire' = Tail(wire)
      /\ UNCHANGED <<up, opened, list, posts, answers, inSync>>
      /\ IF m.what = "request" THEN CardAnnounced(c) ELSE CardClosed(c)
  BY <1>0 DEF Deliver
<1>2. Open' = Open /\ Announced' = Announced /\ pending' = pending
  BY Unmoved DEF Deliver
<1>3. wire \in Seq(Wires) /\ Open \subseteq Announced /\ Announced \subseteq Cards
      /\ Open = Announced \cap pending
  BY Shapes
<1>4. /\ \A i \in DOMAIN wire' : i + 1 \in DOMAIN wire /\ wire'[i] = wire[i + 1]
      /\ \A i \in DOMAIN wire : i = 1 \/ (i - 1 \in DOMAIN wire' /\ wire'[i - 1] = wire[i])
      /\ 1 \in DOMAIN wire /\ m = wire[1]
  BY <1>1, <1>3, TailOfTheWire
<1>5. m \in Wires /\ DOMAIN wire \subseteq Nat /\ DOMAIN wire' \subseteq Nat
  BY <1>1, <1>3, <1>4
<1>6. IsTrue(1) /\ c \in Announced
  BY <1>0, <1>4 DEF WireInv, IsTrue
<1>7. m = Says(m.what, c) /\ m.what \in {"request", "resolved"}
  BY <1>0, <1>5 DEF Wires, Says
<1>8. m.what = "request" => c \in Open \/ \E j \in DOMAIN wire : 1 < j /\ wire[j] = Says("resolved", c)
  BY <1>0, <1>3, <1>4, <1>6 DEF IsTrue
<1>9. m.what = "resolved" => c \notin pending
  BY <1>0, <1>4, <1>6 DEF IsTrue
<1> HIDE DEF m
<1>10. WireInv'
  <2> SUFFICES ASSUME NEW i \in DOMAIN wire' PROVE IsTrue(i)'
    BY <1>1 DEF WireInv, IsTrue
  <2>1. PICK k \in DOMAIN wire : k = i + 1 /\ wire'[i] = wire[k] /\ IsTrue(k)
    BY <1>4 DEF WireInv
  <2>2. ASSUME wire[k].what = "request", wire[k].card \notin pending
        PROVE  \E j \in DOMAIN wire' : i < j /\ wire'[j] = Says("resolved", wire[k].card)
    <3>1. PICK h \in DOMAIN wire : k < h /\ wire[h] = Says("resolved", wire[k].card)
      BY <2>1, <2>2 DEF IsTrue
    <3>2. h # 1 /\ i < h - 1
      BY <1>5, <2>1, <3>1
    <3> QED
      BY <1>4, <3>1, <3>2
  <2> QED
    BY <1>2, <2>1, <2>2 DEF IsTrue
<1>11. ASSUME NEW d \in Cards
       PROVE  /\ Opening(d) => d = c \/ Opening(d)'
              /\ Closing(d) => (d = c /\ m.what = "resolved") \/ Closing(d)'
  <2>1. ASSUME NEW i \in DOMAIN wire, wire[i] = Says("request", d), d # c
        PROVE  Opening(d)'
    <3>1. i # 1
      BY <1>4, <1>7, <2>1 DEF Says
    <3> QED
      BY <1>4, <2>1, <3>1 DEF Opening
  <2>2. ASSUME NEW i \in DOMAIN wire, wire[i] = Says("resolved", d),
               d # c \/ m.what # "resolved"
        PROVE  Closing(d)'
    <3>1. i # 1
      BY <1>4, <1>7, <2>2 DEF Says
    <3> QED
      BY <1>4, <2>2, <3>1 DEF Closing
  <2> QED
    BY <2>1, <2>2 DEF Opening, Closing
<1>12. m.what = "request" => c \in Open \/ Closing(c)'
  <2>1. ASSUME NEW j \in DOMAIN wire, 1 < j, wire[j] = Says("resolved", c)
        PROVE  \E i \in DOMAIN wire' : wire'[i] = Says("resolved", c)
    BY <1>4, <1>5, <2>1
  <2> QED
    BY <1>8, <2>1 DEF Closing
<1>13. /\ journal' = Touch(journal, c) /\ journal'.open = journal.open
       /\ journal'.ids = IF journal.open THEN journal.ids \cup {c} ELSE journal.ids
  <2>1. journal' = Touch(journal, c)
    BY <1>1 DEF CardAnnounced, CardClosed
  <2>2. c \in Cards /\ journal \in [open: BOOLEAN, ids: SUBSET Cards]
    BY <1>3, <1>6, Shapes
  <2> QED
    BY <2>1, <2>2, TouchType
<1>14. SyncInv'
  BY <1>1, <1>13 DEF SyncInv
<1>15. CASE m.what = "request"
  <2>1. shown' = (IF token[c] # 0 THEN shown ELSE shown \cup {c})
        /\ UNCHANGED <<token, revived>>
    BY <1>1, <1>15 DEF CardAnnounced
  <2>2. PostsInv'
    BY <1>1, <1>2, <2>1 DEF PostsInv
  <2>3. KnownInv'
    BY <1>1, <1>2, <1>6, <1>13, <2>1 DEF KnownInv
  <2>4. JournalKeepsOpenCards' /\ ConfirmedAreClosed'
    BY <1>1, <1>2, <1>13, <2>1 DEF JournalKeepsOpenCards, ConfirmedAreClosed
  <2>5. JournalKeepsNoGhosts'
    BY <1>1, <1>2, <1>3, <1>11, <1>12, <1>13, <1>15, <2>1 DEF JournalKeepsNoGhosts, KnownInv
  <2>6. ListIsGood'
    BY <1>1, <1>2, <1>3, <1>11, <1>13, <1>15, <2>1 DEF ListIsGood, SyncInv, KnownInv
  <2>7. ScreenIsGood'
    BY <1>1, <1>2, <1>3, <1>11, <1>12, <1>15, <2>1 DEF ScreenIsGood, KnownInv
  <2> QED
    BY <1>10, <1>14, <2>2, <2>3, <2>4, <2>5, <2>6, <2>7
<1>16. CASE m.what = "resolved"
  <2>1. shown' = shown \ {c} /\ token' = [token EXCEPT ![c] = 0] /\ revived' = revived \ {c}
    BY <1>1, <1>16 DEF CardClosed
  <2>2. c \notin Open /\ c \notin pending /\ c \in Cards
    BY <1>3, <1>6, <1>9, <1>16
  <2>3. \A d \in Cards : token'[d] = IF d = c THEN 0 ELSE token[d]
    BY <2>1, <2>2, Shapes
  <2>4. PostsInv'
    BY <1>1, <1>2, <1>3, <2>2, <2>3 DEF PostsInv
  <2>5. KnownInv'
    BY <1>1, <1>2, <1>6, <1>13, <2>1, <2>3 DEF KnownInv
  <2>6. JournalKeepsOpenCards' /\ ConfirmedAreClosed'
    BY <1>1, <1>2, <1>3, <1>13, <2>1, <2>2, <2>3 DEF JournalKeepsOpenCards, ConfirmedAreClosed
  <2>7. JournalKeepsNoGhosts'
    BY <1>1, <1>2, <1>3, <1>11, <1>13, <1>16, <2>1 DEF JournalKeepsNoGhosts, KnownInv
  <2>8. ListIsGood'
    BY <1>1, <1>2, <1>3, <1>11, <1>13, <2>2 DEF ListIsGood, SyncInv, KnownInv
  <2>9. ScreenIsGood'
    BY <1>1, <1>2, <1>3, <1>11, <2>1, <2>2, <2>3 DEF ScreenIsGood, KnownInv
  <2> QED
    BY <1>10, <1>14, <2>4, <2>5, <2>6, <2>7, <2>8, <2>9
<1> QED
  BY <1>7, <1>15, <1>16

LEMMA ServeListKeepsInv ==
  ASSUME Base, WindowInv, ServeList
  PROVE  WindowInv'
<1> USE DEF WindowInv, WatchInv
<1>1. Open' = Open /\ Announced' = Announced /\ pending' = pending
  BY Unmoved DEF ServeList
<1>2. PostsInv' /\ WireInv'
  BY <1>1 DEF ServeList, PostsInv, WireInv, IsTrue
<1>3. KnownInv' /\ SyncInv'
  BY <1>1, Shapes DEF ServeList, KnownInv, SyncInv
<1>4. JournalKeepsOpenCards' /\ ConfirmedAreClosed' /\ JournalKeepsNoGhosts'
  BY <1>1 DEF ServeList, JournalKeepsOpenCards, ConfirmedAreClosed, JournalKeepsNoGhosts, Closing
<1>5. ListIsGood' /\ ScreenIsGood'
  BY <1>1 DEF ServeList, ListIsGood, ScreenIsGood
<1> QED
  BY <1>2, <1>3, <1>4, <1>5

LEMMA ListFailsKeepsInv ==
  ASSUME Base, WindowInv, ListFails
  PROVE  WindowInv'
<1> USE DEF WindowInv, WatchInv
<1>1. Open' = Open /\ Announced' = Announced /\ pending' = pending
  BY Unmoved DEF ListFails
<1>2. PostsInv' /\ WireInv'
  BY <1>1 DEF ListFails, PostsInv, WireInv, IsTrue
<1>3. KnownInv' /\ SyncInv'
  BY <1>1 DEF ListFails, KnownInv, SyncInv, NoList, NoJournal
<1>4. JournalKeepsOpenCards' /\ ConfirmedAreClosed' /\ JournalKeepsNoGhosts'
  BY <1>1 DEF ListFails, NoList, NoJournal, JournalKeepsOpenCards, ConfirmedAreClosed,
              JournalKeepsNoGhosts
<1>5. ListIsGood' /\ ScreenIsGood'
  BY DEF ListFails, ListIsGood, ScreenIsGood
<1> QED
  BY <1>2, <1>3, <1>4, <1>5

LEMMA ListArrivesKeepsInv ==
  ASSUME Base, WindowInv, ListArrives
  PROVE  WindowInv'
<1> USE DEF WindowInv, WatchInv
<1>1. Open' = Open /\ Announced' = Announced /\ pending' = pending
  BY Unmoved DEF ListArrives
<1>2. Open \subseteq Cards /\ Announced \subseteq Cards /\ Open = Announced \cap pending
      /\ shown \subseteq Cards /\ list.cards \subseteq Announced /\ shown \subseteq Announced
  BY Shapes DEF KnownInv
<1>3. list.stage = "read" /\ journal.open
  BY DEF ListArrives, SyncInv
<1>4. ConfirmedClosed \cap pending = {}
  BY <1>2, <1>3 DEF ConfirmedClosed, Waiting, ConfirmedAreClosed, KnownInv
<1>5. \A c \in Cards : token'[c] = IF c \in ConfirmedClosed THEN 0 ELSE token[c]
  BY DEF ListArrives
<1>6. PostsInv'
  BY <1>1, <1>2, <1>4, <1>5 DEF ListArrives, PostsInv
<1>7. WireInv'
  BY <1>1 DEF ListArrives, WireInv, IsTrue
<1>8. KnownInv' /\ SyncInv'
  BY <1>1, <1>2, <1>5 DEF ListArrives, KnownInv, SyncInv, NoList, NoJournal, Merged, Waiting
<1>9. JournalKeepsOpenCards' /\ ConfirmedAreClosed' /\ JournalKeepsNoGhosts' /\ ListIsGood'
  BY DEF ListArrives, NoList, NoJournal, JournalKeepsOpenCards, ConfirmedAreClosed,
         JournalKeepsNoGhosts, ListIsGood
<1>10. ASSUME inSync, NEW c \in Open
       PROVE  c \in Merged \/ token'[c] # 0 \/ Opening(c)
  <2>1. c \in Waiting => token'[c] # 0
    BY <1>2, <1>4, <1>5 DEF Waiting
  <2>2. c \in journal.ids => c \in shown \/ c \in Waiting
    BY <1>2, <1>3 DEF JournalKeepsOpenCards, Waiting
  <2>3. c \in list.cards \/ c \in journal.ids \/ Opening(c)
    BY <1>3, <1>10 DEF ListIsGood
  <2> QED
    BY <2>1, <2>2, <2>3 DEF Merged
<1>11. ASSUME inSync, NEW c \in Merged
       PROVE  c \in revived \cap Merged \cap journal.ids \/ c \in Open \/ Closing(c)
  <2>1. CASE c \in list.cards \ journal.ids
    BY <1>3, <1>11, <2>1 DEF ListIsGood
  <2>2. CASE c \in journal.ids \cap shown
    BY <1>3, <1>11, <2>2 DEF JournalKeepsNoGhosts, SyncInv
  <2> QED
    BY <2>1, <2>2 DEF Merged
<1>12. ScreenIsGood'
  BY <1>1, <1>10, <1>11 DEF ListArrives, ScreenIsGood, Opening, Closing
<1> QED
  BY <1>6, <1>7, <1>8, <1>9, <1>12

LEMMA RespondKeepsInv ==
  ASSUME Base, WindowInv, NEW c \in Cards, NEW choice \in Buttons, Respond(c, choice)
  PROVE  WindowInv'
<1> USE DEF WindowInv, WatchInv
<1> DEFINE t == answers[c] + 1
           p == [card |-> c, token |-> t, choice |-> choice, reply |-> "awaited"]
<1>1. Open' = Open /\ Announced' = Announced /\ pending' = pending
  BY Unmoved DEF Respond
<1>2. /\ c \in shown /\ token[c] = 0 /\ shown' = shown \ {c} /\ revived' = revived \ {c}
      /\ answers' = [answers EXCEPT ![c] = t] /\ token' = [token EXCEPT ![c] = t]
      /\ posts' = posts \cup {p} /\ UNCHANGED <<up, opened, wire, list, inSync>>
      /\ p.card = c /\ p.token = t /\ p.reply = "awaited"
  BY DEF Respond
<1>3. answers[c] \in Nat /\ t \in Nat /\ t # 0 /\ t > answers[c] /\ c \in Announced
  BY <1>2, Shapes DEF KnownInv
<1>4. /\ \A d \in Cards : token'[d] = IF d = c THEN t ELSE token[d]
      /\ \A d \in Cards : answers'[d] = IF d = c THEN t ELSE answers[d]
  BY <1>2, Shapes
<1>5. /\ journal' = Touch(journal, c) /\ journal'.open = journal.open
      /\ journal'.ids = IF journal.open THEN journal.ids \cup {c} ELSE journal.ids
  BY Shapes, TouchType DEF Respond
<1>6. \A q \in posts : q.card \in Cards /\ q.token \in Nat
  BY Shapes DEF Posts
<1>7. \A d \in Cards : answers[d] \in Nat
  BY Shapes
<1> HIDE DEF t, p
<1>8. PostsInv'
  <2>1. \A q \in posts' : q.card \in Announced' /\ q.token <= answers'[q.card]
    BY <1>1, <1>2, <1>3, <1>4, <1>6, <1>7 DEF PostsInv
  <2>2. ASSUME NEW q \in posts PROVE ~(q.card = c /\ q.token = t)
    BY <1>3, <1>6 DEF PostsInv
  <2>3. \A q, r \in posts' : q.card = r.card /\ q.token = r.token => q = r
    BY <1>2, <2>2 DEF PostsInv
  <2>4. \A q \in posts' : q.reply = "awaited" /\ q.card \in pending' => token'[q.card] = q.token
    <3>1. ASSUME NEW q \in posts, q.reply = "awaited", q.card \in pending
          PROVE  q.card # c
      <4>1. token[q.card] = q.token /\ q.token # 0
        BY <3>1, Shapes DEF PostsInv, Posts
      <4> QED
        BY <1>2, <4>1
    <3> QED
      BY <1>1, <1>2, <1>4, <1>6, <3>1 DEF PostsInv
  <2>5. \A q \in posts' : q.reply \in {"accepted", "gone"} => q.card \notin pending'
    BY <1>1, <1>2 DEF PostsInv
  <2>6. \A d \in Cards : token'[d] # 0 => \E q \in posts' : q.card = d /\ q.token = token'[d]
    BY <1>2, <1>4 DEF PostsInv
  <2> QED
    BY <2>1, <2>3, <2>4, <2>5, <2>6 DEF PostsInv
<1>9. WireInv'
  BY <1>1, <1>2 DEF WireInv, IsTrue
<1>10. KnownInv' /\ SyncInv'
  BY <1>1, <1>2, <1>3, <1>4, <1>5 DEF KnownInv, SyncInv
<1>11. JournalKeepsOpenCards' /\ ConfirmedAreClosed'
  BY <1>1, <1>2, <1>3, <1>4, <1>5, Shapes
     DEF JournalKeepsOpenCards, ConfirmedAreClosed, SyncInv
<1>12. JournalKeepsNoGhosts'
  BY <1>1, <1>2, <1>5 DEF JournalKeepsNoGhosts, Closing
<1>13. ListIsGood'
  BY <1>1, <1>2, <1>5 DEF ListIsGood, Opening, Closing
<1>14. ScreenIsGood'
  BY <1>1, <1>2, <1>3, <1>4, Shapes DEF ScreenIsGood, Opening, Closing
<1> QED
  BY <1>8, <1>9, <1>10, <1>11, <1>12, <1>13, <1>14

\* A reply changes the answer it replies to, and nothing else about the answers.
LEMMA ReplyKeepsPosts ==
  ASSUME Base, PostsInv, NEW p \in posts, NEW r \in Replies, Replied(p, r), r # "awaited",
         r \in {"accepted", "gone"} => p.card \notin pending,
         UNCHANGED <<vars, token, answers>>
  PROVE  PostsInv'
<1> DEFINE q == [p EXCEPT !.reply = r]
<1>1. p \in Posts
  BY Shapes
<1>2. q.card = p.card /\ q.token = p.token /\ q.reply = r
  BY <1>1, ReplyIsAPost
<1>3. posts' = (posts \ {p}) \cup {q}
  BY DEF Replied
<1>4. Announced' = Announced /\ pending' = pending
  BY Unmoved
<1> HIDE DEF q
<1> QED
  BY <1>2, <1>3, <1>4 DEF PostsInv

LEMMA ServePostKeepsInv ==
  ASSUME Base, Base', WindowInv, NEW p \in posts, ServePost(p)
  PROVE  WindowInv'
<1>1. CASE Answer(p.card, p.choice) /\ Broadcast /\ Replied(p, "accepted")
  <2>1. p.card \in Cards /\ p.choice \in Buttons
    BY Shapes DEF Posts
  <2>2. Next
    BY <1>1, <2>1 DEF Next, AnswerSome
  <2>3. ServerEffect
    BY <1>1, <2>2, BroadcastStep DEF WindowNext, PostSteps
  <2>4. p.card \notin pending'
    BY <1>1 DEF Answer, Settle
  <2>5. WatchInv'
    BY <2>3, ServerKeepsWatch DEF ServePost, WindowInv
  <2>6. PostsInv'
    BY <1>1, <2>3, <2>4, ServerKeepsPosts DEF ServePost, WindowInv
  <2> QED
    BY <2>5, <2>6 DEF WindowInv
<1>2. CASE UNCHANGED <<vars, wire>>
  <2>1. Open' = Open /\ Announced' = Announced /\ pending' = pending
    BY <1>2, Unmoved
  <2>0. UNCHANGED <<vars, token, answers>>
    BY <1>2 DEF ServePost
  <2>7. PostsInv /\ "gone" \in Replies /\ "rejected" \in Replies
    BY DEF WindowInv, Replies
  <2>2. ASSUME p.card \notin pending, Replied(p, "gone")
        PROVE  PostsInv'
    BY <2>0, <2>2, <2>7, ReplyKeepsPosts
  <2>3. ASSUME Replied(p, "rejected")
        PROVE  PostsInv'
    BY <2>0, <2>3, <2>7, ReplyKeepsPosts
  <2>4. ASSUME Answer(p.card, p.choice)
        PROVE  PostsInv'
    <3>1. p.card \in pending /\ p.card \notin pending'
      BY <2>4 DEF Answer, Settle
    <3> QED
      BY <2>1, <3>1
  <2>5. PostsInv'
    BY <2>2, <2>3, <2>4 DEF ServePost, WindowInv
  <2>6. WatchInv'
    BY <1>2, <2>1 DEF ServePost, WindowInv, WatchInv, KnownInv, WireInv, IsTrue, SyncInv,
       JournalKeepsOpenCards, ConfirmedAreClosed, JournalKeepsNoGhosts, ListIsGood, ScreenIsGood,
       Opening, Closing
  <2> QED
    BY <2>5, <2>6 DEF WindowInv
<1> QED
  BY <1>1, <1>2 DEF ServePost

LEMMA PostFailsKeepsInv ==
  ASSUME Base, WindowInv, NEW p \in posts, PostFails(p)
  PROVE  WindowInv'
<1>1. Open' = Open /\ Announced' = Announced /\ pending' = pending
  BY Unmoved DEF PostFails
<1>2. PostsInv'
  BY ReplyKeepsPosts DEF PostFails, WindowInv, Replies
<1>3. WatchInv'
  BY <1>1 DEF PostFails, WindowInv, WatchInv, KnownInv, WireInv, IsTrue, SyncInv,
     JournalKeepsOpenCards, ConfirmedAreClosed, JournalKeepsNoGhosts, ListIsGood, ScreenIsGood,
     Opening, Closing
<1> QED
  BY <1>2, <1>3 DEF WindowInv

LEMMA PostReturnsKeepsInv ==
  ASSUME Base, WindowInv, NEW p \in posts, PostReturns(p)
  PROVE  WindowInv'
<1> USE DEF WindowInv, WatchInv
<1>1. Open' = Open /\ Announced' = Announced /\ pending' = pending
  BY Unmoved DEF PostReturns
<1>2. PICK c \in Cards : c = p.card
  BY Shapes DEF Posts
<1>3. /\ p.reply # "awaited" /\ posts' = posts \ {p} /\ c \in Announced
      /\ UNCHANGED <<up, opened, wire, answers, inSync>>
  BY <1>2 DEF PostReturns, PostsInv
<1>4. \A d \in Cards : token'[d] = IF d = c /\ token[c] = p.token THEN 0 ELSE token[d]
  BY <1>2, Shapes DEF PostReturns
<1>5. Open \subseteq Announced /\ Open = Announced \cap pending /\ Announced \subseteq Cards
  BY Shapes
<1>6. PostsInv'
  <2>1. ASSUME NEW q \in posts, q.reply = "awaited", q.card \in pending
        PROVE  token'[q.card] = q.token
    <3>1. q.card \in Cards /\ token[q.card] = q.token
      BY <2>1, <1>5 DEF PostsInv
    <3>2. ~(q.card = c /\ token[c] = p.token)
      BY <1>2, <1>3, <2>1, <3>1 DEF PostsInv
    <3> QED
      BY <1>4, <3>1, <3>2
  <2>2. ASSUME NEW d \in Cards, token'[d] # 0
        PROVE  \E q \in posts' : q.card = d /\ q.token = token'[d]
    <3>1. token'[d] = token[d] /\ ~(d = c /\ token[c] = p.token)
      BY <1>4, <2>2
    <3>2. PICK q \in posts : q.card = d /\ q.token = token[d]
      BY <2>2, <3>1 DEF PostsInv
    <3>3. q # p
      BY <1>2, <3>1, <3>2
    <3> QED
      BY <1>3, <3>1, <3>2, <3>3
  <2> QED
    BY <1>1, <1>3, <2>1, <2>2 DEF PostsInv
<1>7. WireInv'
  BY <1>1, <1>3 DEF WireInv, IsTrue
<1>8. CASE UNCHANGED <<shown, failed, token, journal, list, revived>>
  BY <1>1, <1>3, <1>6, <1>7, <1>8
     DEF KnownInv, SyncInv, JournalKeepsOpenCards, ConfirmedAreClosed, JournalKeepsNoGhosts,
         ListIsGood, ScreenIsGood, Opening, Closing
<1>9. CASE ~BeginRestore /\ token[c] = p.token
  <2>1. journal' = Touch(journal, c) /\ list' = list
    BY <1>2, <1>9 DEF PostReturns
  <2>2. journal \in [open: BOOLEAN, ids: SUBSET Cards]
    BY Shapes
  <2>3. /\ journal'.open = journal.open
        /\ journal'.ids = IF journal.open THEN journal.ids \cup {c} ELSE journal.ids
    BY <2>1, <2>2, TouchType
  <2>4. \/ shown' = shown \cup {c} /\ revived' = revived \cup {c}
        \/ shown' = shown /\ revived' = revived /\ c \notin pending
    BY <1>2, <1>9 DEF PostReturns, PostsInv
  <2>10. p.token # 0
    BY Shapes DEF Posts
  <2>11. c \notin shown
    BY <1>9, <2>10 DEF KnownInv
  <2>5. KnownInv' /\ SyncInv'
    BY <1>1, <1>3, <1>4, <1>9, <2>1, <2>3, <2>4 DEF KnownInv, SyncInv
  <2>6. JournalKeepsOpenCards' /\ ConfirmedAreClosed'
    BY <1>1, <1>4, <1>5, <2>1, <2>3, <2>4 DEF JournalKeepsOpenCards, ConfirmedAreClosed
  <2>7. JournalKeepsNoGhosts'
    BY <1>1, <1>3, <1>5, <2>3, <2>4, <2>11 DEF JournalKeepsNoGhosts, Closing
  <2>8. ListIsGood'
    BY <1>1, <1>3, <2>1, <2>3 DEF ListIsGood, Opening, Closing, SyncInv
  <2>9. ScreenIsGood'
    BY <1>1, <1>3, <1>4, <1>5, <2>1, <2>4 DEF ScreenIsGood, Opening, Closing
  <2> QED
    BY <1>6, <1>7, <2>5, <2>6, <2>7, <2>8, <2>9
<1>10. CASE BeginRestore /\ shown' = shown \cup {c} /\ token[c] = p.token
  <2>1. /\ journal'.open = TRUE /\ journal'.ids = {}
        /\ list'.stage = "asked" /\ list'.cards = {}
    BY <1>10 DEF BeginRestore
  <2>2. KnownInv' /\ SyncInv'
    BY <1>1, <1>3, <1>4, <1>10, <2>1 DEF KnownInv, SyncInv
  <2>3. JournalKeepsOpenCards' /\ ConfirmedAreClosed' /\ JournalKeepsNoGhosts'
    BY <2>1 DEF JournalKeepsOpenCards, ConfirmedAreClosed, JournalKeepsNoGhosts
  <2>4. ListIsGood' /\ ScreenIsGood'
    BY <2>1 DEF ListIsGood, ScreenIsGood
  <2> QED
    BY <1>6, <1>7, <2>2, <2>3, <2>4
<1>11. BeginRestore => shown' = shown \cup {c} \/ UNCHANGED <<shown, failed, token, journal, list, revived>>
  <2>1. CASE token[c] # p.token
    BY <1>2, <2>1 DEF PostReturns
  <2>2. CASE p.reply \in {"rejected", "unconfirmed"} /\ token[c] = p.token
    BY <1>2, <2>2 DEF PostReturns
  <2>3. CASE p.reply \in {"accepted", "gone"} /\ token[c] = p.token
    <3>1. list' = list /\ journal' = Touch(journal, c)
      BY <1>2, <2>3 DEF PostReturns
    <3>2. c \in journal'.ids \/ ~journal'.open
      <4>1. journal \in [open: BOOLEAN, ids: SUBSET Cards]
        BY Shapes
      <4>2. c \in Touch(journal, c).ids \/ ~Touch(journal, c).open
        <5>1. CASE journal.open
          BY <4>1, <5>1 DEF Touch
        <5>2. CASE ~journal.open
          BY <5>2 DEF Touch
        <5> QED
          BY <5>1, <5>2
      <4> QED
        BY <3>1, <4>2
    <3> QED
      BY <3>2 DEF BeginRestore
  <2> QED
    BY <1>2, <2>1, <2>2, <2>3 DEF PostReturns
<1>12. token[c] = p.token \/ UNCHANGED <<shown, failed, token, journal, list, revived>>
  BY <1>2 DEF PostReturns
<1> QED
  BY <1>8, <1>9, <1>10, <1>11, <1>12

LEMMA WindowInitInv == WindowInit => Base /\ WindowInv
<1> SUFFICES ASSUME WindowInit PROVE Base /\ WindowInv
  OBVIOUS
<1>1. BrokerInv
  BY InitInv DEF WindowInit
<1>2. pending = {} /\ IsFiniteSet(pending)
  BY FS_EmptySet DEF WindowInit, Init
<1>3. WindowTypeOK
  <2>1. 0 \in 0 .. MaxAnswers /\ 0 \in 0 .. MaxDrops /\ 0 \in 0 .. MaxFailures
    BY WindowAssumption
  <2>2. /\ journal \in [open: BOOLEAN, ids: SUBSET Cards]
        /\ list \in [stage: {"none", "asked", "read"}, cards: SUBSET Cards]
    BY DEF WindowInit
  <2>3. wire \in Seq([what: {"request", "resolved"}, card: Cards])
    BY DEF WindowInit
  <2>4. token \in [Cards -> 0 .. MaxAnswers] /\ answers \in [Cards -> 0 .. MaxAnswers]
    BY <2>1 DEF WindowInit
  <2>5. /\ up \in BOOLEAN /\ opened \in BOOLEAN /\ shown \subseteq Cards /\ failed \subseteq shown
        /\ posts = {} /\ drops \in 0 .. MaxDrops /\ failures \in 0 .. MaxFailures
        /\ inSync \in BOOLEAN /\ revived \subseteq Cards
    BY <2>1 DEF WindowInit
  <2> QED
    BY <2>2, <2>3, <2>4, <2>5 DEF WindowTypeOK
<1>4. Open = {}
  BY <1>2 DEF Open
<1>5. PostsInv
  BY DEF WindowInit, PostsInv
<1>6. KnownInv /\ WireInv /\ SyncInv
  BY DEF WindowInit, KnownInv, WireInv, SyncInv
<1>7. /\ JournalKeepsOpenCards /\ ConfirmedAreClosed /\ JournalKeepsNoGhosts
      /\ ListIsGood /\ ScreenIsGood
  BY DEF WindowInit, JournalKeepsOpenCards, ConfirmedAreClosed, JournalKeepsNoGhosts,
         ListIsGood, ScreenIsGood
<1> QED
  BY <1>1, <1>2, <1>3, <1>5, <1>6, <1>7 DEF Base, WindowInv, WatchInv

LEMMA WindowNextInv == Base /\ WindowInv /\ [WindowNext]_allVars => Base' /\ WindowInv'
<1> SUFFICES ASSUME Base, WindowInv, [WindowNext]_allVars PROVE Base' /\ WindowInv'
  OBVIOUS
<1>1. CASE WindowNext
  <2>1. Base'
    BY <1>1, BrokerStep, TypeStep DEF Base
  <2>2. WindowInv'
    BY <1>1, <2>1, ServerMovesKeepsInv, DropKeepsInv, SocketOpensKeepsInv, DeliverKeepsInv,
       ServeListKeepsInv, ListFailsKeepsInv, ListArrivesKeepsInv, RespondKeepsInv,
       ServePostKeepsInv, PostFailsKeepsInv, PostReturnsKeepsInv
       DEF WindowNext, ListSteps, PostSteps
  <2> QED
    BY <2>1, <2>2
<1>2. CASE UNCHANGED allVars
  <2>1. /\ UNCHANGED vars /\ UNCHANGED <<up, opened, wire, shown, token, journal, list, posts, answers>>
        /\ UNCHANGED <<failed, drops, failures, inSync, revived>>
    BY <1>2 DEF allVars, windowVars
  <2>2. Open' = Open /\ Announced' = Announced /\ pending' = pending
    BY <2>1, Unmoved
  <2>3. BrokerInv'
    BY <2>1, NextInv DEF Base
  <2>4. WindowTypeOK'
    BY <2>1 DEF Base, WindowTypeOK
  <2>5. PostsInv' /\ KnownInv' /\ WireInv' /\ SyncInv'
    BY <2>1, <2>2 DEF WindowInv, WatchInv, PostsInv, KnownInv, WireInv, IsTrue, SyncInv
  <2>6. /\ JournalKeepsOpenCards' /\ ConfirmedAreClosed' /\ JournalKeepsNoGhosts'
        /\ ListIsGood' /\ ScreenIsGood'
    BY <2>1, <2>2 DEF WindowInv, WatchInv, JournalKeepsOpenCards, ConfirmedAreClosed,
       JournalKeepsNoGhosts, ListIsGood, ScreenIsGood, Opening, Closing
  <2> QED
    BY <2>2, <2>3, <2>4, <2>5, <2>6 DEF Base, WindowInv, WatchInv
<1> QED
  BY <1>1, <1>2

\* Whatever the server, the socket and the two HTTP calls do, in whatever order, all of the
\* window's stores and everything under way stay in step with the server (WindowInv).
THEOREM WindowInvariant == WindowSpec => [](Base /\ WindowInv)
BY WindowInitInv, WindowNextInv, PTL DEF WindowSpec

\* The stores of a window hold what the code keeps in them (graphStore.ts,
\* pendingPromptSync.ts), whatever arrives in whatever order.
THEOREM WindowTypes == WindowSpec => []WindowTypeOK
<1>1. Base => WindowTypeOK
  BY DEF Base
<1> QED
  BY <1>1, WindowInvariant, PTL

\* NoCardIsMissed: with nothing under way, every card the server holds open is on the screen
\* of a window whose list was read over its open socket.
THEOREM NothingIsMissed == WindowSpec => []NoCardIsMissed
<1>1. Base /\ WindowInv => NoCardIsMissed
  <2> SUFFICES ASSUME Base, WindowInv, Quiet, inSync, NEW c \in Open PROVE c \in shown
    BY DEF NoCardIsMissed
  <2>1. c \in shown \/ token[c] # 0 \/ Opening(c)
    BY DEF Quiet, WindowInv, WatchInv, ScreenIsGood
  <2>2. token[c] = 0
    BY Shapes DEF Quiet, WindowInv, PostsInv
  <2>3. ~Opening(c)
    BY DEF Quiet, Opening
  <2> QED
    BY <2>1, <2>2, <2>3
<1> QED
  BY <1>1, WindowInvariant, PTL

\* NoOtherGhostCards: under the same conditions the screen shows no closed card but one that
\* a refused answer put back.
THEOREM OnlyRevivedGhosts == WindowSpec => []NoOtherGhostCards
<1>1. Base /\ WindowInv => NoOtherGhostCards
  <2> SUFFICES ASSUME Base, WindowInv, Quiet, inSync, NEW c \in shown \ revived PROVE c \in Open
    BY DEF NoOtherGhostCards
  <2>1. c \in Open \/ Closing(c)
    BY DEF Quiet, WindowInv, WatchInv, ScreenIsGood
  <2>2. ~Closing(c)
    BY DEF Quiet, Closing
  <2> QED
    BY <2>1, <2>2
<1> QED
  BY <1>1, WindowInvariant, PTL

\* OneAnswerUnderWay: of two answers to one open card at most one can still reach it.
THEOREM AtMostOneAnswer == WindowSpec => []OneAnswerUnderWay
<1>1. Base /\ WindowInv => OneAnswerUnderWay
  BY DEF WindowInv, PostsInv, OneAnswerUnderWay
<1> QED
  BY <1>1, WindowInvariant, PTL

\* The safety half of AnswersAreNotLost.  An answer the window waits for has its call under
\* way, so a reply is due; one the server accepted, or found too late, is for a closed card;
\* and the card is not on the screen meanwhile, to be answered a second time.
WaitedForIsUnderWay ==
  \A c \in Cards : token[c] # 0 =>
    /\ c \notin shown
    /\ \E p \in posts :
         /\ p.card = c /\ p.token = token[c]
         /\ p.reply \in {"accepted", "gone"} => outcome[c] # Unsettled

\* And the window stops waiting, by whatever step, only when the card is closed or back on
\* the screen to be answered again: the announcement of a closing is true, and a list that
\* does not have the card, with no news of it since, was read after it closed.
WaitEndsWithNews ==
  [][\A c \in Cards : token[c] # 0 /\ token'[c] # token[c] =>
       outcome'[c] # Unsettled \/ c \in shown']_allVars

\* A card that was asked and is not pending has its outcome.
LEMMA ClosedHasOutcome ==
  ASSUME Base, NEW c \in Announced, c \notin pending
  PROVE  c \in Cards /\ outcome[c] # Unsettled
BY DEF Base, BrokerInv, ClosedCardsLeaveNothing, TypeOK, Announced

\* The window waits for an answer only while its call is under way, and the card hidden.
THEOREM NoWaitIsForgotten == WindowSpec => []WaitedForIsUnderWay
<1>1. Base /\ WindowInv => WaitedForIsUnderWay
  <2> SUFFICES ASSUME Base, WindowInv, NEW c \in Cards, token[c] # 0
               PROVE  /\ c \notin shown
                      /\ \E p \in posts :
                           /\ p.card = c /\ p.token = token[c]
                           /\ p.reply \in {"accepted", "gone"} => outcome[c] # Unsettled
    BY DEF WaitedForIsUnderWay
  <2>1. c \in Announced /\ c \notin shown
    BY DEF WindowInv, WatchInv, KnownInv
  <2>2. PICK p \in posts : p.card = c /\ p.token = token[c]
    BY DEF WindowInv, PostsInv
  <2>3. p.reply \in {"accepted", "gone"} => outcome[c] # Unsettled
    BY <2>1, <2>2, ClosedHasOutcome DEF WindowInv, PostsInv
  <2> QED
    BY <2>1, <2>2, <2>3
<1> QED
  BY <1>1, WindowInvariant, PTL

\* WaitEndsWithNews: the announcement of a closing, a list that was read, and the reply of
\* each kind are the only ways a wait ends, and each brings the news it needs.
THEOREM WaitsEndWithNews == WindowSpec => WaitEndsWithNews
<1> DEFINE News == \A c \in Cards : token[c] # 0 /\ token'[c] # token[c] =>
                     outcome'[c] # Unsettled \/ c \in shown'
<1>1. Base /\ WindowInv /\ [WindowNext]_allVars => [News]_allVars
  <2> SUFFICES ASSUME Base, WindowInv, WindowNext, NEW c \in Cards,
                      token[c] # 0, token'[c] # token[c]
               PROVE  outcome'[c] # Unsettled \/ c \in shown'
    OBVIOUS
  <2>1. c \in Announced /\ token \in [Cards -> Nat] /\ Open = Announced \cap pending
    BY Shapes DEF WindowInv, WatchInv, KnownInv
  <2>2. CASE Deliver
    <3>1. PICK i \in DOMAIN wire : i = 1 /\ wire[i] = Head(wire)
      BY <2>2, Shapes DEF Deliver
    <3>2. wire[i].what # "request" /\ wire[i].card = c
      BY <2>1, <2>2, <3>1 DEF Deliver, CardAnnounced, CardClosed
    <3>3. wire[i] \in Wires
      BY <3>1, Shapes
    <3>4. c \notin pending
      BY <3>2, <3>3 DEF WindowInv, WatchInv, WireInv, IsTrue, Wires
    <3> QED
      BY <2>1, <2>2, <3>4, ClosedHasOutcome DEF Deliver, vars
  <2>3. CASE ListArrives
    <3>1. c \in ConfirmedClosed /\ list.stage = "read"
      BY <2>1, <2>3 DEF ListArrives
    <3>2. c \notin pending
      BY <2>1, <3>1 DEF ConfirmedClosed, Waiting, WindowInv, WatchInv, ConfirmedAreClosed
    <3> QED
      BY <2>1, <2>3, <3>2, ClosedHasOutcome DEF ListArrives, vars
  <2>4. ASSUME NEW p \in posts, PostReturns(p)
        PROVE  outcome'[c] # Unsettled \/ c \in shown'
    <3>1. p.card = c /\ token[c] = p.token
      BY <2>1, <2>4 DEF PostReturns
    <3>2. CASE p.reply \in {"accepted", "gone"}
      <4>1. c \notin pending
        BY <3>1, <3>2 DEF WindowInv, PostsInv
      <4> QED
        BY <2>1, <2>4, <4>1, ClosedHasOutcome DEF PostReturns, vars
    <3>3. CASE p.reply \notin {"accepted", "gone"}
      BY <2>4, <3>1, <3>3 DEF PostReturns
    <3> QED
      BY <3>2, <3>3
  <2>5. CASE \/ ServerMoves \/ Drop \/ SocketOpens \/ ServeList \/ ListFails
             \/ \E p \in posts : ServePost(p) \/ PostFails(p)
    BY <2>5 DEF ServerMoves, Drop, SocketOpens, ServeList, ListFails, ServePost, PostFails
  <2>6. ASSUME NEW d \in Cards, NEW choice \in Buttons, Respond(d, choice)
        PROVE  FALSE
    BY <2>1, <2>6 DEF Respond
  <2> QED
    BY <2>2, <2>3, <2>4, <2>5, <2>6 DEF WindowNext, ListSteps, PostSteps
<1> QED
  BY <1>1, WindowInvariant, PTL DEF WindowSpec, WaitEndsWithNews
=============================================================================
