--------------------------- MODULE AutoGoalLifecycle ---------------------------
(***************************************************************************)
(* Procedures that agents reuse: each is a SKILL.md whose frontmatter      *)
(* holds its review and the confirmed completions of its tasks             *)
(* (services/autoGoalLifecycle.ts, services/autoGoalService.ts).           *)
(*                                                                         *)
(* An agent asks before it works (assess): it may run a procedure whose    *)
(* review still stands, and skip a task that was completed with the same   *)
(* instructions, inputs and outputs.  It reports afterwards (outcome),     *)
(* with the assessment as its one-use token.  Between the two, others      *)
(* review or close the procedure, and anybody edits the SKILL.md, the      *)
(* files the review rests on, the inputs or the outputs.                   *)
(*                                                                         *)
(* A request is one synchronous handler, and one step.  A write may fail:  *)
(* then the request fails and changes nothing, except that a stop which    *)
(* was merely observed goes unstored and the request goes on.              *)
(***************************************************************************)
EXTENDS Lists

CONSTANTS
  Procedures,
  InUse,           \* bound: those agents use and people edit; the others may replace them
  Files,           \* bound: the files of the project
  Contents,        \* bound: what a file may hold
  Blank,           \* what the files hold at first
  Missing,         \* a file that does not exist
  Bodies,          \* bound: the instructions of a procedure
  FirstBody,       \* the instructions a procedure is written with
  Tasks,           \* bound: the tasks agents ask about
  EvidenceSets,    \* bound: what a review may rest on
  InputSets,       \* bound: what a task may read
  OutputSets,      \* bound: what a task may write
  MaxCompletions,  \* AUTO_GOAL_COMPLETION_MAX
  MaxReviews,      \* bound: reviews
  MaxAssessments,  \* bound: assessments that are out at one time
  MaxEdits,        \* bound: edits by hand
  ByHand,          \* bound: the statuses somebody writes by hand
  None

Statuses == {"candidate", "active", "needs-review", "retired", "superseded"}

ASSUME GoalAssumption ==
  /\ InUse \subseteq Procedures /\ None \notin {"failed", "skipped", "completed"}
  /\ FirstBody \in Bodies /\ Blank \in Contents /\ Missing \notin Contents
  /\ EvidenceSets \cup InputSets \cup OutputSets \subseteq (SUBSET Files) \ {{}}
  /\ MaxCompletions \in Nat \ {0}
  /\ MaxReviews \in Nat /\ MaxAssessments \in Nat /\ MaxEdits \in Nat /\ ByHand \subseteq Statuses

VARIABLES
  content,   \* what the files hold
  doc,       \* the SKILL.md of a procedure
  tokens,    \* the assessments that are out, in memory
  reviews,   \* how many reviews were made: the time of the last one
  edits,     \* how many edits by hand there were
  proven,    \* history: the completions reported since the last failure or review request
  outdated,  \* history: the assessments older than a change of their procedure's standing
  stopped    \* history: the procedures the server has seen closed since their last approval,
             \* without failing to write it down

vars == <<content, doc, tokens, reviews, edits, proven, outdated, stopped>>
history == <<proven, outdated, stopped>>

Ids == 1..MaxAssessments

\* ---- files ----
Present(F) == \A f \in F : content[f] # Missing
Snapshot(F) == [f \in F |-> content[f]]
Matches(h) == \A f \in DOMAIN h : content[f] = h[f]

\* ---- the document ----
NewDocument == [body |-> FirstBody, files |-> {}, visible |-> "candidate", stored |-> None]
\* The instructions: counters and the standing are not part of them.
Fingerprint(d) == <<d.body, d.files>>

\* The standing of a procedure.  A status set by hand can close it, but not open it.
Standing(d) ==
  IF d.stored = None
  THEN [status |-> CASE d.visible \in {"retired", "superseded"} -> d.visible
                     [] d.visible = "active" -> "needs-review"
                     [] OTHER -> "candidate",
        review |-> None, completions |-> <<>>]
  ELSE IF d.visible \notin {d.stored.status, "active"}
  THEN [d.stored EXCEPT !.status = d.visible, !.completions = <<>>]
  ELSE d.stored
Saved(d, s) == [d EXCEPT !.stored = s, !.visible = s.status]

Stale(d, s) ==
  \/ s.review = None
  \/ s.review.of # Fingerprint(d)
  \/ ~Matches(s.review.files)

\* Mutant: a stop by hand is derived anew each time.
ObservedInPassing(d) ==
  LET s == Standing(d)
  IN IF s.status = "active" /\ Stale(d, s)
     THEN Saved(d, [s EXCEPT !.status = "needs-review"])
     ELSE d
\* Whoever looks at a procedure writes down that it was closed by hand or has gone stale:
\* what is left of a document if that write does not fail.
Observed(d) ==
  LET s == Standing(d)
  IN IF s.status = "active" /\ Stale(d, s)
     THEN Saved(d, [s EXCEPT !.status = "needs-review"])
     ELSE IF d.stored # None /\ d.stored.status # s.status THEN Saved(d, s)
     ELSE d
IsActive(d) == Standing(Observed(d)).status = "active"

\* ---- history ----
SameStanding(d, e) ==
  d # None /\ e # None /\ d.stored # None /\ e.stored # None
    /\ d.stored.status = e.stored.status /\ d.stored.review = e.stored.review
\* The documents become new; the server has looked at those in seen, without failing to write
\* down what it saw, and approved those in approved.
Become(new, seen, approved) ==
  /\ doc' = new
  /\ outdated' = { i \in Ids : tokens[i] # None /\
                     (i \in outdated \/ ~SameStanding(doc[tokens[i].of], new[tokens[i].of])) }
  /\ stopped' = { p \in stopped \cup seen : new[p] # None }
                  \ (approved \cup
                       {p \in seen \ stopped : new[p] # None /\ Standing(new[p]).status = "active"})

Init ==
  /\ content = [f \in Files |-> Blank]
  /\ doc = [p \in Procedures |-> None]
  /\ tokens = [i \in Ids |-> None]
  /\ reviews = 0 /\ edits = 0
  /\ proven = [p \in Procedures |-> {}]
  /\ outdated = {} /\ stopped = {}

\* ---- the list, and what it observes ----
Existing == { p \in Procedures : doc[p] # None }
\* The write that an observation makes may fail, which is ignored: kept are the documents
\* whose write does not.  The caller is answered with what was seen in any case.
Listed(kept) == [p \in Procedures |-> IF p \in kept THEN Observed(doc[p]) ELSE doc[p]]
Look(kept) ==
  /\ Become(Listed(kept), kept, {})
  /\ UNCHANGED <<content, tokens, reviews, edits, proven>>

\* Work that repeats is written down once.
Mine(p, kept) ==
  /\ doc[p] = None
  /\ Become([Listed(kept) EXCEPT ![p] = NewDocument], kept, {})
  /\ UNCHANGED <<content, tokens, reviews, edits, proven>>

\* ---- reviews ----
\* The body b is approved on the files F as they are.
Approved(d, b, F) ==
  LET draft == [d EXCEPT !.body = b, !.files = F]
      s == Standing(d)
  IN Saved(draft, [s EXCEPT !.status = "active",
                            !.review = [of |-> Fingerprint(draft), files |-> Snapshot(F),
                                        at |-> reviews + 1]])
Review(p, b, F) ==
  /\ reviews < MaxReviews
  /\ doc[p] # None /\ Present(F)
  /\ Become([doc EXCEPT ![p] = Approved(@, b, F)], {p}, {p})
  /\ reviews' = reviews + 1
  /\ UNCHANGED <<content, tokens, edits, proven>>

Closed(d, status) == Saved(d, [Standing(d) EXCEPT !.status = status])
Retire(p) ==
  /\ doc[p] # None
  /\ Become([doc EXCEPT ![p] = Closed(@, "retired")], {p}, {})
  /\ UNCHANGED <<content, tokens, reviews, edits, proven>>

\* Only a replacement whose review stands now takes over.
Supersede(p, q, kept) ==
  /\ p # q
  /\ doc[p] # None /\ doc[q] # None
  /\ IF IsActive(doc[q])
     THEN Become([doc EXCEPT ![p] = Closed(@, "superseded")], {p, q}, {})
     ELSE kept \subseteq {q} /\ Become(Listed(kept), kept, {})
  /\ UNCHANGED <<content, tokens, reviews, edits, proven>>

RequestReview(p) ==
  /\ doc[p] # None
  /\ Become([doc EXCEPT ![p] = Saved(@, [Standing(@) EXCEPT !.status = "needs-review",
                                                            !.completions = <<>>])], {p}, {})
  /\ proven' = [proven EXCEPT ![p] = {}]
  /\ UNCHANGED <<content, tokens, reviews, edits>>

Delete(p, kept) ==
  /\ doc[p] # None
  /\ Become([Listed(kept) EXCEPT ![p] = None], kept, {})
  /\ proven' = [proven EXCEPT ![p] = {}]
  /\ UNCHANGED <<content, tokens, reviews, edits>>

\* ---- assessments ----
\* Mutant: a completion counts whatever has become of what it wrote.
ProofsByInput(s, t, I) ==
  { k \in DOMAIN s.completions :
      LET c == s.completions[k]
      IN c.task = t /\ c.of = s.review.of /\ c.inputs = Snapshot(I) }
\* The completions that show the task needs no run.
Proofs(s, t, I) ==
  { k \in DOMAIN s.completions :
      LET c == s.completions[k]
      IN c.task = t /\ c.of = s.review.of /\ c.inputs = Snapshot(I) /\ Matches(c.outputs) }
Latest(K) == CHOOSE k \in K : \A j \in K : j <= k

Token(p, s, t, I) ==
  LET proofs == Proofs(s, t, I)
  IN [of |-> p, review |-> s.review, task |-> t, inputs |-> Snapshot(I),
      decision |-> IF proofs = {} THEN "run" ELSE "skip",
      outputs |-> IF proofs = {} THEN None ELSE s.completions[Latest(proofs)].outputs,
      receipt |-> None]
Free == { i \in Ids : tokens[i] = None }
Assess(p, t, I, kept) ==
  /\ doc[p] # None /\ kept \subseteq {p}
  /\ LET given == IsActive(doc[p]) /\ Present(I)
     IN /\ given => Free # {}
        /\ tokens' = IF given
                     THEN [tokens EXCEPT ![CHOOSE i \in Free : TRUE] =
                             Token(p, Standing(doc[p]), t, I)]
                     ELSE tokens
  /\ Become(Listed(kept), kept, {})
  /\ UNCHANGED <<content, reviews, edits, proven>>

\* A token is dropped: half an hour has passed, too many are out, or the project is closed.
Expire(i) ==
  /\ tokens[i] # None
  /\ tokens' = [tokens EXCEPT ![i] = None]
  /\ outdated' = outdated \ {i}
  /\ UNCHANGED <<content, doc, reviews, edits, proven, stopped>>
\* The server restarts: the tokens were in memory, the documents are files.
Restart ==
  /\ tokens' = [i \in Ids |-> None]
  /\ outdated' = {}
  /\ UNCHANGED <<content, doc, reviews, edits, proven, stopped>>

\* ---- outcomes ----
Pending(i) == tokens[i] # None /\ tokens[i].receipt = None

\* Mutant: any review of the same instructions will do.
StandsForAnyReview(d, token) ==
  /\ d # None
  /\ Standing(d).status = "active"
  /\ Standing(d).review.of = token.review.of /\ Fingerprint(d) = token.review.of
\* The review the token was given under is the one that stands.
Stands(d, token) ==
  /\ d # None
  /\ Standing(d).status = "active"
  /\ Standing(d).review = token.review /\ Fingerprint(d) = token.review.of

\* The outcome is recorded: the procedure's standing is s from now on.  (Looking at it
\* once more finds nothing new: it is closed, or its review stood a moment ago.)
Recorded(i, s, kind) ==
  LET p == tokens[i].of
  IN /\ Become([doc EXCEPT ![p] = Saved(@, s)], {p}, {})
     /\ tokens' = [tokens EXCEPT ![i].receipt = kind]
     /\ UNCHANGED <<content, reviews, edits>>
\* It is refused: a request that looked at the procedure may leave a stop behind.
Refused(i, kept) ==
  /\ kept \subseteq {tokens[i].of}
  /\ Become(Listed(kept), kept, {})
  /\ UNCHANGED <<content, tokens, reviews, edits, proven>>

Failed(i, kept) ==
  /\ Pending(i)
  /\ LET p == tokens[i].of
         s == Standing(doc[p])
     IN IF Stands(doc[p], tokens[i])
        THEN /\ Recorded(i, [s EXCEPT !.status = "needs-review", !.completions = <<>>], "failed")
             /\ proven' = [proven EXCEPT ![p] = {}]
        ELSE Refused(i, kept)

\* What a success of the token i needs, besides its kind's own evidence.
Good(i) ==
  /\ Stands(doc[tokens[i].of], tokens[i])
  /\ IsActive(doc[tokens[i].of])
  /\ Matches(tokens[i].inputs)

Skipped(i, kept) ==
  /\ Pending(i)
  /\ IF Good(i) /\ tokens[i].decision = "skip" /\ Matches(tokens[i].outputs)
     THEN /\ Recorded(i, Standing(doc[tokens[i].of]), "skipped")
          /\ UNCHANGED proven
     ELSE Refused(i, kept)

LastOf(q) == SubSeq(q, (IF Len(q) > MaxCompletions THEN Len(q) - MaxCompletions ELSE 0) + 1, Len(q))
WithCompletion(s, c) ==
  LET others == { old \in Members(s.completions) : ~(old.task = c.task /\ old.inputs = c.inputs) }
  IN [s EXCEPT !.completions = LastOf(Append(Kept(@, others), c))]
Completed(i, O, kept) ==
  /\ Pending(i)
  /\ LET token == tokens[i]
         c == [task |-> token.task, of |-> token.review.of, inputs |-> token.inputs,
               outputs |-> Snapshot(O)]
     IN IF Good(i) /\ token.decision = "run" /\ Present(O)
        THEN /\ Recorded(i, WithCompletion(Standing(doc[token.of]), c), "completed")
             /\ proven' = [proven EXCEPT ![token.of] = @ \cup {c}]
        ELSE Refused(i, kept)

\* ---- what changes without the server ----
EditFile(f, c) ==
  /\ edits < MaxEdits /\ content[f] # c
  /\ content' = [content EXCEPT ![f] = c]
  /\ edits' = edits + 1
  /\ UNCHANGED <<doc, tokens, reviews, history>>
EditDocument(p, d) ==
  /\ edits < MaxEdits
  /\ doc[p] # None /\ doc[p] # d
  /\ doc' = [doc EXCEPT ![p] = d]
  /\ edits' = edits + 1
  /\ UNCHANGED <<content, tokens, reviews, history>>

Next ==
  \/ Restart
  \/ \E kept \in SUBSET Existing :
       \/ Look(kept)
       \/ \E p \in Procedures : Mine(p, kept)
       \/ \E p \in InUse :
            \/ Delete(p, kept)
            \/ \E q \in Procedures : Supersede(p, q, kept)
            \/ \E t \in Tasks, I \in InputSets : Assess(p, t, I, kept)
       \/ \E i \in Ids :
            \/ Failed(i, kept) \/ Skipped(i, kept)
            \/ \E O \in OutputSets : Completed(i, O, kept)
  \/ \E p \in Procedures, F \in EvidenceSets : Review(p, doc[p].body, F)
  \/ \E p \in InUse :
       \/ Retire(p) \/ RequestReview(p)
       \/ \E b \in Bodies, F \in EvidenceSets : Review(p, b, F)
       \/ \E b \in Bodies : EditDocument(p, [doc[p] EXCEPT !.body = b])
       \/ \E v \in ByHand : EditDocument(p, [doc[p] EXCEPT !.visible = v])
  \/ \E i \in Ids : Expire(i)
  \/ \E f \in Files, c \in Contents \cup {Missing} : EditFile(f, c)

Spec == Init /\ [][Next]_vars

\* ---- properties ----
\* A task is skipped only while somebody's confirmed run of the same instructions on the same
\* inputs still stands in the project, outputs and all, and no failure or review request has
\* come since: when an assessment says so, and again when the skip is recorded.
SkipsAreProven ==
  [][\A i \in Ids :
       LET token == tokens'[i]
           given == tokens[i] = None /\ token # None /\ token.decision = "skip"
           used == tokens[i] # None /\ tokens[i].receipt = None /\ token # None
                   /\ token.receipt = "skipped"
       IN given \/ used =>
            \E c \in proven[token.of] :
              /\ c.task = token.task /\ c.of = Fingerprint(doc[token.of])
              /\ c.inputs = token.inputs /\ Matches(c.inputs) /\ Matches(c.outputs)]_vars

\* An outcome counts only for the review it was assessed under: whatever closed the procedure
\* meanwhile, approving it again does not bring the old assessments back.
OutcomesBelongToTheirReview ==
  [][\A i \in Ids :
       tokens[i] # None /\ tokens'[i] # None /\ tokens'[i].receipt # tokens[i].receipt
         => i \notin outdated]_vars

\* A procedure whose stop the server has seen and not failed to write down stays closed until
\* a review: no edit of its status line or its instructions and no file that is put back
\* revives it.  (The stored record itself is the server's: nobody edits it here.  A stop that
\* was seen while the write failed can be undone, whatever the comment at
\* autoGoalLifecycle.ts:255 says.)
StoppedStaysStopped ==
  \A p \in stopped : Standing(doc[p]).status # "active"
=============================================================================
