------------------------ MODULE AutoGoalLifecycleProofs ------------------------
(***************************************************************************)
(* The properties of AutoGoalLifecycle for any number of procedures,       *)
(* files, assessments, reviews and edits, and whichever writes fail: what  *)
(* was seen closed and written down stays closed until a review, an        *)
(* outcome counts only for the review it was assessed under, and a task is *)
(* skipped only on a completion that was reported, stands and was not      *)
(* revoked.                                                                *)
(*                                                                         *)
(* None is inductive by itself, because a status that is edited by hand    *)
(* comes and goes.  The invariant is about what is stored: a procedure     *)
(* whose stop was seen, and written down, is stored as closed (Shut), and  *)
(* an assessment that is outdated no longer meets its review (Alive), to   *)
(* which no later review is equal because every review has a time of its   *)
(* own.  ProvenOK adds that what is stored, and what an assessment rests   *)
(* on, was reported.                                                       *)
(***************************************************************************)
EXTENDS AutoGoalLifecycle, ListsProofs

\* ---- the invariant ----
IsStanding(s) == s = [status |-> s.status, review |-> s.review, completions |-> s.completions]
IsDocument(d) ==
  /\ d = [body |-> d.body, files |-> d.files, visible |-> d.visible, stored |-> d.stored]
  /\ d.stored # None => IsStanding(d.stored)
IsToken(t) ==
  t = [of |-> t.of, review |-> t.review, task |-> t.task, inputs |-> t.inputs,
       decision |-> t.decision, outputs |-> t.outputs, receipt |-> t.receipt]

\* A review of the past.
Past(r) == r.at \in Nat /\ r.at <= reviews
Shut(d) == d.stored = None \/ d.stored.status # "active"
Alive(d, t) == d # None /\ ~Shut(d) /\ d.stored.review = t.review

Shapes ==
  /\ doc = [p \in Procedures |-> doc[p]]
  /\ \A p \in Procedures : doc[p] # None => IsDocument(doc[p])
  /\ tokens = [i \in Ids |-> tokens[i]]
  /\ \A i \in Ids : tokens[i] # None => IsToken(tokens[i]) /\ tokens[i].of \in Procedures
  /\ reviews \in Nat
  /\ stopped \subseteq Procedures
ReviewsArePast ==
  /\ \A p \in Procedures :
       doc[p] # None /\ doc[p].stored # None /\ doc[p].stored.review # None => Past(doc[p].stored.review)
  /\ \A i \in Ids : tokens[i] # None => Past(tokens[i].review)
StoppedAreShut == \A p \in stopped : IsDocument(doc[p]) /\ Shut(doc[p])
OutdatedAreDead ==
  \A i \in outdated : i \in Ids /\ (tokens[i] # None => ~Alive(doc[tokens[i].of], tokens[i]))

GoalInv == Shapes /\ ReviewsArePast /\ StoppedAreShut /\ OutdatedAreDead

\* ---- what is derived from a document ----
LEMMA StandingFacts ==
  ASSUME NEW d, IsDocument(d)
  PROVE  /\ IsStanding(Standing(d))
         /\ Standing(d).review # None => d.stored # None /\ Standing(d).review = d.stored.review
         /\ Standing(d).status = "active" => ~Shut(d) /\ Standing(d) = d.stored
<1>1. CASE d.stored = None
  BY <1>1 DEF Standing, IsStanding, Shut
<1>2. CASE d.stored # None /\ d.visible \notin {d.stored.status, "active"}
  <2>1. Standing(d) = [d.stored EXCEPT !.status = d.visible, !.completions = <<>>]
    BY <1>2 DEF Standing
  <2>2. d.stored = [status |-> d.stored.status, review |-> d.stored.review,
                    completions |-> d.stored.completions]
    BY <1>2 DEF IsDocument, IsStanding
  <2>3. Standing(d) = [status |-> d.visible, review |-> d.stored.review, completions |-> <<>>]
    BY <2>1, <2>2
  <2> QED
    BY <1>2, <2>3 DEF IsStanding
<1>3. CASE d.stored # None /\ d.visible \in {d.stored.status, "active"}
  BY <1>3 DEF Standing, IsDocument, Shut
<1> QED
  BY <1>1, <1>2, <1>3

LEMMA SavedFacts ==
  ASSUME NEW d, NEW s, IsDocument(d), IsStanding(s)
  PROVE  /\ Saved(d, s) = [body |-> d.body, files |-> d.files, visible |-> s.status, stored |-> s]
         /\ IsDocument(Saved(d, s))
<1>1. d = [body |-> d.body, files |-> d.files, visible |-> d.visible, stored |-> d.stored]
  BY DEF IsDocument
<1>2. Saved(d, s) = [d EXCEPT !.stored = s, !.visible = s.status]
  BY DEF Saved
<1>3. Saved(d, s) = [body |-> d.body, files |-> d.files, visible |-> s.status, stored |-> s]
  BY <1>1, <1>2
<1> QED
  BY <1>3 DEF IsDocument

LEMMA Demoted ==
  ASSUME NEW s, NEW status, IsStanding(s)
  PROVE  LET t == [s EXCEPT !.status = status]
         IN /\ IsStanding(t) /\ t.status = status
            /\ t.review = s.review /\ t.completions = s.completions
<1>1. s = [status |-> s.status, review |-> s.review, completions |-> s.completions]
  BY DEF IsStanding
<1>2. [s EXCEPT !.status = status]
        = [status |-> status, review |-> s.review, completions |-> s.completions]
  BY <1>1
<1> QED
  BY <1>2 DEF IsStanding

\* Looking at a document writes down its stop, and opens nothing.
LEMMA ObservedFacts ==
  ASSUME NEW d, IsDocument(d)
  PROVE  /\ IsDocument(Observed(d))
         /\ Shut(d) => Shut(Observed(d))
         /\ Observed(d).stored # None /\ Observed(d).stored.review # None
              => d.stored # None /\ Observed(d).stored.review = d.stored.review
         /\ ~Shut(Observed(d)) => Observed(d) = d
         /\ Standing(Observed(d)).status # "active" => Shut(Observed(d))
         /\ Standing(Observed(d)).status = "active"
              => Observed(d) = d /\ ~Shut(d) /\ Standing(d) = d.stored /\ d.stored.review # None
<1> DEFINE s == Standing(d)
           r == [s EXCEPT !.status = "needs-review"]
<1>0. IsStanding(s) /\ (s.review # None => d.stored # None /\ s.review = d.stored.review)
      /\ (s.status = "active" => ~Shut(d) /\ s = d.stored)
  BY StandingFacts
<1>1. CASE s.status = "active" /\ Stale(d, s)
  <2>1. Observed(d) = Saved(d, r)
    BY <1>1 DEF Observed
  <2>2. IsStanding(r) /\ r.status = "needs-review" /\ r.review = s.review
    BY <1>0, Demoted
  <2> HIDE DEF r
  <2>3. Observed(d).stored = r /\ Observed(d).visible = "needs-review" /\ IsDocument(Observed(d))
    BY <2>1, <2>2, SavedFacts
  <2>4. Shut(Observed(d))
    BY <2>2, <2>3 DEF Shut
  <2>5. Standing(Observed(d)).status # "active"
    BY <2>3, <2>4, StandingFacts
  <2> QED
    BY <1>0, <2>2, <2>3, <2>4, <2>5
<1>2. CASE ~(s.status = "active" /\ Stale(d, s)) /\ d.stored # None /\ d.stored.status # s.status
  <2>1. Observed(d) = Saved(d, s)
    BY <1>2 DEF Observed
  <2>2. s.status # "active"
    BY <1>0, <1>2
  <2>3. Observed(d).stored = s /\ IsDocument(Observed(d))
    BY <1>0, <2>1, SavedFacts
  <2>4. Shut(Observed(d))
    BY <2>2, <2>3 DEF Shut
  <2>5. Standing(Observed(d)).status # "active"
    BY <2>3, <2>4, StandingFacts
  <2> QED
    BY <1>0, <2>3, <2>4, <2>5
<1>3. CASE ~(s.status = "active" /\ Stale(d, s)) /\ (d.stored = None \/ d.stored.status = s.status)
  <2>1. Observed(d) = d
    BY <1>3 DEF Observed
  <2>2. s.status = "active" => s.review # None
    BY <1>3 DEF Stale
  <2>3. s.status # "active" => Shut(d)
    BY <1>3 DEF Shut
  <2> QED
    BY <1>0, <2>1, <2>2, <2>3
<1> QED
  BY <1>1, <1>2, <1>3

\* ---- what a handler may do to the documents ----
\* It shuts a document, keeps its review, or approves it now.
Reviewed(e) == ~Shut(e) /\ e.stored.review.at = reviews + 1
Handled(d, e, isSeen, isApproved) ==
  /\ e # None => IsDocument(e)
  /\ e # None /\ e.stored # None /\ e.stored.review # None =>
       \/ Reviewed(e) /\ isApproved /\ reviews' = reviews + 1
       \/ d # None /\ d.stored # None /\ e.stored.review = d.stored.review
  /\ e # None /\ ~Shut(e) => 
       \/ Reviewed(e) /\ isApproved
       \/ d # None /\ ~Shut(d) /\ e.stored.review = d.stored.review
  /\ e # None /\ isSeen /\ ~isApproved /\ Standing(e).status # "active" => Shut(e)

LEMMA BecomeKeepsInv ==
  ASSUME GoalInv,
         NEW new, NEW seen \in SUBSET Procedures, NEW approved,
         Become(new, seen, approved),
         new = [p \in Procedures |-> new[p]],
         \A p \in Procedures : Handled(doc[p], new[p], p \in seen, p \in approved),
         reviews' \in {reviews, reviews + 1}
  PROVE  /\ doc' = [p \in Procedures |-> doc'[p]]
         /\ \A p \in Procedures : doc'[p] # None => IsDocument(doc'[p])
         /\ stopped' \subseteq Procedures
         /\ \A p \in Procedures :
              doc'[p] # None /\ doc'[p].stored # None /\ doc'[p].stored.review # None
                => doc'[p].stored.review.at \in Nat /\ doc'[p].stored.review.at <= reviews'
         /\ StoppedAreShut'
         /\ \A i \in outdated' :
              i \in Ids /\ tokens[i] # None /\ ~Alive(doc'[tokens[i].of], tokens[i])
<1>1. doc' = new
  BY DEF Become
<1>2. stopped' \subseteq Procedures
  BY DEF Become, GoalInv, Shapes
<1>3. ASSUME NEW p \in Procedures, new[p] # None, new[p].stored # None, new[p].stored.review # None
      PROVE  new[p].stored.review.at \in Nat /\ new[p].stored.review.at <= reviews'
  <2>1. reviews \in Nat
    BY DEF GoalInv, Shapes
  <2>2. CASE new[p].stored.review.at = reviews + 1 /\ reviews' = reviews + 1
    BY <2>1, <2>2
  <2>3. CASE doc[p] # None /\ doc[p].stored # None /\ new[p].stored.review = doc[p].stored.review
    BY <1>3, <2>1, <2>3 DEF GoalInv, ReviewsArePast, Past
  <2> QED
    BY <1>3, <2>2, <2>3 DEF Handled, Reviewed
<1>4. StoppedAreShut'
  <2> SUFFICES ASSUME NEW p \in stopped'
               PROVE  IsDocument(new[p]) /\ Shut(new[p])
    BY <1>1 DEF StoppedAreShut, Shut, IsDocument
  <2>1. p \in Procedures /\ new[p] # None /\ p \notin approved /\ IsDocument(new[p])
    BY <1>2 DEF Become, Handled
  <2>2. CASE p \in stopped
    BY <2>1, <2>2 DEF GoalInv, StoppedAreShut, Handled
  <2>3. CASE p \in seen \ stopped
    <3>1. Standing(new[p]).status # "active"
      BY <2>1, <2>3 DEF Become
    <3> QED
      BY <2>1, <2>3, <3>1 DEF Handled
  <2> QED
    BY <2>2, <2>3 DEF Become
<1>5. ASSUME NEW i \in outdated'
      PROVE  i \in Ids /\ tokens[i] # None /\ ~Alive(new[tokens[i].of], tokens[i])
  <2>1. i \in Ids /\ tokens[i] # None
    BY DEF Become
  <2> DEFINE p == tokens[i].of
             t == tokens[i]
  <2>2. p \in Procedures /\ t.review.at \in Nat /\ t.review.at <= reviews /\ reviews \in Nat
    BY <2>1 DEF GoalInv, Shapes, ReviewsArePast, Past
  <2>3. i \in outdated \/ ~SameStanding(doc[p], new[p])
    BY DEF Become
  <2>4. i \in outdated => ~Alive(doc[p], t)
    BY <2>1 DEF GoalInv, OutdatedAreDead
  <2> SUFFICES ASSUME new[p] # None, ~Shut(new[p]), new[p].stored.review = t.review
               PROVE  FALSE
    BY <2>1 DEF Alive
  <2>5. ~Reviewed(new[p])
    <3> HIDE DEF p, t
    <3> QED
      BY <2>2 DEF Reviewed
  <2>6. doc[p] # None /\ ~Shut(doc[p]) /\ new[p].stored.review = doc[p].stored.review
    BY <2>2, <2>5 DEF Handled
  <2>7. Alive(doc[p], t)
    BY <2>6 DEF Alive
  <2>8. SameStanding(doc[p], new[p])
    BY <2>6 DEF SameStanding, Shut
  <2> QED
    BY <2>3, <2>4, <2>7, <2>8
<1>6. doc' = [p \in Procedures |-> doc'[p]]
  BY <1>1
<1>7. \A p \in Procedures : doc'[p] # None => IsDocument(doc'[p])
  BY <1>1 DEF Handled
<1>8. \A p \in Procedures :
        doc'[p] # None /\ doc'[p].stored # None /\ doc'[p].stored.review # None
          => doc'[p].stored.review.at \in Nat /\ doc'[p].stored.review.at <= reviews'
  BY <1>1, <1>3
<1>9. \A i \in outdated' :
        i \in Ids /\ tokens[i] # None /\ ~Alive(doc'[tokens[i].of], tokens[i])
  BY <1>1, <1>5
<1> QED
  BY <1>2, <1>4, <1>6, <1>7, <1>8, <1>9

\* With nothing handed out or reported, that is all there is to an action.
LEMMA DocumentsOnly ==
  ASSUME GoalInv,
         NEW new, NEW seen \in SUBSET Procedures, NEW approved,
         Become(new, seen, approved),
         new = [p \in Procedures |-> new[p]],
         \A p \in Procedures : Handled(doc[p], new[p], p \in seen, p \in approved),
         reviews' \in {reviews, reviews + 1},
         tokens' = tokens
  PROVE  GoalInv'
<1>1. reviews \in Nat /\ reviews' \in Nat /\ reviews <= reviews'
  BY DEF GoalInv, Shapes
<1>2. Shapes'
  BY <1>1, BecomeKeepsInv DEF GoalInv, Shapes
<1>3. ReviewsArePast'
  <2>1. \A i \in Ids : tokens[i] # None => tokens[i].review.at \in Nat /\ tokens[i].review.at <= reviews'
    BY <1>1 DEF GoalInv, ReviewsArePast, Past
  <2> QED
    BY <2>1, BecomeKeepsInv DEF ReviewsArePast, Past
<1>4. StoppedAreShut'
  BY BecomeKeepsInv
<1>5. OutdatedAreDead'
  BY BecomeKeepsInv DEF OutdatedAreDead
<1> QED
  BY <1>2, <1>3, <1>4, <1>5 DEF GoalInv

\* ---- what each handler makes of a document ----
LEMMA ObservedIsHandled ==
  ASSUME NEW d, IsDocument(d), d # None
  PROVE  /\ Handled(d, Observed(d), TRUE, FALSE)
         /\ Handled(d, Observed(d), FALSE, FALSE)
BY ObservedFacts DEF Handled

LEMMA ClosedIsHandled ==
  ASSUME NEW d, IsDocument(d), d # None, NEW s, IsStanding(s),
         s.status # "active", s.review = Standing(d).review
  PROVE  Handled(d, Saved(d, s), TRUE, FALSE)
<1>1. IsDocument(Saved(d, s)) /\ Saved(d, s).stored = s
  BY SavedFacts
<1>2. Shut(Saved(d, s))
  BY <1>1 DEF Shut
<1> QED
  BY <1>1, <1>2, StandingFacts DEF Handled

LEMMA ApprovedFacts ==
  ASSUME NEW d, IsDocument(d), NEW b, NEW F
  PROVE  LET e == Approved(d, b, F)
         IN /\ IsDocument(e) /\ IsStanding(e.stored)
            /\ e.stored.status = "active" /\ e.stored.review.at = reviews + 1
            /\ e.stored.completions = Standing(d).completions
<1> DEFINE draft == [d EXCEPT !.body = b, !.files = F]
           review == [of |-> Fingerprint(draft), files |-> Snapshot(F), at |-> reviews + 1]
           old == Standing(d)
           s == [old EXCEPT !.status = "active", !.review = review]
<1>1. /\ Approved(d, b, F) = Saved(draft, s)
      /\ draft = [d EXCEPT !.body = b, !.files = F]
      /\ s = [old EXCEPT !.status = "active", !.review = review]
      /\ review.at = reviews + 1
  BY DEF Approved
<1>2. d = [body |-> d.body, files |-> d.files, visible |-> d.visible, stored |-> d.stored]
  BY DEF IsDocument
<1>3. old = [status |-> old.status, review |-> old.review, completions |-> old.completions]
      /\ IsStanding(old)
  BY StandingFacts DEF IsStanding
<1>4. d.stored # None => IsStanding(d.stored)
  BY DEF IsDocument
<1> HIDE DEF draft, s, review
<1>5. draft = [body |-> b, files |-> F, visible |-> d.visible, stored |-> d.stored]
  BY <1>1, <1>2
<1>6. IsDocument(draft)
  BY <1>4, <1>5 DEF IsDocument
<1>7. s = [status |-> "active", review |-> review, completions |-> old.completions]
  <2> HIDE DEF old
  <2> QED
    BY <1>1, <1>3
<1>8. IsStanding(s) /\ s.status = "active" /\ s.review = review /\ s.completions = old.completions
  BY <1>7 DEF IsStanding
<1>9. IsDocument(Approved(d, b, F)) /\ Approved(d, b, F).stored = s
  BY <1>1, <1>6, <1>8, SavedFacts
<1> QED
  BY <1>1, <1>8, <1>9

LEMMA ApprovedIsHandled ==
  ASSUME NEW d, IsDocument(d), NEW b, NEW F, reviews' = reviews + 1
  PROVE  Handled(d, Approved(d, b, F), TRUE, TRUE)
<1> DEFINE e == Approved(d, b, F)
<1>1. IsDocument(e) /\ e.stored.status = "active" /\ e.stored.review.at = reviews + 1
  BY ApprovedFacts
<1> HIDE DEF e
<1> QED
  BY <1>1 DEF Handled, Shut, Reviewed, e

\* ---- what becomes of all the documents ----
LEMMA OneDocument ==
  ASSUME GoalInv, NEW p \in Procedures, NEW e, NEW isApproved \in BOOLEAN,
         Handled(doc[p], e, TRUE, isApproved)
  PROVE  LET new == [doc EXCEPT ![p] = e]
         IN /\ new = [q \in Procedures |-> new[q]]
            /\ new[p] = e
            /\ \A q \in Procedures : q # p => new[q] = doc[q]
            /\ \A q \in Procedures :
                 Handled(doc[q], new[q], q \in {p}, q \in IF isApproved THEN {p} ELSE {})
<1> DEFINE new == [doc EXCEPT ![p] = e]
<1>1. doc = [q \in Procedures |-> doc[q]] /\ \A q \in Procedures : doc[q] # None => IsDocument(doc[q])
  BY DEF GoalInv, Shapes
<1>2. new = [q \in Procedures |-> IF q = p THEN e ELSE doc[q]]
  BY <1>1
<1> HIDE DEF new
<1>3. \A q \in Procedures : Handled(doc[q], new[q], q \in {p}, q \in IF isApproved THEN {p} ELSE {})
  <2> SUFFICES ASSUME NEW q \in Procedures
               PROVE  Handled(doc[q], new[q], q \in {p}, q \in IF isApproved THEN {p} ELSE {})
    OBVIOUS
  <2>1. CASE q = p
    BY <1>2, <2>1 DEF Handled
  <2>2. CASE q # p
    BY <1>1, <1>2, <2>2 DEF Handled
  <2> QED
    BY <2>1, <2>2
<1> QED
  BY <1>2, <1>3 DEF new

LEMMA ListedIsHandled ==
  ASSUME GoalInv, NEW kept \in SUBSET Existing, NEW p \in Procedures
  PROVE  Handled(doc[p], Listed(kept)[p], p \in kept, FALSE)
<1>1. CASE p \notin kept
  <2>1. Listed(kept)[p] = doc[p] /\ (doc[p] # None => IsDocument(doc[p]))
    BY <1>1 DEF Listed, GoalInv, Shapes
  <2> QED
    BY <1>1, <2>1 DEF Handled
<1>2. CASE p \in kept
  <2>1. Listed(kept)[p] = Observed(doc[p]) /\ doc[p] # None /\ IsDocument(doc[p])
    BY <1>2 DEF Listed, Existing, GoalInv, Shapes
  <2> QED
    BY <1>2, <2>1, ObservedIsHandled DEF Handled
<1> QED
  BY <1>1, <1>2

\* Listing the documents and replacing one by e, which is none or a new one.
LEMMA ListKeepsInv ==
  ASSUME GoalInv, NEW kept \in SUBSET Existing, NEW p \in Procedures, NEW e,
         e = None \/ (doc[p] = None /\ e = NewDocument),
         Become([Listed(kept) EXCEPT ![p] = e], kept, {}),
         reviews' = reviews, tokens' = tokens
  PROVE  GoalInv'
<1> DEFINE new == [Listed(kept) EXCEPT ![p] = e]
<1>1. new = [q \in Procedures |-> IF q = p THEN e ELSE Listed(kept)[q]]
  BY DEF Listed
<1>2. Handled(doc[p], e, p \in kept, FALSE)
  <2>1. CASE e = None
    BY <2>1 DEF Handled
  <2>2. CASE doc[p] = None /\ e = NewDocument
    <3>1. IsDocument(e) /\ e.stored = None
      BY <2>2 DEF NewDocument, IsDocument
    <3> QED
      BY <2>2, <3>1 DEF Handled, Shut, Existing
  <2> QED
    BY <2>1, <2>2
<1> HIDE DEF new
<1>3. \A q \in Procedures : Handled(doc[q], new[q], q \in kept, q \in {})
  <2> SUFFICES ASSUME NEW q \in Procedures
               PROVE  Handled(doc[q], new[q], q \in kept, FALSE)
    BY DEF Handled
  <2> QED
    BY <1>1, <1>2, ListedIsHandled
<1>4. Become(new, kept, {}) /\ kept \in SUBSET Procedures
  BY DEF new, Existing
<1>5. new = [q \in Procedures |-> new[q]]
  BY <1>1
<1> QED
  BY <1>3, <1>4, <1>5, DocumentsOnly

\* Whether what was seen is written down or not, for each of the documents.
LEMMA ListedFacts ==
  ASSUME GoalInv, NEW kept \in SUBSET Existing
  PROVE  /\ Listed(kept) = [q \in Procedures |-> Listed(kept)[q]]
         /\ kept \in SUBSET Procedures
         /\ \A q \in Procedures :
              Handled(doc[q], Listed(kept)[q], q \in kept, q \in {})
<1>1. \A q \in Procedures : Handled(doc[q], Listed(kept)[q], q \in kept, q \in {})
  BY ListedIsHandled DEF Handled
<1>2. kept \in SUBSET Procedures
  BY DEF Existing
<1>3. Listed(kept) = [q \in Procedures |-> Listed(kept)[q]]
  BY DEF Listed
<1> QED
  BY <1>1, <1>2, <1>3

LEMMA ObservingKeepsInv ==
  ASSUME GoalInv, NEW kept \in SUBSET Existing, Become(Listed(kept), kept, {}),
         tokens' = tokens, reviews' = reviews
  PROVE  GoalInv'
<1> DEFINE new == Listed(kept)
<1>1. /\ new = [q \in Procedures |-> new[q]] /\ kept \in SUBSET Procedures
      /\ \A q \in Procedures : Handled(doc[q], new[q], q \in kept, q \in {})
  BY ListedFacts
<1>2. Become(new, kept, {})
  OBVIOUS
<1> HIDE DEF new
<1> QED
  BY <1>1, <1>2, DocumentsOnly

LEMMA OneDocumentKeepsInv ==
  ASSUME GoalInv, NEW p \in Procedures, NEW e, Handled(doc[p], e, TRUE, FALSE),
         Become([doc EXCEPT ![p] = e], {p}, {}),
         tokens' = tokens, reviews' = reviews
  PROVE  GoalInv'
<1> DEFINE new == [doc EXCEPT ![p] = e]
<1>1. /\ new = [q \in Procedures |-> new[q]]
      /\ \A q \in Procedures : Handled(doc[q], new[q], q \in {p}, q \in {})
  BY OneDocument
<1>2. Become(new, {p}, {})
  OBVIOUS
<1> HIDE DEF new
<1> QED
  BY <1>1, <1>2, DocumentsOnly

\* A closing standing: the old one with a status that is not active.
LEMMA ClosingKeepsInv ==
  ASSUME GoalInv, NEW p \in Procedures, doc[p] # None, NEW s, IsStanding(s),
         s.status # "active", s.review = Standing(doc[p]).review,
         Become([doc EXCEPT ![p] = Saved(doc[p], s)], {p}, {}),
         tokens' = tokens, reviews' = reviews
  PROVE  GoalInv'
<1>1. IsDocument(doc[p])
  BY DEF GoalInv, Shapes
<1>2. Handled(doc[p], Saved(doc[p], s), TRUE, FALSE)
  BY <1>1, ClosedIsHandled
<1> QED
  BY <1>2, OneDocumentKeepsInv

\* ---- the actions ----
LEMMA ReviewKeepsInv ==
  ASSUME GoalInv, NEW p \in Procedures, NEW b, NEW F, Review(p, b, F)
  PROVE  GoalInv'
<1> DEFINE e == Approved(doc[p], b, F)
           new == [doc EXCEPT ![p] = e]
<1>1. doc[p] # None /\ IsDocument(doc[p]) /\ reviews \in Nat /\ reviews' = reviews + 1
      /\ tokens' = tokens
  BY DEF Review, GoalInv, Shapes
<1>2. Become(new, {p}, {p})
  BY DEF Review
<1>3. Handled(doc[p], e, TRUE, TRUE)
  BY <1>1, ApprovedIsHandled
<1>4. /\ new = [q \in Procedures |-> new[q]]
      /\ \A q \in Procedures : Handled(doc[q], new[q], q \in {p}, q \in {p})
  BY <1>3, OneDocument
<1> HIDE DEF new, e
<1> QED
  BY <1>1, <1>2, <1>4, DocumentsOnly

LEMMA SupersedeKeepsInv ==
  ASSUME GoalInv, NEW p \in Procedures, NEW q \in Procedures, NEW kept \in SUBSET Existing,
         Supersede(p, q, kept)
  PROVE  GoalInv'
<1>1. /\ p # q /\ doc[p] # None /\ doc[q] # None /\ tokens' = tokens /\ reviews' = reviews
      /\ IsDocument(doc[p]) /\ IsDocument(doc[q])
  BY DEF Supersede, GoalInv, Shapes
<1>2. CASE IsActive(doc[q])
  <2> DEFINE s == [Standing(doc[p]) EXCEPT !.status = "superseded"]
             e == Saved(doc[p], s)
             new == [doc EXCEPT ![p] = e]
  <2>1. Become(new, {p, q}, {})
    BY <1>2 DEF Supersede, Closed
  <2>2. IsStanding(s) /\ s.status = "superseded" /\ s.review = Standing(doc[p]).review
    BY <1>1, StandingFacts, Demoted
  <2>3. Handled(doc[p], e, TRUE, FALSE)
    <3> HIDE DEF s
    <3> QED
      BY <1>1, <2>2, ClosedIsHandled
  <2>4. /\ new = [r \in Procedures |-> new[r]]
        /\ new[q] = doc[q]
        /\ \A r \in Procedures : Handled(doc[r], new[r], r \in {p}, r \in {})
    BY <1>1, <2>3, OneDocument
  <2>5. Standing(doc[q]).status = "active"
    BY <1>1, <1>2, ObservedFacts DEF IsActive
  <2> HIDE DEF new
  <2>6. \A r \in Procedures : Handled(doc[r], new[r], r \in {p, q}, r \in {})
    BY <2>4, <2>5 DEF Handled
  <2> QED
    BY <1>1, <2>1, <2>4, <2>6, DocumentsOnly
<1>3. CASE ~IsActive(doc[q])
  <2>1. Become(Listed(kept), kept, {})
    BY <1>3 DEF Supersede
  <2> QED
    BY <1>1, <2>1, ObservingKeepsInv
<1> QED
  BY <1>2, <1>3

LEMMA RequestReviewKeepsInv ==
  ASSUME GoalInv, NEW p \in Procedures, RequestReview(p)
  PROVE  GoalInv'
<1> DEFINE old == Standing(doc[p])
           s == [old EXCEPT !.status = "needs-review", !.completions = <<>>]
<1>1. doc[p] # None /\ IsDocument(doc[p]) /\ tokens' = tokens /\ reviews' = reviews
  BY DEF RequestReview, GoalInv, Shapes
<1>2. Become([doc EXCEPT ![p] = Saved(doc[p], s)], {p}, {})
  BY DEF RequestReview
<1>3. old = [status |-> old.status, review |-> old.review, completions |-> old.completions]
  BY <1>1, StandingFacts DEF IsStanding
<1>4. s = [old EXCEPT !.status = "needs-review", !.completions = <<>>]
  OBVIOUS
<1>5. s.review = Standing(doc[p]).review /\ IsStanding(s) /\ s.status # "active"
  <2> HIDE DEF old, s
  <2>1. s = [status |-> "needs-review", review |-> old.review, completions |-> <<>>]
    BY <1>3, <1>4
  <2>2. s.review = old.review /\ IsStanding(s) /\ s.status # "active"
    BY <2>1 DEF IsStanding
  <2> QED
    BY <2>2 DEF old
<1> HIDE DEF s
<1> QED
  BY <1>1, <1>2, <1>5, ClosingKeepsInv

LEMMA RetireKeepsInv ==
  ASSUME GoalInv, NEW p \in Procedures, Retire(p)
  PROVE  GoalInv'
<1> DEFINE s == [Standing(doc[p]) EXCEPT !.status = "retired"]
<1>1. doc[p] # None /\ IsDocument(doc[p]) /\ tokens' = tokens /\ reviews' = reviews
  BY DEF Retire, GoalInv, Shapes
<1>2. Become([doc EXCEPT ![p] = Saved(doc[p], s)], {p}, {})
  BY DEF Retire, Closed
<1>3. IsStanding(s) /\ s.status = "retired" /\ s.review = Standing(doc[p]).review
  BY <1>1, StandingFacts, Demoted
<1> HIDE DEF s
<1> QED
  BY <1>1, <1>2, <1>3, ClosingKeepsInv

\* An assessment is given under the review that stands.
LEMMA AssessKeepsInv ==
  ASSUME GoalInv, NEW p \in Procedures, NEW t, NEW I, NEW kept \in SUBSET Existing,
         Assess(p, t, I, kept)
  PROVE  GoalInv'
<1> DEFINE new == Listed(kept)
           i == CHOOSE k \in Free : TRUE
           token == Token(p, Standing(doc[p]), t, I)
           given == IsActive(doc[p]) /\ Present(I)
<1>1. /\ doc[p] # None /\ IsDocument(doc[p]) /\ reviews' = reviews /\ reviews \in Nat
      /\ Become(new, kept, {})
      /\ given => Free # {}
      /\ tokens' = IF given THEN [tokens EXCEPT ![i] = token] ELSE tokens
  BY DEF Assess, GoalInv, Shapes
<1>2. CASE ~given
  BY <1>1, <1>2, ObservingKeepsInv
<1>3. CASE given
  <2>1. ~Shut(doc[p]) /\ Standing(doc[p]) = doc[p].stored /\ doc[p].stored.review # None
    BY <1>1, <1>3, ObservedFacts DEF IsActive
  <2>2. Past(doc[p].stored.review)
    BY <1>1, <2>1 DEF GoalInv, ReviewsArePast, Shut
  <2>3. IsToken(token) /\ token.of = p /\ Past(token.review)
    BY <2>1, <2>2 DEF Token, IsToken
  <2>4. i \in Ids /\ tokens[i] = None
    BY <1>1, <1>3 DEF Free
  <2>5. tokens' = [j \in Ids |-> IF j = i THEN token ELSE tokens[j]]
    <3>1. tokens = [j \in Ids |-> tokens[j]] /\ tokens' = [tokens EXCEPT ![i] = token]
      BY <1>1, <1>3 DEF GoalInv, Shapes
    <3> HIDE DEF i, token
    <3> QED
      BY <3>1
  <2>7. /\ new = [q \in Procedures |-> new[q]] /\ kept \in SUBSET Procedures
        /\ \A q \in Procedures : Handled(doc[q], new[q], q \in kept, q \in {})
    BY ListedFacts
  <2>8. i \notin outdated'
    BY <1>1, <2>4 DEF Become
  <2> HIDE DEF new, i, token, given
  <2>9. /\ doc' = [q \in Procedures |-> doc'[q]]
        /\ \A q \in Procedures : doc'[q] # None => IsDocument(doc'[q])
        /\ stopped' \subseteq Procedures
        /\ \A q \in Procedures :
             doc'[q] # None /\ doc'[q].stored # None /\ doc'[q].stored.review # None
               => doc'[q].stored.review.at \in Nat /\ doc'[q].stored.review.at <= reviews'
        /\ StoppedAreShut'
        /\ \A k \in outdated' :
             k \in Ids /\ tokens[k] # None /\ ~Alive(doc'[tokens[k].of], tokens[k])
    BY <1>1, <2>7, BecomeKeepsInv
  <2>10. Shapes'
    BY <1>1, <2>3, <2>5, <2>9 DEF GoalInv, Shapes
  <2>11. ReviewsArePast'
    <3>1. \A k \in Ids : tokens'[k] # None => Past(tokens'[k].review)
      BY <2>3, <2>5 DEF GoalInv, ReviewsArePast
    <3> QED
      BY <1>1, <2>9, <3>1 DEF ReviewsArePast, Past
  <2>12. OutdatedAreDead'
    BY <2>5, <2>8, <2>9 DEF OutdatedAreDead
  <2> QED
    BY <2>9, <2>10, <2>11, <2>12 DEF GoalInv
<1> QED
  BY <1>2, <1>3

\* An outcome keeps the review it was reported under.
LEMMA RecordedKeepsInv ==
  ASSUME GoalInv, NEW i \in Ids, tokens[i] # None, NEW s, NEW kind,
         Stands(doc[tokens[i].of], tokens[i]), IsStanding(s),
         s.review = Standing(doc[tokens[i].of]).review,
         Recorded(i, s, kind)
  PROVE  GoalInv'
<1> DEFINE p == tokens[i].of
           e == Saved(doc[p], s)
           new == [doc EXCEPT ![p] = e]
<1>1. /\ p \in Procedures /\ doc[p] # None /\ IsDocument(doc[p]) /\ reviews' = reviews /\ reviews \in Nat
      /\ Become(new, {p}, {})
      /\ tokens' = [tokens EXCEPT ![i].receipt = kind]
  BY DEF Recorded, Stands, GoalInv, Shapes
<1>2. ~Shut(doc[p]) /\ s.review = doc[p].stored.review
  BY <1>1, StandingFacts DEF Stands
<1>3. /\ IsDocument(e) /\ e.stored = s
      /\ e.visible = s.status
  BY <1>1, SavedFacts
<1>4. Handled(doc[p], e, TRUE, FALSE)
  <2> HIDE DEF e
  <2>0. Standing(e).status = "active" \/ Shut(e)
    BY <1>3 DEF Standing, Shut
  <2>1. /\ IsDocument(e)
        /\ e.stored # None /\ e.stored.review # None => e.stored.review = doc[p].stored.review
        /\ ~Shut(e) => e.stored.review = doc[p].stored.review
        /\ Standing(e).status # "active" => Shut(e)
    BY <1>2, <1>3, <2>0
  <2> QED
    BY <1>1, <1>2, <2>1 DEF Handled, Shut
<1>5. /\ new = [q \in Procedures |-> new[q]]
      /\ \A q \in Procedures : Handled(doc[q], new[q], q \in {p}, q \in {})
  BY <1>1, <1>4, OneDocument
<1>6. \A k \in Ids : k # i => tokens'[k] = tokens[k]
  BY <1>1 DEF GoalInv, Shapes
<1>7. tokens' = [k \in Ids |-> tokens'[k]] /\ tokens'[i] = [tokens[i] EXCEPT !.receipt = kind]
  <2>1. tokens = [k \in Ids |-> tokens[k]] /\ tokens' = [tokens EXCEPT ![i] = [tokens[i] EXCEPT !.receipt = kind]]
    BY <1>1 DEF GoalInv, Shapes
  <2> QED
    BY <2>1
<1>8. IsToken(tokens'[i]) /\ tokens'[i].of = tokens[i].of /\ tokens'[i].review = tokens[i].review
  <2> DEFINE t == tokens[i]
  <2>1. t = [of |-> t.of, review |-> t.review, task |-> t.task, inputs |-> t.inputs,
             decision |-> t.decision, outputs |-> t.outputs, receipt |-> t.receipt]
    BY DEF GoalInv, Shapes, IsToken
  <2> HIDE DEF t
  <2>2. [t EXCEPT !.receipt = kind]
          = [of |-> t.of, review |-> t.review, task |-> t.task, inputs |-> t.inputs,
             decision |-> t.decision, outputs |-> t.outputs, receipt |-> kind]
    BY <2>1
  <2> QED
    BY <1>7, <2>2 DEF t, IsToken
<1> HIDE DEF new, e
<1>9. /\ doc' = [q \in Procedures |-> doc'[q]]
      /\ \A q \in Procedures : doc'[q] # None => IsDocument(doc'[q])
      /\ stopped' \subseteq Procedures
      /\ \A q \in Procedures :
           doc'[q] # None /\ doc'[q].stored # None /\ doc'[q].stored.review # None
             => doc'[q].stored.review.at \in Nat /\ doc'[q].stored.review.at <= reviews'
      /\ StoppedAreShut'
      /\ \A k \in outdated' :
           k \in Ids /\ tokens[k] # None /\ ~Alive(doc'[tokens[k].of], tokens[k])
  BY <1>1, <1>5, BecomeKeepsInv
<1>10. Shapes'
  BY <1>1, <1>6, <1>7, <1>8, <1>9 DEF GoalInv, Shapes
<1>11. ReviewsArePast'
  <2>1. \A k \in Ids : tokens'[k] # None => Past(tokens'[k].review)
    BY <1>6, <1>8 DEF GoalInv, ReviewsArePast
  <2> QED
    BY <1>1, <1>9, <2>1 DEF ReviewsArePast, Past
<1>12. OutdatedAreDead'
  BY <1>6, <1>8, <1>9 DEF OutdatedAreDead, Alive
<1> QED
  BY <1>9, <1>10, <1>11, <1>12 DEF GoalInv

\* A success records a standing with the review it was reported under.
LEMMA SuccessKeepsInv ==
  ASSUME GoalInv, NEW i \in Ids, Pending(i), NEW s, NEW kind, Good(i), IsStanding(s),
         s.review = Standing(doc[tokens[i].of]).review, Recorded(i, s, kind)
  PROVE  GoalInv'
BY RecordedKeepsInv DEF Good, Pending

LEMMA RefusedKeepsInv ==
  ASSUME GoalInv, NEW i \in Ids, NEW kept \in SUBSET Existing, Refused(i, kept)
  PROVE  GoalInv'
BY ObservingKeepsInv DEF Refused

LEMMA FailedKeepsInv ==
  ASSUME GoalInv, NEW i \in Ids, NEW kept \in SUBSET Existing, Failed(i, kept)
  PROVE  GoalInv'
<1> DEFINE p == tokens[i].of
           old == Standing(doc[p])
           s == [old EXCEPT !.status = "needs-review", !.completions = <<>>]
<1>1. tokens[i] # None
  BY DEF Failed, Pending
<1>2. CASE Stands(doc[p], tokens[i])
  <2>1. Recorded(i, s, "failed")
    BY <1>2 DEF Failed
  <2>2. old = [status |-> old.status, review |-> old.review, completions |-> old.completions]
    BY <1>1, <1>2, StandingFacts DEF IsStanding, Stands, GoalInv, Shapes
  <2>3. s = [old EXCEPT !.status = "needs-review", !.completions = <<>>]
    OBVIOUS
  <2>4. IsStanding(s) /\ s.review = Standing(doc[p]).review
    <3> HIDE DEF old, s
    <3>1. s = [status |-> "needs-review", review |-> old.review, completions |-> <<>>]
      BY <2>2, <2>3
    <3>2. IsStanding(s) /\ s.review = old.review
      BY <3>1 DEF IsStanding
    <3> QED
      BY <3>2 DEF old
  <2> HIDE DEF s
  <2> QED
    BY <1>1, <1>2, <2>1, <2>4, RecordedKeepsInv
<1>3. CASE ~Stands(doc[p], tokens[i])
  <2>1. Refused(i, kept)
    BY <1>3 DEF Failed
  <2> QED
    BY <1>1, <2>1, RefusedKeepsInv
<1> QED
  BY <1>2, <1>3

LEMMA SkippedKeepsInv ==
  ASSUME GoalInv, NEW i \in Ids, NEW kept \in SUBSET Existing, Skipped(i, kept)
  PROVE  GoalInv'
<1>1. tokens[i] # None /\ Pending(i)
  BY DEF Skipped, Pending
<1> DEFINE s == Standing(doc[tokens[i].of])
<1>2. CASE Good(i) /\ Recorded(i, s, "skipped")
  <2>1. IsStanding(s)
    BY <1>1, <1>2, StandingFacts DEF Good, Stands, GoalInv, Shapes
  <2> QED
    BY <1>1, <1>2, <2>1, SuccessKeepsInv
<1>3. CASE Refused(i, kept)
  BY <1>1, <1>3, RefusedKeepsInv
<1> QED
  BY <1>2, <1>3 DEF Skipped

LEMMA CompletedKeepsInv ==
  ASSUME GoalInv, NEW i \in Ids, NEW O, NEW kept \in SUBSET Existing, Completed(i, O, kept)
  PROVE  GoalInv'
<1>1. tokens[i] # None /\ Pending(i)
  BY DEF Completed, Pending
<1> DEFINE token == tokens[i]
           old == Standing(doc[token.of])
           c == [task |-> token.task, of |-> token.review.of, inputs |-> token.inputs,
                 outputs |-> Snapshot(O)]
           s == WithCompletion(old, c)
<1>2. CASE Good(i) /\ Recorded(i, s, "completed")
  <2>1. IsStanding(old)
    BY <1>1, <1>2, StandingFacts DEF Good, Stands, GoalInv, Shapes
  <2>2. IsStanding(s) /\ s.review = old.review
    <3> HIDE DEF old, c
    <3>1. PICK q : s = [old EXCEPT !.completions = q]
      BY DEF WithCompletion
    <3>2. old = [status |-> old.status, review |-> old.review, completions |-> old.completions]
      BY <2>1 DEF IsStanding
    <3> HIDE DEF s
    <3>3. s = [status |-> old.status, review |-> old.review, completions |-> q]
      BY <3>1, <3>2
    <3> QED
      BY <3>3 DEF IsStanding
  <2> HIDE DEF s
  <2> QED
    BY <1>1, <1>2, <2>2, SuccessKeepsInv
<1>3. CASE Refused(i, kept)
  BY <1>1, <1>3, RefusedKeepsInv
<1>4. (Good(i) /\ Recorded(i, s, "completed")) \/ Refused(i, kept)
  BY DEF Completed
<1> QED
  BY <1>2, <1>3, <1>4

LEMMA LookKeepsInv ==
  ASSUME GoalInv, NEW kept \in SUBSET Existing, Look(kept)
  PROVE  GoalInv'
BY ObservingKeepsInv DEF Look

LEMMA MineKeepsInv ==
  ASSUME GoalInv, NEW p \in Procedures, NEW kept \in SUBSET Existing, Mine(p, kept)
  PROVE  GoalInv'
<1>1. /\ doc[p] = None /\ tokens' = tokens /\ reviews' = reviews
      /\ Become([Listed(kept) EXCEPT ![p] = NewDocument], kept, {})
  BY DEF Mine
<1> QED
  BY <1>1, ListKeepsInv

LEMMA DeleteKeepsInv ==
  ASSUME GoalInv, NEW p \in Procedures, NEW kept \in SUBSET Existing, Delete(p, kept)
  PROVE  GoalInv'
<1>1. /\ tokens' = tokens /\ reviews' = reviews
      /\ Become([Listed(kept) EXCEPT ![p] = None], kept, {})
  BY DEF Delete
<1> QED
  BY <1>1, ListKeepsInv

LEMMA ExpireKeepsInv ==
  ASSUME GoalInv, NEW i \in Ids, Expire(i)
  PROVE  GoalInv'
<1>1. /\ doc' = doc /\ reviews' = reviews /\ stopped' = stopped /\ outdated' = outdated \ {i}
      /\ tokens' = [tokens EXCEPT ![i] = None]
  BY DEF Expire
<1>2. tokens' = [k \in Ids |-> IF k = i THEN None ELSE tokens[k]]
  BY <1>1 DEF GoalInv, Shapes
<1>3. Shapes'
  BY <1>1, <1>2 DEF GoalInv, Shapes
<1>4. ReviewsArePast'
  BY <1>1, <1>2 DEF GoalInv, ReviewsArePast, Past
<1>5. StoppedAreShut'
  BY <1>1 DEF GoalInv, StoppedAreShut
<1>6. OutdatedAreDead'
  BY <1>1, <1>2 DEF GoalInv, OutdatedAreDead
<1> QED
  BY <1>3, <1>4, <1>5, <1>6 DEF GoalInv

LEMMA RestartKeepsInv ==
  ASSUME GoalInv, Restart
  PROVE  GoalInv'
<1>1. /\ doc' = doc /\ reviews' = reviews /\ stopped' = stopped /\ outdated' = {}
      /\ tokens' = [i \in Ids |-> None]
  BY DEF Restart
<1>2. Shapes'
  BY <1>1 DEF GoalInv, Shapes
<1>3. ReviewsArePast'
  BY <1>1 DEF GoalInv, ReviewsArePast, Past
<1>4. StoppedAreShut'
  BY <1>1 DEF GoalInv, StoppedAreShut
<1>5. OutdatedAreDead'
  BY <1>1 DEF OutdatedAreDead
<1> QED
  BY <1>2, <1>3, <1>4, <1>5 DEF GoalInv

\* An edit by hand leaves what is stored.
LEMMA EditDocumentKeepsInv ==
  ASSUME GoalInv, NEW p \in Procedures, NEW d, EditDocument(p, d),
         IsDocument(d), d.stored = doc[p].stored
  PROVE  GoalInv'
<1>1. /\ doc[p] # None /\ tokens' = tokens /\ reviews' = reviews /\ stopped' = stopped
      /\ outdated' = outdated /\ doc' = [doc EXCEPT ![p] = d]
  BY DEF EditDocument, history
<1>2. doc' = [q \in Procedures |-> IF q = p THEN d ELSE doc[q]]
  BY <1>1 DEF GoalInv, Shapes
<1>3. Shapes'
  BY <1>1, <1>2 DEF GoalInv, Shapes
<1>4. ReviewsArePast'
  BY <1>1, <1>2 DEF GoalInv, ReviewsArePast, Past
<1>5. StoppedAreShut'
  BY <1>1, <1>2 DEF GoalInv, Shapes, StoppedAreShut, Shut
<1>6. OutdatedAreDead'
  <2> SUFFICES ASSUME NEW i \in outdated, tokens[i] # None
               PROVE  i \in Ids /\ ~Alive(doc'[tokens[i].of], tokens[i])
    BY <1>1 DEF GoalInv, OutdatedAreDead
  <2>1. i \in Ids /\ tokens[i].of \in Procedures /\ ~Alive(doc[tokens[i].of], tokens[i])
    BY DEF GoalInv, Shapes, OutdatedAreDead
  <2> QED
    BY <1>1, <1>2, <2>1 DEF Alive, Shut
<1> QED
  BY <1>3, <1>4, <1>5, <1>6 DEF GoalInv

LEMMA EditsKeepInv ==
  ASSUME GoalInv, NEW p \in InUse,
         \/ \E b \in Bodies : EditDocument(p, [doc[p] EXCEPT !.body = b])
         \/ \E v \in ByHand : EditDocument(p, [doc[p] EXCEPT !.visible = v])
  PROVE  GoalInv'
<1> DEFINE d == doc[p]
<1>1. p \in Procedures
  BY GoalAssumption
<1>2. d # None /\ IsDocument(d)
  BY <1>1 DEF EditDocument, GoalInv, Shapes
<1>3. d = [body |-> d.body, files |-> d.files, visible |-> d.visible, stored |-> d.stored]
  BY <1>2 DEF IsDocument
<1>4. ASSUME NEW b \in Bodies, EditDocument(p, [d EXCEPT !.body = b])
      PROVE  GoalInv'
  <2> DEFINE e == [d EXCEPT !.body = b]
  <2>1. EditDocument(p, e)
    BY <1>4
  <2>2. IsDocument(e) /\ e.stored = doc[p].stored
    <3>1. e = [d EXCEPT !.body = b]
      OBVIOUS
    <3> HIDE DEF d, e
    <3>2. e = [body |-> b, files |-> d.files, visible |-> d.visible, stored |-> d.stored]
      BY <1>3, <3>1
    <3>3. IsDocument(e) /\ e.stored = d.stored
      BY <1>2, <3>2 DEF IsDocument
    <3> QED
      BY <3>3 DEF d
  <2> HIDE DEF e
  <2> QED
    BY <1>1, <2>1, <2>2, EditDocumentKeepsInv
<1>5. ASSUME NEW v \in ByHand, EditDocument(p, [d EXCEPT !.visible = v])
      PROVE  GoalInv'
  <2> DEFINE e == [d EXCEPT !.visible = v]
  <2>1. EditDocument(p, e)
    BY <1>5
  <2>2. IsDocument(e) /\ e.stored = doc[p].stored
    <3>1. e = [d EXCEPT !.visible = v]
      OBVIOUS
    <3> HIDE DEF d, e
    <3>2. e = [body |-> d.body, files |-> d.files, visible |-> v, stored |-> d.stored]
      BY <1>3, <3>1
    <3>3. IsDocument(e) /\ e.stored = d.stored
      BY <1>2, <3>2 DEF IsDocument
    <3> QED
      BY <3>3 DEF d
  <2> HIDE DEF e
  <2> QED
    BY <1>1, <2>1, <2>2, EditDocumentKeepsInv
<1> QED
  BY <1>4, <1>5

LEMMA NothingKeepsInv ==
  ASSUME GoalInv, UNCHANGED <<doc, tokens, reviews, history>>
  PROVE  GoalInv'
<1>1. Shapes'
  BY DEF GoalInv, Shapes, history
<1>2. ReviewsArePast'
  BY DEF GoalInv, ReviewsArePast, Past
<1>3. StoppedAreShut'
  BY DEF GoalInv, StoppedAreShut, history
<1>4. OutdatedAreDead'
  BY DEF GoalInv, OutdatedAreDead, history
<1> QED
  BY <1>1, <1>2, <1>3, <1>4 DEF GoalInv

\* ---- the theorems ----
LEMMA GoalInit == Init => GoalInv
BY DEF Init, GoalInv, Shapes, ReviewsArePast, StoppedAreShut, OutdatedAreDead

LEMMA GoalStep == GoalInv /\ [Next]_vars => GoalInv'
<1> SUFFICES ASSUME GoalInv, [Next]_vars
             PROVE  GoalInv'
  OBVIOUS
<1>0. InUse \subseteq Procedures
  BY GoalAssumption
<1>1. ASSUME NEW kept \in SUBSET Existing,
             \/ Look(kept)
             \/ \E p \in Procedures : Mine(p, kept)
             \/ \E p \in InUse :
                  \/ Delete(p, kept)
                  \/ \E q \in Procedures : Supersede(p, q, kept)
                  \/ \E t \in Tasks, I \in InputSets : Assess(p, t, I, kept)
             \/ \E i \in Ids :
                  \/ Failed(i, kept) \/ Skipped(i, kept)
                  \/ \E O \in OutputSets : Completed(i, O, kept)
      PROVE  GoalInv'
  <2>1. CASE Look(kept)
    BY <2>1, LookKeepsInv
  <2>2. ASSUME NEW p \in Procedures, Mine(p, kept)
        PROVE  GoalInv'
    BY <2>2, MineKeepsInv
  <2>3. ASSUME NEW p \in Procedures, Delete(p, kept)
        PROVE  GoalInv'
    BY <2>3, DeleteKeepsInv
  <2>4. ASSUME NEW p \in Procedures, NEW q \in Procedures, Supersede(p, q, kept)
        PROVE  GoalInv'
    BY <2>4, SupersedeKeepsInv
  <2>5. ASSUME NEW p \in Procedures, NEW t \in Tasks, NEW I \in InputSets, Assess(p, t, I, kept)
        PROVE  GoalInv'
    BY <2>5, AssessKeepsInv
  <2>6. ASSUME NEW i \in Ids, Failed(i, kept) \/ Skipped(i, kept)
        PROVE  GoalInv'
    BY <2>6, FailedKeepsInv, SkippedKeepsInv
  <2>7. ASSUME NEW i \in Ids, NEW O \in OutputSets, Completed(i, O, kept)
        PROVE  GoalInv'
    BY <2>7, CompletedKeepsInv
  <2> QED
    BY <1>0, <1>1, <2>1, <2>2, <2>3, <2>4, <2>5, <2>6, <2>7
<1>2. CASE Restart
  BY <1>2, RestartKeepsInv
<1>3. ASSUME NEW p \in Procedures, NEW b, NEW F \in EvidenceSets, Review(p, b, F)
      PROVE  GoalInv'
  BY <1>3, ReviewKeepsInv
<1>4. ASSUME NEW p \in InUse,
             \/ Retire(p) \/ RequestReview(p)
             \/ \E b \in Bodies, F \in EvidenceSets : Review(p, b, F)
      PROVE  GoalInv'
  BY <1>0, <1>3, <1>4, RetireKeepsInv, RequestReviewKeepsInv
<1>5. ASSUME NEW p \in InUse,
             \/ \E b \in Bodies : EditDocument(p, [doc[p] EXCEPT !.body = b])
             \/ \E v \in ByHand : EditDocument(p, [doc[p] EXCEPT !.visible = v])
      PROVE  GoalInv'
  BY <1>5, EditsKeepInv
<1>6. ASSUME NEW i \in Ids, Expire(i)
      PROVE  GoalInv'
  BY <1>6, ExpireKeepsInv
<1>7. ASSUME NEW f \in Files, NEW c \in Contents \cup {Missing}, EditFile(f, c)
      PROVE  GoalInv'
  BY <1>7, NothingKeepsInv DEF EditFile
<1>8. CASE UNCHANGED vars
  BY <1>8, NothingKeepsInv DEF vars, history
<1> QED
  BY <1>1, <1>2, <1>3, <1>4, <1>5, <1>6, <1>7, <1>8 DEF Next

\* The invariant holds in every behaviour of the requests, the writes that fail, the edits by
\* hand and the restarts.
THEOREM GoalInvariance == Spec => []GoalInv
BY GoalInit, GoalStep, PTL DEF Spec

\* For every number of procedures, files and edits, and whichever observations fail to be
\* written down: a procedure that assess, review or list has seen closed, the write of that stop
\* not having failed, is not active again before somebody reviews it, whatever is written into
\* its status line and instructions or put back in the files its review rests on.
THEOREM StoppedStays == Spec => []StoppedStaysStopped
<1>1. GoalInv => StoppedStaysStopped
  <2> SUFFICES ASSUME GoalInv, NEW p \in stopped
               PROVE  Standing(doc[p]).status # "active"
    BY DEF StoppedStaysStopped
  <2> QED
    BY StandingFacts DEF GoalInv, StoppedAreShut
<1> QED
  BY <1>1, GoalInvariance, PTL

\* A receipt is written only under the review the assessment was given under, and that of a
\* skip only while what the assessment rests on is as it was.
SkipHolds(i) == Good(i) /\ tokens[i].decision = "skip" /\ Matches(tokens[i].outputs)
LEMMA ReceiptsStand ==
  ASSUME GoalInv, [Next]_vars, NEW i \in Ids,
         tokens[i] # None, tokens'[i] # None, tokens'[i].receipt # tokens[i].receipt
  PROVE  /\ Stands(doc[tokens[i].of], tokens[i])
         /\ tokens'[i].receipt = "skipped" => SkipHolds(i)
<1>1. tokens' # tokens
  OBVIOUS
<1>2. ASSUME NEW p, NEW t, NEW I, NEW kept, Assess(p, t, I, kept)
      PROVE  FALSE
  <2> DEFINE k == CHOOSE j \in Free : TRUE
  <2>1. PICK token : tokens' = [tokens EXCEPT ![k] = token] /\ Free # {}
    BY <1>1, <1>2 DEF Assess
  <2>2. k # i
    BY <2>1 DEF Free
  <2> HIDE DEF k
  <2> QED
    BY <2>1, <2>2 DEF GoalInv, Shapes
<1>3. ~Restart
  BY DEF Restart
<1>4. ASSUME NEW j \in Ids, Expire(j)
      PROVE  FALSE
  <2>1. tokens' = [tokens EXCEPT ![j] = None]
    BY <1>4 DEF Expire
  <2> QED
    BY <2>1 DEF GoalInv, Shapes
<1>5. ASSUME NEW j \in Ids, NEW s, NEW kind, Recorded(j, s, kind)
      PROVE  i = j /\ tokens'[i].receipt = kind
  <2>1. tokens' = [tokens EXCEPT ![j].receipt = kind]
    BY <1>5 DEF Recorded
  <2>2. i = j
    BY <2>1 DEF GoalInv, Shapes
  <2> DEFINE t == tokens[i]
  <2>3. tokens'[i] = [t EXCEPT !.receipt = kind]
    <3>1. tokens = [k \in Ids |-> tokens[k]]
      BY DEF GoalInv, Shapes
    <3> QED
      BY <2>1, <2>2, <3>1
  <2>4. t = [of |-> t.of, review |-> t.review, task |-> t.task, inputs |-> t.inputs,
             decision |-> t.decision, outputs |-> t.outputs, receipt |-> t.receipt]
    BY DEF GoalInv, Shapes, IsToken
  <2> HIDE DEF t
  <2>5. [t EXCEPT !.receipt = kind].receipt = kind
    BY <2>4
  <2> QED
    BY <2>2, <2>3, <2>5
<1>6. ASSUME NEW j \in Ids, NEW kept,
             \/ Failed(j, kept) \/ Skipped(j, kept)
             \/ \E O \in OutputSets : Completed(j, O, kept)
      PROVE  /\ Stands(doc[tokens[i].of], tokens[i])
             /\ tokens'[i].receipt = "skipped" => SkipHolds(i)
  <2>1. ~Refused(j, kept)
    BY <1>1 DEF Refused
  <2>2. CASE Failed(j, kept)
    BY <1>5, <2>1, <2>2 DEF Failed
  <2>3. CASE Skipped(j, kept)
    BY <1>5, <2>1, <2>3 DEF Skipped, Good, SkipHolds
  <2>4. ASSUME NEW O \in OutputSets, Completed(j, O, kept)
        PROVE  /\ Stands(doc[tokens[i].of], tokens[i])
               /\ tokens'[i].receipt # "skipped"
    BY <1>5, <2>1, <2>4 DEF Completed, Good
  <2> QED
    BY <1>6, <2>2, <2>3, <2>4
<1>7. ASSUME NEW p, NEW q, NEW kept,
             \/ Look(kept) \/ Mine(p, kept) \/ Delete(p, kept) \/ Supersede(p, q, kept)
             \/ Retire(p) \/ RequestReview(p) \/ EditDocument(p, q)
      PROVE  FALSE
  BY <1>1, <1>7 DEF Look, Mine, Retire, RequestReview, Delete, Supersede, EditDocument
<1>8. ASSUME NEW p, NEW b, NEW F, Review(p, b, F) \/ EditFile(b, F)
      PROVE  FALSE
  BY <1>1, <1>8 DEF Review, EditFile
<1>9. ~UNCHANGED vars
  BY <1>1 DEF vars
<1> QED
  BY <1>2, <1>3, <1>4, <1>6, <1>7, <1>8, <1>9 DEF Next

\* For every number of assessments and reviews: a success or failure is recorded only while the
\* standing of the procedure has not changed since the assessment, so no report of work done
\* under one review counts for another.
THEOREM OutcomesBelong == Spec => OutcomesBelongToTheirReview
<1>1. ASSUME GoalInv, [Next]_vars
      PROVE  [\A i \in Ids :
                tokens[i] # None /\ tokens'[i] # None /\ tokens'[i].receipt # tokens[i].receipt
                  => i \notin outdated]_vars
  <2> SUFFICES ASSUME NEW i \in Ids, tokens[i] # None, tokens'[i] # None,
                      tokens'[i].receipt # tokens[i].receipt
               PROVE  i \notin outdated
    OBVIOUS
  <2> DEFINE p == tokens[i].of
  <2>1. Stands(doc[p], tokens[i])
    BY <1>1, ReceiptsStand
  <2>2. doc[p] # None /\ IsDocument(doc[p])
    BY <1>1, <2>1 DEF Stands, GoalInv, Shapes
  <2>3. Alive(doc[p], tokens[i])
    BY <2>1, <2>2, StandingFacts DEF Stands, Alive
  <2> QED
    BY <1>1, <2>3 DEF GoalInv, OutdatedAreDead
<1> QED
  BY <1>1, GoalInvariance, PTL DEF Spec, OutcomesBelongToTheirReview
-----------------------------------------------------------------------------
(***************************************************************************)
(* Skipped tasks.  What is stored of a procedure lists completions that    *)
(* were reported since its last failure or review request (Backed), and an *)
(* assessment that says skip rests on one of them while the review it was  *)
(* given under stands (Shown).                                             *)
(***************************************************************************)
Backed(d, S) == d.stored # None => d.stored.completions \in Seq(S)
Shown(t, S) ==
  \E c \in S : /\ c.task = t.task /\ c.of = t.review.of
               /\ c.inputs = t.inputs /\ c.outputs = t.outputs
ProvenOK ==
  /\ proven = [p \in Procedures |-> proven[p]]
  /\ \A p \in Procedures : doc[p] # None => Backed(doc[p], proven[p])
  /\ \A i \in Ids :
       tokens[i] # None /\ tokens[i].decision = "skip" /\ Alive(doc[tokens[i].of], tokens[i])
         => Shown(tokens[i], proven[tokens[i].of])

LEMMA StandingIsBacked ==
  ASSUME NEW d, NEW S, IsDocument(d), Backed(d, S)
  PROVE  Standing(d).completions \in Seq(S)
<1>0. <<>> \in Seq(S)
  OBVIOUS
<1>1. CASE d.stored = None
  BY <1>0, <1>1 DEF Standing
<1>2. CASE d.stored # None /\ d.visible \notin {d.stored.status, "active"}
  <2>1. Standing(d) = [d.stored EXCEPT !.status = d.visible, !.completions = <<>>]
    BY <1>2 DEF Standing
  <2>2. d.stored = [status |-> d.stored.status, review |-> d.stored.review,
                    completions |-> d.stored.completions]
    BY <1>2 DEF IsDocument, IsStanding
  <2>3. Standing(d) = [status |-> d.visible, review |-> d.stored.review, completions |-> <<>>]
    BY <2>1, <2>2
  <2> QED
    BY <1>0, <2>3
<1>3. CASE d.stored # None /\ d.visible \in {d.stored.status, "active"}
  BY <1>3 DEF Standing, Backed
<1> QED
  BY <1>1, <1>2, <1>3

LEMMA SavedIsBacked ==
  ASSUME NEW d, NEW s, NEW S, IsDocument(d), IsStanding(s), s.completions \in Seq(S)
  PROVE  Backed(Saved(d, s), S)
BY SavedFacts DEF Backed

LEMMA ObservedIsBacked ==
  ASSUME NEW d, NEW S, IsDocument(d), Backed(d, S)
  PROVE  Backed(Observed(d), S)
<1> DEFINE s == Standing(d)
           r == [s EXCEPT !.status = "needs-review"]
<1>1. IsStanding(s) /\ s.completions \in Seq(S)
  BY StandingFacts, StandingIsBacked
<1>2. IsStanding(r) /\ r.completions \in Seq(S)
  BY <1>1, Demoted
<1>3. Observed(d) = Saved(d, r) \/ Observed(d) = Saved(d, s) \/ Observed(d) = d
  BY DEF Observed
<1> HIDE DEF s, r
<1>4. Backed(Saved(d, r), S) /\ Backed(Saved(d, s), S)
  BY <1>1, <1>2, SavedIsBacked
<1> QED
  BY <1>3, <1>4

\* A new completion takes the place of an older one of its task and inputs; the last ones stay.
LEMMA CompletionIsBacked ==
  ASSUME NEW s, IsStanding(s), NEW S, NEW c \in S, s.completions \in Seq(S)
  PROVE  LET t == WithCompletion(s, c)
         IN IsStanding(t) /\ t.review = s.review /\ t.completions \in Seq(S)
<1> DEFINE others == { old \in Members(s.completions) : ~(old.task = c.task /\ old.inputs = c.inputs) }
           q == Append(Kept(s.completions, others), c)
           n == IF Len(q) > MaxCompletions THEN Len(q) - MaxCompletions ELSE 0
<1>1. q \in Seq(S)
  <2>1. Kept(s.completions, others) \in Seq(S)
    BY Filtered
  <2> HIDE DEF others
  <2> QED
    BY <2>1
<1>2. WithCompletion(s, c) = [s EXCEPT !.completions = SubSeq(q, n + 1, Len(q))]
  BY DEF WithCompletion, LastOf
<1> HIDE DEF q
<1>3. Len(q) \in Nat /\ MaxCompletions \in Nat \ {0}
  BY <1>1, GoalAssumption
<1>4. n \in Nat /\ n <= Len(q)
  BY <1>3
<1> HIDE DEF n
<1>5. SubSeq(q, n + 1, Len(q)) \in Seq(S)
  BY <1>1, <1>3, <1>4
<1>6. s = [status |-> s.status, review |-> s.review, completions |-> s.completions]
  BY DEF IsStanding
<1>7. PICK r : r = SubSeq(q, n + 1, Len(q))
  OBVIOUS
<1>8. WithCompletion(s, c) = [status |-> s.status, review |-> s.review, completions |-> r]
  BY <1>2, <1>6, <1>7
<1> QED
  BY <1>5, <1>7, <1>8 DEF IsStanding

\* What a step leaves of the completions: those that are stored were reported, and the reports
\* of a procedure are forgotten only when it is closed or deleted.
StockKept ==
  /\ proven' = [p \in Procedures |-> proven'[p]]
  /\ \A p \in Procedures : doc'[p] # None => Backed(doc'[p], proven'[p])
  /\ \A p \in Procedures : proven[p] \subseteq proven'[p] \/ doc'[p] = None \/ Shut(doc'[p])

LEMMA OneStockKept ==
  ASSUME GoalInv, ProvenOK, NEW p \in Procedures, NEW e, NEW X,
         doc' = [doc EXCEPT ![p] = e], Backed(e, X),
         proven' = [proven EXCEPT ![p] = X],
         proven[p] \subseteq X \/ e = None \/ Shut(e)
  PROVE  StockKept
<1>1. doc' = [q \in Procedures |-> IF q = p THEN e ELSE doc[q]]
  BY DEF GoalInv, Shapes
<1>2. proven' = [q \in Procedures |-> IF q = p THEN X ELSE proven[q]]
  BY DEF ProvenOK
<1>3. \A q \in Procedures : doc'[q] # None => Backed(doc'[q], proven'[q])
  BY <1>1, <1>2 DEF ProvenOK
<1>4. \A q \in Procedures : proven[q] \subseteq proven'[q] \/ doc'[q] = None \/ Shut(doc'[q])
  BY <1>1, <1>2
<1> QED
  BY <1>2, <1>3, <1>4 DEF StockKept

LEMMA SameStockKept ==
  ASSUME GoalInv, ProvenOK, NEW p \in Procedures, NEW e,
         doc' = [doc EXCEPT ![p] = e], Backed(e, proven[p]), proven' = proven
  PROVE  StockKept
<1>1. proven' = [proven EXCEPT ![p] = proven[p]]
  BY DEF ProvenOK
<1> QED
  BY <1>1, OneStockKept

LEMMA ListedIsBacked ==
  ASSUME GoalInv, ProvenOK, NEW kept \in SUBSET Existing, NEW q \in Procedures,
         Listed(kept)[q] # None
  PROVE  Backed(Listed(kept)[q], proven[q])
<1>1. CASE q \in kept
  <2>1. doc[q] # None /\ Listed(kept)[q] = Observed(doc[q])
    BY <1>1 DEF Listed, Existing
  <2>2. IsDocument(doc[q]) /\ Backed(doc[q], proven[q])
    BY <2>1 DEF GoalInv, Shapes, ProvenOK
  <2> QED
    BY <2>1, <2>2, ObservedIsBacked
<1>2. CASE q \notin kept
  <2>1. Listed(kept)[q] = doc[q]
    BY <1>2 DEF Listed
  <2> QED
    BY <2>1 DEF ProvenOK
<1> QED
  BY <1>1, <1>2

LEMMA ListStockKept ==
  ASSUME GoalInv, ProvenOK, NEW kept \in SUBSET Existing, NEW p \in Procedures, NEW e,
         doc' = [Listed(kept) EXCEPT ![p] = e],
         \/ proven' = proven /\ e = NewDocument
         \/ proven' = [proven EXCEPT ![p] = {}] /\ e = None
  PROVE  StockKept
<1>1. doc' = [q \in Procedures |-> IF q = p THEN e ELSE Listed(kept)[q]]
  BY DEF Listed
<1>2. \A q \in Procedures : Listed(kept)[q] # None => Backed(Listed(kept)[q], proven[q])
  BY ListedIsBacked
<1>3. Backed(NewDocument, proven[p])
  BY DEF NewDocument, Backed
<1>4. CASE proven' = proven /\ e = NewDocument
  BY <1>1, <1>2, <1>3, <1>4 DEF ProvenOK, StockKept
<1>5. CASE proven' = [proven EXCEPT ![p] = {}] /\ e = None
  <2>1. proven' = [q \in Procedures |-> IF q = p THEN {} ELSE proven[q]]
    BY <1>5 DEF ProvenOK
  <2> QED
    BY <1>1, <1>2, <1>5, <2>1 DEF StockKept
<1> QED
  BY <1>4, <1>5

LEMMA ObservingKeepsStock ==
  ASSUME GoalInv, ProvenOK, NEW kept \in SUBSET Existing,
         Become(Listed(kept), kept, {}), proven' = proven
  PROVE  StockKept
<1>1. doc' = Listed(kept)
  BY DEF Become
<1>2. \A q \in Procedures : Listed(kept)[q] # None => Backed(Listed(kept)[q], proven[q])
  BY ListedIsBacked
<1> QED
  BY <1>1, <1>2 DEF ProvenOK, StockKept

LEMMA ClosingKeepsStock ==
  ASSUME GoalInv, ProvenOK, NEW p \in Procedures, doc[p] # None, NEW status,
         doc' = [doc EXCEPT ![p] = Closed(doc[p], status)], proven' = proven
  PROVE  StockKept
<1> DEFINE s == [Standing(doc[p]) EXCEPT !.status = status]
<1>1. IsDocument(doc[p]) /\ Backed(doc[p], proven[p])
  BY DEF GoalInv, Shapes, ProvenOK
<1>2. IsStanding(s) /\ s.completions \in Seq(proven[p])
  BY <1>1, StandingFacts, StandingIsBacked, Demoted
<1>3. Closed(doc[p], status) = Saved(doc[p], s)
  BY DEF Closed
<1> HIDE DEF s
<1>4. Backed(Closed(doc[p], status), proven[p])
  BY <1>1, <1>2, <1>3, SavedIsBacked
<1> QED
  BY <1>4, SameStockKept

LEMMA ReviewKeepsStock ==
  ASSUME GoalInv, ProvenOK, NEW p \in Procedures, NEW b, NEW F, Review(p, b, F)
  PROVE  StockKept
<1> DEFINE e == Approved(doc[p], b, F)
<1>1. doc[p] # None /\ doc' = [doc EXCEPT ![p] = e] /\ proven' = proven
  BY DEF Review, Become
<1>2. IsDocument(doc[p]) /\ Backed(doc[p], proven[p])
  BY <1>1 DEF GoalInv, Shapes, ProvenOK
<1>3. e.stored.completions = Standing(doc[p]).completions
  BY <1>2, ApprovedFacts
<1>4. Backed(e, proven[p])
  <2> HIDE DEF e
  <2> QED
    BY <1>2, <1>3, StandingIsBacked DEF Backed
<1> HIDE DEF e
<1> QED
  BY <1>1, <1>4, SameStockKept

\* A standing that is emptied is closed as well.
LEMMA Emptied ==
  ASSUME NEW s, IsStanding(s), NEW S
  PROVE  LET t == [s EXCEPT !.status = "needs-review", !.completions = <<>>]
         IN /\ IsStanding(t) /\ t.status = "needs-review"
            /\ t.completions \in Seq(S)
<1> DEFINE t == [s EXCEPT !.status = "needs-review", !.completions = <<>>]
<1>1. s = [status |-> s.status, review |-> s.review, completions |-> s.completions]
  BY DEF IsStanding
<1>2. t = [s EXCEPT !.status = "needs-review", !.completions = <<>>]
  OBVIOUS
<1> HIDE DEF t
<1>3. t = [status |-> "needs-review", review |-> s.review, completions |-> <<>>]
  BY <1>1, <1>2
<1>4. <<>> \in Seq(S)
  OBVIOUS
<1>5. IsStanding(t) /\ t.status = "needs-review" /\ t.completions \in Seq(S)
  BY <1>3, <1>4 DEF IsStanding
<1> QED
  BY <1>5 DEF t

LEMMA RequestReviewKeepsStock ==
  ASSUME GoalInv, ProvenOK, NEW p \in Procedures, RequestReview(p)
  PROVE  StockKept
<1> DEFINE s == [Standing(doc[p]) EXCEPT !.status = "needs-review", !.completions = <<>>]
           e == Saved(doc[p], s)
<1>1. doc[p] # None /\ doc' = [doc EXCEPT ![p] = e] /\ proven' = [proven EXCEPT ![p] = {}]
  BY DEF RequestReview, Become
<1>2. IsDocument(doc[p])
  BY <1>1 DEF GoalInv, Shapes
<1>3. IsStanding(s) /\ s.status = "needs-review" /\ s.completions \in Seq({})
  BY <1>2, StandingFacts, Emptied
<1> HIDE DEF s
<1>4. Backed(e, {}) /\ Shut(e)
  BY <1>2, <1>3, SavedIsBacked, SavedFacts DEF Shut
<1> HIDE DEF e
<1> QED
  BY <1>1, <1>4, OneStockKept

LEMMA RecordedKeepsStock ==
  ASSUME GoalInv, ProvenOK, NEW i \in Ids, tokens[i] # None, doc[tokens[i].of] # None,
         NEW s, NEW kind, Recorded(i, s, kind), IsStanding(s), NEW X, s.completions \in Seq(X),
         proven' = [proven EXCEPT ![tokens[i].of] = X],
         proven[tokens[i].of] \subseteq X \/ s.status # "active"
  PROVE  StockKept
<1> DEFINE p == tokens[i].of
           e == Saved(doc[p], s)
<1>1. p \in Procedures /\ IsDocument(doc[p]) /\ doc' = [doc EXCEPT ![p] = e]
  BY DEF GoalInv, Shapes, Recorded, Become
<1>2. Backed(e, X) /\ e.stored = s
  BY <1>1, SavedFacts, SavedIsBacked
<1>3. proven[p] \subseteq X \/ Shut(e)
  BY <1>2 DEF Shut
<1> HIDE DEF e
<1> QED
  BY <1>1, <1>2, <1>3, OneStockKept

LEMMA RefusedKeepsStock ==
  ASSUME GoalInv, ProvenOK, NEW i, NEW kept \in SUBSET Existing, Refused(i, kept)
  PROVE  StockKept
BY ObservingKeepsStock DEF Refused

LEMMA OutcomeKeepsStock ==
  ASSUME GoalInv, ProvenOK, NEW i \in Ids, NEW kept \in SUBSET Existing,
         \/ Failed(i, kept) \/ Skipped(i, kept)
         \/ \E O \in OutputSets : Completed(i, O, kept)
  PROVE  StockKept
<1> DEFINE p == tokens[i].of
           old == Standing(doc[p])
<1>1. tokens[i] # None /\ p \in Procedures
  BY DEF Failed, Skipped, Completed, Pending, GoalInv, Shapes
<1>2. ASSUME Stands(doc[p], tokens[i])
      PROVE  doc[p] # None /\ IsStanding(old) /\ old.completions \in Seq(proven[p])
  BY <1>1, <1>2, StandingFacts, StandingIsBacked DEF Stands, GoalInv, Shapes, ProvenOK
<1>3. CASE Refused(i, kept)
  BY <1>1, <1>3, RefusedKeepsStock
<1>4. CASE Failed(i, kept) /\ ~Refused(i, kept)
  <2> DEFINE s == [old EXCEPT !.status = "needs-review", !.completions = <<>>]
  <2>1. /\ Stands(doc[p], tokens[i]) /\ Recorded(i, s, "failed")
        /\ proven' = [proven EXCEPT ![p] = {}]
    BY <1>4 DEF Failed
  <2>2. IsStanding(s) /\ s.status = "needs-review" /\ s.completions \in Seq({})
    BY <1>2, <2>1, Emptied
  <2> HIDE DEF s
  <2> QED
    BY <1>1, <1>2, <2>1, <2>2, RecordedKeepsStock
<1>5. CASE Skipped(i, kept) /\ ~Refused(i, kept)
  <2>1. Stands(doc[p], tokens[i]) /\ Recorded(i, old, "skipped") /\ proven' = proven
    BY <1>5 DEF Skipped, Good
  <2>2. proven' = [proven EXCEPT ![p] = proven[p]]
    BY <1>1, <2>1 DEF ProvenOK
  <2> QED
    BY <1>1, <1>2, <2>1, <2>2, RecordedKeepsStock
<1>6. ASSUME NEW O \in OutputSets, Completed(i, O, kept), ~Refused(i, kept)
      PROVE  StockKept
  <2> DEFINE c == [task |-> tokens[i].task, of |-> tokens[i].review.of,
                   inputs |-> tokens[i].inputs, outputs |-> Snapshot(O)]
             s == WithCompletion(old, c)
             X == proven[p] \cup {c}
  <2>1. /\ Stands(doc[p], tokens[i]) /\ Recorded(i, s, "completed")
        /\ proven' = [proven EXCEPT ![p] = X]
    BY <1>6 DEF Completed, Good
  <2> HIDE DEF c
  <2>2. c \in X /\ proven[p] \subseteq X
    OBVIOUS
  <2>3. old.completions \in Seq(X)
    <3>1. Members(old.completions) \subseteq X
      BY <1>2, <2>1, <2>2 DEF Members
    <3> QED
      BY <1>2, <2>1, <3>1, ListOfMembers
  <2> HIDE DEF X
  <2>4. IsStanding(s) /\ s.completions \in Seq(X)
    BY <1>2, <2>1, <2>2, <2>3, CompletionIsBacked
  <2> HIDE DEF s
  <2> QED
    BY <1>1, <1>2, <2>1, <2>2, <2>4, RecordedKeepsStock
<1> QED
  BY <1>3, <1>4, <1>5, <1>6

\* A step that changes no document and no report.
LEMMA NothingKeepsStock ==
  ASSUME ProvenOK, doc' = doc, proven' = proven
  PROVE  StockKept
BY DEF ProvenOK, StockKept

LEMMA EditKeepsStock ==
  ASSUME GoalInv, ProvenOK, NEW p \in Procedures, doc[p] # None, NEW d,
         d.stored = doc[p].stored, doc' = [doc EXCEPT ![p] = d], proven' = proven
  PROVE  StockKept
<1>1. Backed(d, proven[p])
  BY DEF ProvenOK, Backed
<1> QED
  BY <1>1, SameStockKept

LEMMA EditsKeepStored ==
  ASSUME GoalInv, NEW p \in InUse,
         \/ \E b \in Bodies : EditDocument(p, [doc[p] EXCEPT !.body = b])
         \/ \E v \in ByHand : EditDocument(p, [doc[p] EXCEPT !.visible = v])
  PROVE  /\ p \in Procedures /\ doc[p] # None /\ proven' = proven /\ tokens' = tokens
         /\ \E d : d.stored = doc[p].stored /\ doc' = [doc EXCEPT ![p] = d]
<1> DEFINE d == doc[p]
<1>1. p \in Procedures
  BY GoalAssumption
<1>2. d # None /\ proven' = proven /\ tokens' = tokens
  BY DEF EditDocument, history
<1>3. d = [body |-> d.body, files |-> d.files, visible |-> d.visible, stored |-> d.stored]
  BY <1>1, <1>2 DEF GoalInv, Shapes, IsDocument
<1>4. PICK e : /\ doc' = [doc EXCEPT ![p] = e]
               /\ \/ \E b \in Bodies : e = [d EXCEPT !.body = b]
                  \/ \E v \in ByHand : e = [d EXCEPT !.visible = v]
  BY DEF EditDocument
<1> HIDE DEF d
<1>5. e.stored = d.stored
  BY <1>3, <1>4
<1> QED
  BY <1>1, <1>2, <1>4, <1>5 DEF d

LEMMA StockStep == GoalInv /\ ProvenOK /\ [Next]_vars => StockKept
<1> SUFFICES ASSUME GoalInv, ProvenOK, [Next]_vars
             PROVE  StockKept
  OBVIOUS
<1>0. InUse \subseteq Procedures
  BY GoalAssumption
<1>1. ASSUME NEW kept \in SUBSET Existing,
             \/ Look(kept)
             \/ \E p \in Procedures : Mine(p, kept)
             \/ \E p \in InUse :
                  \/ Delete(p, kept)
                  \/ \E q \in Procedures : Supersede(p, q, kept)
                  \/ \E t \in Tasks, I \in InputSets : Assess(p, t, I, kept)
             \/ \E i \in Ids :
                  \/ Failed(i, kept) \/ Skipped(i, kept)
                  \/ \E O \in OutputSets : Completed(i, O, kept)
      PROVE  StockKept
  <2>1. CASE Look(kept)
    BY <2>1, ObservingKeepsStock DEF Look
  <2>2. ASSUME NEW p \in Procedures, Mine(p, kept)
        PROVE  StockKept
    <3>1. doc' = [Listed(kept) EXCEPT ![p] = NewDocument] /\ proven' = proven
      BY <2>2 DEF Mine, Become
    <3> QED
      BY <3>1, ListStockKept
  <2>3. ASSUME NEW p \in Procedures, Delete(p, kept)
        PROVE  StockKept
    <3>1. doc' = [Listed(kept) EXCEPT ![p] = None] /\ proven' = [proven EXCEPT ![p] = {}]
      BY <2>3 DEF Delete, Become
    <3> QED
      BY <3>1, ListStockKept
  <2>4. ASSUME NEW p \in Procedures, NEW q \in Procedures, Supersede(p, q, kept)
        PROVE  StockKept
    <3>1. /\ doc[p] # None /\ proven' = proven
          /\ \/ doc' = [doc EXCEPT ![p] = Closed(doc[p], "superseded")]
             \/ Become(Listed(kept), kept, {})
      BY <2>4 DEF Supersede, Become
    <3> QED
      BY <3>1, ClosingKeepsStock, ObservingKeepsStock
  <2>5. ASSUME NEW p \in Procedures, NEW t \in Tasks, NEW I \in InputSets, Assess(p, t, I, kept)
        PROVE  StockKept
    BY <2>5, ObservingKeepsStock DEF Assess
  <2>6. ASSUME NEW i \in Ids,
               \/ Failed(i, kept) \/ Skipped(i, kept)
               \/ \E O \in OutputSets : Completed(i, O, kept)
        PROVE  StockKept
    BY <2>6, OutcomeKeepsStock
  <2> QED
    BY <1>0, <1>1, <2>1, <2>2, <2>3, <2>4, <2>5, <2>6
<1>2. CASE Restart
  BY <1>2, NothingKeepsStock DEF Restart
<1>3. ASSUME NEW p \in Procedures, NEW b, NEW F \in EvidenceSets, Review(p, b, F)
      PROVE  StockKept
  BY <1>3, ReviewKeepsStock
<1>4. ASSUME NEW p \in Procedures, Retire(p)
      PROVE  StockKept
  <2>1. doc[p] # None /\ doc' = [doc EXCEPT ![p] = Closed(doc[p], "retired")] /\ proven' = proven
    BY <1>4 DEF Retire, Become
  <2> QED
    BY <2>1, ClosingKeepsStock
<1>5. ASSUME NEW p \in Procedures, RequestReview(p)
      PROVE  StockKept
  BY <1>5, RequestReviewKeepsStock
<1>6. ASSUME NEW p \in InUse,
             \/ \E b \in Bodies : EditDocument(p, [doc[p] EXCEPT !.body = b])
             \/ \E v \in ByHand : EditDocument(p, [doc[p] EXCEPT !.visible = v])
      PROVE  StockKept
  <2>1. /\ p \in Procedures /\ doc[p] # None /\ proven' = proven
        /\ \E d : d.stored = doc[p].stored /\ doc' = [doc EXCEPT ![p] = d]
    BY <1>6, EditsKeepStored
  <2> QED
    BY <2>1, EditKeepsStock
<1>7. ASSUME NEW i \in Ids, Expire(i)
      PROVE  StockKept
  BY <1>7, NothingKeepsStock DEF Expire
<1>8. ASSUME NEW f \in Files, NEW c \in Contents \cup {Missing}, EditFile(f, c)
      PROVE  StockKept
  BY <1>8, NothingKeepsStock DEF EditFile, history
<1>9. CASE UNCHANGED vars
  BY <1>9, NothingKeepsStock DEF vars
<1> QED
  BY <1>0, <1>1, <1>2, <1>3, <1>4, <1>5, <1>6, <1>7, <1>8, <1>9 DEF Next

\* A step hands out an assessment, reports on one, or leaves those that stay as they are.
SameToken(i) ==
  /\ tokens[i] # None
  /\ tokens'[i].of = tokens[i].of /\ tokens'[i].review = tokens[i].review
  /\ tokens'[i].task = tokens[i].task /\ tokens'[i].inputs = tokens[i].inputs
  /\ tokens'[i].decision = tokens[i].decision /\ tokens'[i].outputs = tokens[i].outputs
Given(i, p, t, I) ==
  /\ tokens[i] = None /\ doc[p] # None /\ IsActive(doc[p])
  /\ tokens'[i] = Token(p, Standing(doc[p]), t, I)
  /\ proven' = proven

LEMMA ReportsKeepTokens ==
  ASSUME GoalInv, NEW j \in Ids, NEW s, NEW kind, Recorded(j, s, kind), tokens[j] # None,
         NEW i \in Ids, tokens'[i] # None
  PROVE  SameToken(i)
<1>1. tokens' = [tokens EXCEPT ![j].receipt = kind]
  BY DEF Recorded
<1>2. CASE i # j
  <2>1. tokens'[i] = tokens[i]
    BY <1>1, <1>2 DEF GoalInv, Shapes
  <2> QED
    BY <2>1 DEF SameToken
<1>3. CASE i = j
  <2> DEFINE t == tokens[i]
  <2>1. tokens'[i] = [t EXCEPT !.receipt = kind]
    <3>1. tokens = [k \in Ids |-> tokens[k]]
      BY DEF GoalInv, Shapes
    <3> QED
      BY <1>1, <1>3, <3>1
  <2>2. t = [of |-> t.of, review |-> t.review, task |-> t.task, inputs |-> t.inputs,
             decision |-> t.decision, outputs |-> t.outputs, receipt |-> t.receipt]
    BY <1>3 DEF GoalInv, Shapes, IsToken
  <2> HIDE DEF t
  <2>3. [t EXCEPT !.receipt = kind]
          = [of |-> t.of, review |-> t.review, task |-> t.task, inputs |-> t.inputs,
             decision |-> t.decision, outputs |-> t.outputs, receipt |-> kind]
    BY <2>2
  <2> QED
    BY <1>3, <2>1, <2>3 DEF t, SameToken
<1> QED
  BY <1>2, <1>3

LEMMA TokensStep ==
  ASSUME GoalInv, [Next]_vars, NEW i \in Ids, tokens'[i] # None
  PROVE  SameToken(i) \/ \E p \in Procedures, t \in Tasks, I \in InputSets : Given(i, p, t, I)
<1>1. ASSUME tokens' = tokens
      PROVE  SameToken(i)
  BY <1>1 DEF SameToken
<1>2. ASSUME NEW p \in InUse, NEW t \in Tasks, NEW I \in InputSets, NEW kept,
             Assess(p, t, I, kept)
      PROVE  SameToken(i) \/ Given(i, p, t, I)
  <2> DEFINE k == CHOOSE j \in Free : TRUE
             token == Token(p, Standing(doc[p]), t, I)
             given == IsActive(doc[p]) /\ Present(I)
  <2>1. /\ doc[p] # None /\ proven' = proven /\ (given => Free # {})
        /\ tokens' = IF given THEN [tokens EXCEPT ![k] = token] ELSE tokens
    BY <1>2 DEF Assess
  <2>2. CASE ~given
    BY <1>1, <2>1, <2>2
  <2>3. CASE given
    <3>1. k \in Ids /\ tokens[k] = None
      BY <2>1, <2>3 DEF Free
    <3>2. tokens' = [tokens EXCEPT ![k] = token]
      BY <2>1, <2>3
    <3> HIDE DEF k, token
    <3>3. CASE i = k
      <4>1. tokens'[i] = token
        BY <3>1, <3>2, <3>3 DEF GoalInv, Shapes
      <4> QED
        BY <2>1, <2>3, <3>1, <3>3, <4>1 DEF Given, token
    <3>4. CASE i # k
      <4>1. tokens'[i] = tokens[i]
        BY <3>1, <3>2, <3>4 DEF GoalInv, Shapes
      <4> QED
        BY <4>1 DEF SameToken
    <3> QED
      BY <3>3, <3>4
  <2> QED
    BY <2>2, <2>3
<1>3. ~Restart
  BY DEF Restart
<1>4. ASSUME NEW j \in Ids, Expire(j)
      PROVE  SameToken(i)
  <2>1. tokens' = [tokens EXCEPT ![j] = None]
    BY <1>4 DEF Expire
  <2>2. tokens'[i] = tokens[i]
    BY <2>1 DEF GoalInv, Shapes
  <2> QED
    BY <2>2 DEF SameToken
<1>5. ASSUME NEW j \in Ids, NEW kept,
             \/ Failed(j, kept) \/ Skipped(j, kept)
             \/ \E O \in OutputSets : Completed(j, O, kept)
      PROVE  SameToken(i)
  <2>1. CASE Refused(j, kept)
    BY <1>1, <2>1 DEF Refused
  <2>2. ASSUME ~Refused(j, kept)
        PROVE  tokens[j] # None /\ \E s, kind : Recorded(j, s, kind)
    <3>1. CASE Failed(j, kept)
      BY <2>2, <3>1 DEF Failed, Pending
    <3>2. CASE Skipped(j, kept)
      BY <2>2, <3>2 DEF Skipped, Pending
    <3>3. ASSUME NEW O \in OutputSets, Completed(j, O, kept)
          PROVE  tokens[j] # None /\ \E s, kind : Recorded(j, s, kind)
      BY <2>2, <3>3 DEF Completed, Pending
    <3> QED
      BY <1>5, <3>1, <3>2, <3>3
  <2> QED
    BY <2>1, <2>2, ReportsKeepTokens
<1>6. ASSUME NEW p, NEW q, NEW kept,
             \/ Look(kept) \/ Mine(p, kept) \/ Delete(p, kept) \/ Supersede(p, q, kept)
             \/ Retire(p) \/ RequestReview(p) \/ EditDocument(p, q)
      PROVE  tokens' = tokens
  BY <1>6 DEF Look, Mine, Retire, RequestReview, Delete, Supersede, EditDocument
<1>7. ASSUME NEW p, NEW b, NEW F, Review(p, b, F) \/ EditFile(b, F)
      PROVE  tokens' = tokens
  BY <1>7 DEF Review, EditFile
<1>8. UNCHANGED vars => tokens' = tokens
  BY DEF vars
<1>9. InUse \subseteq Procedures
  BY GoalAssumption
<1> QED
  BY <1>1, <1>2, <1>3, <1>4, <1>5, <1>6, <1>7, <1>8, <1>9 DEF Next

\* No step brings an assessment back to life: its review is never stored again once it is gone.
LEMMA AliveBefore ==
  ASSUME GoalInv, GoalInv', [Next]_vars, NEW i \in Ids, SameToken(i), tokens'[i] # None,
         Alive(doc'[tokens'[i].of], tokens'[i])
  PROVE  Alive(doc[tokens[i].of], tokens[i])
<1> DEFINE p == tokens[i].of
           d == doc[p]
           e == doc'[p]
<1>1. /\ e # None /\ ~Shut(e) /\ e.stored.review = tokens[i].review /\ p \in Procedures
      /\ i \notin outdated'
  BY DEF Alive, SameToken, GoalInv, Shapes, OutdatedAreDead
<1>2. ASSUME NEW new, NEW seen, NEW approved, Become(new, seen, approved)
      PROVE  Alive(d, tokens[i])
  <2>1. SameStanding(d, e)
    BY <1>1, <1>2 DEF Become, SameToken
  <2> QED
    BY <1>1, <2>1 DEF SameStanding, Alive, Shut
<1>3. ASSUME doc' = doc
      PROVE  Alive(d, tokens[i])
  BY <1>1, <1>3 DEF Alive
<1>4. ASSUME NEW q \in Procedures, NEW c, doc[q] # None, c.stored = doc[q].stored,
             doc' = [doc EXCEPT ![q] = c]
      PROVE  Alive(d, tokens[i])
  <2>1. doc' = [r \in Procedures |-> IF r = q THEN c ELSE doc[r]]
    BY <1>4 DEF GoalInv, Shapes
  <2> QED
    BY <1>1, <1>4, <2>1 DEF Alive, Shut
<1>5. CASE Restart \/ UNCHANGED vars
  BY <1>3, <1>5 DEF Restart, vars
<1>6. ASSUME NEW q, NEW b, NEW kept,
             \/ Look(kept) \/ Mine(q, kept) \/ Delete(q, kept) \/ Supersede(q, b, kept)
             \/ Retire(q) \/ RequestReview(q)
      PROVE  Alive(d, tokens[i])
  <2>1. CASE Look(kept) \/ Mine(q, kept) \/ Delete(q, kept)
    BY <1>2, <2>1 DEF Look, Mine, Delete
  <2>2. CASE Supersede(q, b, kept)
    BY <1>2, <2>2 DEF Supersede
  <2>3. CASE Retire(q) \/ RequestReview(q)
    BY <1>2, <2>3 DEF Retire, RequestReview
  <2> QED
    BY <1>6, <2>1, <2>2, <2>3
<1>7. ASSUME NEW q, NEW b, NEW F, NEW kept, Review(q, b, F) \/ Assess(q, b, F, kept)
      PROVE  Alive(d, tokens[i])
  <2>1. CASE Review(q, b, F)
    BY <1>2, <2>1 DEF Review
  <2>2. CASE Assess(q, b, F, kept)
    BY <1>2, <2>2 DEF Assess
  <2> QED
    BY <1>7, <2>1, <2>2
<1>8. ASSUME NEW q \in InUse,
             \/ \E b \in Bodies : EditDocument(q, [doc[q] EXCEPT !.body = b])
             \/ \E v \in ByHand : EditDocument(q, [doc[q] EXCEPT !.visible = v])
      PROVE  Alive(d, tokens[i])
  <2>1. /\ q \in Procedures /\ doc[q] # None
        /\ \E c : c.stored = doc[q].stored /\ doc' = [doc EXCEPT ![q] = c]
    BY <1>8, EditsKeepStored
  <2> QED
    BY <1>4, <2>1
<1>9. ASSUME NEW j \in Ids, NEW kept,
             \/ Expire(j) \/ Failed(j, kept) \/ Skipped(j, kept)
             \/ \E O \in OutputSets : Completed(j, O, kept)
      PROVE  Alive(d, tokens[i])
  <2>1. CASE Expire(j)
    BY <1>3, <2>1 DEF Expire
  <2>2. CASE Refused(j, kept)
    BY <1>2, <2>2 DEF Refused
  <2>3. ASSUME NEW s, NEW kind, Recorded(j, s, kind)
        PROVE  Alive(d, tokens[i])
    BY <1>2, <2>3 DEF Recorded
  <2>4. CASE Failed(j, kept)
    BY <2>2, <2>3, <2>4 DEF Failed
  <2>5. CASE Skipped(j, kept)
    BY <2>2, <2>3, <2>5 DEF Skipped
  <2>6. ASSUME NEW O, Completed(j, O, kept)
        PROVE  Alive(d, tokens[i])
    BY <2>2, <2>3, <2>6 DEF Completed
  <2> QED
    BY <1>9, <2>1, <2>4, <2>5, <2>6
<1>10. ASSUME NEW f, NEW c, EditFile(f, c)
       PROVE  Alive(d, tokens[i])
  BY <1>3, <1>10 DEF EditFile
<1>11. InUse \subseteq Procedures
  BY GoalAssumption
<1>12. CASE Next
  BY <1>5, <1>6, <1>7, <1>8, <1>9, <1>10, <1>11, <1>12 DEF Next
<1> QED
  BY <1>5, <1>12

\* Of the completions that show a task needs no run, the latest is one.
LEMMA LatestIsOne ==
  ASSUME NEW S, NEW q \in Seq(S), NEW K, K \subseteq DOMAIN q, K # {}
  PROVE  Latest(K) \in K
<1>1. DOMAIN q = 1..Len(q) /\ Len(q) \in Nat
  OBVIOUS
<1> DEFINE D == { Len(q) - k : k \in K }
<1>2. D \subseteq Nat /\ D # {}
  BY <1>1
<1>3. PICK n \in D : \A m \in D : n <= m
  BY <1>2, Least
<1>4. PICK k \in K : n = Len(q) - k
  BY <1>3
<1>5. \A j \in K : j <= k
  <2> SUFFICES ASSUME NEW j \in K
               PROVE  j <= k
    OBVIOUS
  <2>1. Len(q) - j \in D
    OBVIOUS
  <2>2. Len(q) - k <= Len(q) - j
    BY <1>3, <1>4, <2>1
  <2> QED
    BY <1>1, <2>2
<1> QED
  BY <1>5 DEF Latest

\* An assessment that says skip rests on a completion that is stored, whose inputs and outputs
\* are those of the project.
LEMMA GivenIsShown ==
  ASSUME GoalInv, ProvenOK, NEW i \in Ids, NEW p \in Procedures, NEW t, NEW I, Given(i, p, t, I),
         tokens'[i].decision = "skip"
  PROVE  /\ tokens'[i].of = p
         /\ \E c \in proven[p] :
              /\ c.task = tokens'[i].task /\ c.of = tokens'[i].review.of
              /\ c.inputs = tokens'[i].inputs /\ c.outputs = tokens'[i].outputs
              /\ c.of = Fingerprint(doc[p]) /\ Matches(c.inputs) /\ Matches(c.outputs)
<1> DEFINE s == doc[p].stored
           K == Proofs(s, t, I)
<1>1. IsDocument(doc[p]) /\ Backed(doc[p], proven[p]) /\ doc[p] # None
  BY DEF GoalInv, Shapes, ProvenOK, Given
<1>2. /\ Observed(doc[p]) = doc[p] /\ ~Shut(doc[p]) /\ Standing(doc[p]) = s /\ s.review # None
  BY <1>1, ObservedFacts DEF Given, IsActive
<1>3. s.review.of = Fingerprint(doc[p])
  <2>1. CASE Stale(doc[p], s)
    <3> DEFINE r == [s EXCEPT !.status = "needs-review"]
    <3>1. Observed(doc[p]) = Saved(doc[p], r)
      BY <1>2, <2>1 DEF Observed, Shut
    <3>2. IsStanding(r) /\ r.status = "needs-review"
      BY <1>1, <1>2, StandingFacts, Demoted
    <3> HIDE DEF r
    <3>3. doc[p].stored = r
      BY <1>1, <1>2, <3>1, <3>2, SavedFacts
    <3> QED
      BY <1>2, <3>2, <3>3 DEF Shut
  <2>2. CASE ~Stale(doc[p], s)
    BY <2>2 DEF Stale
  <2> QED
    BY <2>1, <2>2
<1>4. tokens'[i] = Token(p, s, t, I)
  BY <1>2 DEF Given
<1>5. /\ tokens'[i].of = p /\ tokens'[i].review = s.review /\ tokens'[i].task = t
      /\ tokens'[i].inputs = Snapshot(I)
      /\ K # {} /\ tokens'[i].outputs = s.completions[Latest(K)].outputs
  <2>1. Token(p, s, t, I)
          = [of |-> p, review |-> s.review, task |-> t, inputs |-> Snapshot(I),
             decision |-> IF K = {} THEN "run" ELSE "skip",
             outputs |-> IF K = {} THEN None ELSE s.completions[Latest(K)].outputs,
             receipt |-> None]
    BY DEF Token
  <2> HIDE DEF K, s
  <2> QED
    BY <1>4, <2>1
<1>6. s.completions \in Seq(proven[p])
  BY <1>1, <1>2 DEF Backed, Shut
<1>7. K \subseteq DOMAIN s.completions
  BY DEF Proofs
<1>8. Latest(K) \in K
  BY <1>5, <1>6, <1>7, LatestIsOne
<1>9. PICK c : c = s.completions[Latest(K)]
  OBVIOUS
<1>10. c \in proven[p] /\ c.task = t /\ c.of = s.review.of /\ c.inputs = Snapshot(I) /\ Matches(c.outputs)
  <2>1. c \in proven[p]
    BY <1>6, <1>7, <1>8, <1>9
  <2> QED
    BY <1>8, <1>9, <2>1 DEF Proofs
<1>11. Matches(Snapshot(I))
  BY DEF Matches, Snapshot
<1> QED
  BY <1>3, <1>5, <1>9, <1>10, <1>11

LEMMA ProvenStep == GoalInv /\ GoalInv' /\ ProvenOK /\ [Next]_vars => ProvenOK'
<1> SUFFICES ASSUME GoalInv, GoalInv', ProvenOK, [Next]_vars
             PROVE  ProvenOK'
  OBVIOUS
<1>1. StockKept
  BY StockStep
<1>2. ASSUME NEW i \in Ids, tokens'[i] # None, tokens'[i].decision = "skip",
             Alive(doc'[tokens'[i].of], tokens'[i])
      PROVE  \E c \in proven'[tokens'[i].of] :
               /\ c.task = tokens'[i].task /\ c.of = tokens'[i].review.of
               /\ c.inputs = tokens'[i].inputs /\ c.outputs = tokens'[i].outputs
  <2>1. CASE SameToken(i)
    <3>1. Alive(doc[tokens[i].of], tokens[i])
      BY <1>2, <2>1, AliveBefore
    <3>2. Shown(tokens[i], proven[tokens[i].of])
      BY <1>2, <2>1, <3>1 DEF SameToken, ProvenOK
    <3>3. proven[tokens[i].of] \subseteq proven'[tokens[i].of]
      BY <1>1, <1>2, <2>1 DEF StockKept, Alive, SameToken, GoalInv, Shapes
    <3> QED
      BY <2>1, <3>2, <3>3 DEF SameToken, Shown
  <2>2. ASSUME NEW p \in Procedures, NEW t \in Tasks, NEW I \in InputSets, Given(i, p, t, I)
        PROVE  \E c \in proven'[tokens'[i].of] :
                 /\ c.task = tokens'[i].task /\ c.of = tokens'[i].review.of
                 /\ c.inputs = tokens'[i].inputs /\ c.outputs = tokens'[i].outputs
    <3>1. proven' = proven
      BY <2>2 DEF Given
    <3> QED
      BY <1>2, <2>2, <3>1, GivenIsShown
  <2> QED
    BY <1>2, <2>1, <2>2, TokensStep
<1> QED
  BY <1>1, <1>2 DEF ProvenOK, StockKept, Shown

\* What is stored, and what the assessments that are out rest on, was reported by an agent and
\* not taken back by a failure or a review request since.
THEOREM ProvenInvariance == Spec => [](GoalInv /\ ProvenOK)
<1>1. Init => ProvenOK
  BY DEF Init, ProvenOK
<1> QED
  BY <1>1, GoalInit, GoalStep, ProvenStep, PTL DEF Spec

\* For every number of procedures, files, assessments and edits: a task is skipped, and the skip
\* recorded, only while a reported completion of the same instructions and inputs stands, its
\* inputs and outputs in the project are as they were, and nothing has revoked it.
THEOREM SkippedIsProven == Spec => SkipsAreProven
<1> DEFINE Good1 ==
      \A i \in Ids :
        LET token == tokens'[i]
            given == tokens[i] = None /\ token # None /\ token.decision = "skip"
            used == tokens[i] # None /\ tokens[i].receipt = None /\ token # None
                    /\ token.receipt = "skipped"
        IN given \/ used =>
             \E c \in proven[token.of] :
               /\ c.task = token.task /\ c.of = Fingerprint(doc[token.of])
               /\ c.inputs = token.inputs /\ Matches(c.inputs) /\ Matches(c.outputs)
<1>1. GoalInv /\ ProvenOK /\ [Next]_vars => Good1
  <2> SUFFICES ASSUME GoalInv, ProvenOK, [Next]_vars, NEW i \in Ids, tokens'[i] # None,
                      \/ tokens[i] = None /\ tokens'[i].decision = "skip"
                      \/ tokens[i] # None /\ tokens[i].receipt = None /\ tokens'[i].receipt = "skipped"
               PROVE  \E c \in proven[tokens'[i].of] :
                        /\ c.task = tokens'[i].task /\ c.of = Fingerprint(doc[tokens'[i].of])
                        /\ c.inputs = tokens'[i].inputs /\ Matches(c.inputs) /\ Matches(c.outputs)
    OBVIOUS
  <2>1. CASE tokens[i] = None /\ tokens'[i].decision = "skip"
    <3>1. PICK p \in Procedures, t \in Tasks, I \in InputSets : Given(i, p, t, I)
      BY <2>1, TokensStep DEF SameToken
    <3> QED
      BY <2>1, <3>1, GivenIsShown
  <2>2. CASE tokens[i] # None /\ tokens[i].receipt = None /\ tokens'[i].receipt = "skipped"
    <3>1. Stands(doc[tokens[i].of], tokens[i]) /\ SkipHolds(i)
      BY <2>2, ReceiptsStand, GoalAssumption
    <3>2. SameToken(i)
      BY <2>2, TokensStep DEF Given
    <3>3. Alive(doc[tokens[i].of], tokens[i])
      BY <2>2, <3>1, StandingFacts DEF Stands, Alive, GoalInv, Shapes
    <3>4. PICK c \in proven[tokens[i].of] :
             /\ c.task = tokens[i].task /\ c.of = tokens[i].review.of
             /\ c.inputs = tokens[i].inputs /\ c.outputs = tokens[i].outputs
      BY <2>2, <3>1, <3>3 DEF SkipHolds, ProvenOK, Shown
    <3>5. c.of = Fingerprint(doc[tokens[i].of]) /\ Matches(c.inputs) /\ Matches(c.outputs)
      BY <3>1, <3>4 DEF Stands, SkipHolds, Good
    <3> QED
      BY <3>2, <3>4, <3>5 DEF SameToken
  <2> QED
    BY <2>1, <2>2
<1>2. GoalInv /\ ProvenOK /\ [Next]_vars => [Good1]_vars
  <2> HIDE DEF Good1
  <2> QED
    BY <1>1
<1> QED
  BY <1>2, ProvenInvariance, PTL DEF Spec, SkipsAreProven
=============================================================================
