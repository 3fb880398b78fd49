-------------------------- MODULE SnapshotDeltaProofs --------------------------
(***************************************************************************)
(* The properties of SnapshotDelta for any number of windows, projects,    *)
(* keys and slices, any number of changes and any number of messages under *)
(* way.                                                                    *)
(*                                                                         *)
(* The proof follows one key of one slice of one window: what the map      *)
(* holds, what the window shows, and what each message under way says of   *)
(* it.  A step of the server or of the window does one of few things to    *)
(* these (Moves): it leaves them alone, appends a message, reads the first *)
(* one, or empties the wire.  Each invariant is shown to survive each.     *)
(***************************************************************************)
EXTENDS SnapshotDelta, TLAPS

\* ---- the invariant ----
\* A delta that neither sets nor removes the key: the next map keeps its value.
Silent(f, k) == f.kind = "delta" /\ f.map[k] = 0 /\ k \notin f.removed
\* Rebuilding the slice from this message leaves nothing of the map that was shown.
Refreshes(m, s) == ~(m.fields[s].kind = "absent" /\ m.narrowed /\ s \in Scopable \ m.shipped)

\* What the i-th message under way says of a key; before the first, what the window holds.
Said(w, held, s, k, i) == IF i = 0 THEN held ELSE w[i].fields[s].map[k]
\* The value of a key in the shared baseline, and on a window.
Base(s, k) == IF baseline[s] = NoMap THEN 0 ELSE baseline[s][k]
ShownAt(c, s, k) == IF last[c][s] = NoMap THEN 0 ELSE last[c][s][k]

Follows(c, s) == link[c] = "joined" /\ scope[c].declared /\ s \in Reads(c)

\* Types.
Scope == [declared : BOOLEAN, projects : SUBSET Projects, slices : SUBSET Scopable]
FieldOK(f) == f \in Field /\ (f.kind = "absent" => f.map = Empty)
MessageOK(m) == m \in Message /\ \A s \in Slices : FieldOK(m.fields[s])
AllOK(w) == \A i \in 1..Len(w) : MessageOK(w[i])
Shapes ==
  /\ graph \in [Slices -> Map]
  /\ clock \in Nat
  /\ baseline \in [Slices -> Map \cup {NoMap}]
  /\ scope \in [Clients -> Scope]
  /\ link \in [Clients -> {"closed", "open", "joined"}]
  /\ wire \in [Clients -> Seq(Message)]
  /\ \A c \in Clients : AllOK(wire[c])
  /\ shadow \in [Clients -> [Slices -> Map]]
  /\ last \in [Clients -> [Slices -> Map \cup {NoMap}]]
  /\ ahead \in [Clients -> SUBSET (Slices \X Keys)]

\* Values are ordered: what is shown, what is held, and what the messages say.
Ordered(w, held, shown, s, k, g, top) ==
  /\ g <= top
  /\ \A i \in 0..Len(w) : Said(w, held, s, k, i) <= top /\ (g # 0 => Said(w, held, s, k, i) <= g)
  /\ shown <= top /\ (g # 0 => shown <= g)
  /\ \A i, j \in 0..Len(w) : i < j /\ Said(w, held, s, k, j) # 0
        => Said(w, held, s, k, i) <= Said(w, held, s, k, j)
  /\ \A j \in 0..Len(w) : Said(w, held, s, k, j) # 0 => shown <= Said(w, held, s, k, j)
AllOrdered ==
  \A c \in Clients, s \in Slices, k \in Keys :
    Ordered(wire[c], shadow[c][s][k], ShownAt(c, s, k), s, k, graph[s][k], clock)

\* After the messages under way the window shows v.
Ends(w, held, shown, s, k, v) ==
  \E i \in 0..Len(w) :
    /\ Said(w, held, s, k, i) = v /\ (i = 0 => shown = v)
    /\ \A j \in (i + 1)..Len(w) : Silent(w[j].fields[s], k)
\* The baseline lags behind the graph, but never holds an older value when nothing is due.
BaseOK ==
  \A s \in Slices, k \in Keys :
    /\ graph[s][k] <= clock /\ Base(s, k) <= clock
    /\ ~dirty => Base(s, k) \in {0, graph[s][k]}
\* What is under way leads to the current value, unless a broadcast is due that will say it.
AllCurrent ==
  \A c \in Clients, s \in Slices, k \in Keys :
    Follows(c, s) /\ k \in Draws(c) /\ graph[s][k] # 0 /\ (~dirty \/ Base(s, k) = graph[s][k])
      => Ends(wire[c], shadow[c][s][k], ShownAt(c, s, k), s, k, graph[s][k])

\* The last message says the current value, or is silent because the window was told before,
\* or nobody has told the window yet.
Unheard(w, held, shown, s, k, v) ==
  shown # v /\ \A i \in 0..Len(w) : Said(w, held, s, k, i) # v
LastWord(c, s, k, g) ==
  LET f == wire[c][Len(wire[c])].fields[s]
  IN \/ f.map[k] = g
     \/ Silent(f, k) /\ Base(s, k) = g
     \/ Unheard(wire[c], shadow[c][s][k], ShownAt(c, s, k), s, k, g)
AllSteady ==
  \A c \in Clients, s \in Slices, k \in Keys :
    Follows(c, s) /\ k \in Draws(c) /\ graph[s][k] # 0 /\ wire[c] # <<>>
      => LastWord(c, s, k, graph[s][k])

\* A window that is up to date shows the map that the next delta applies to.
HeldIsShown ==
  \A c \in Clients, s \in Slices :
    Follows(c, s) =>
      IF wire[c] = <<>> THEN \A k \in Keys : ShownAt(c, s, k) = shadow[c][s][k]
      ELSE Refreshes(wire[c][Len(wire[c])], s)

\* A key that the messages under way leave on the window is in the baseline, so that its
\* removal will be announced, or was shown ahead of it.
Lingers(w, held, s, k, i) ==
  /\ Said(w, held, s, k, i) # 0
  /\ \A j \in (i + 1)..Len(w) : Silent(w[j].fields[s], k)
AllAccounted ==
  \A c \in Clients, s \in Slices, k \in Keys :
    link[c] = "joined" =>
      \A i \in 0..Len(wire[c]) :
        Lingers(wire[c], shadow[c][s][k], s, k, i) =>
          \/ <<s, k>> \in ahead[c]
          \/ Base(s, k) # 0
          \/ baseline[s] = NoMap /\ (dirty \/ Said(wire[c], shadow[c][s][k], s, k, i) = graph[s][k])

\* ---- maps and fields ----
LEMMA MapsAreThere ==
  ASSUME NEW m \in Map, NEW k \in Keys
  PROVE  m # NoMap /\ m[k] \in Nat
<1>1. DOMAIN m = Keys /\ m[k] \in Nat
  BY DEF Map
<1>2. DOMAIN NoMap = {}
  BY DEF NoMap
<1> QED
  BY <1>1, <1>2

LEMMA EmptyFacts == Empty \in Map /\ \A k \in Keys : Empty[k] = 0
BY DEF Empty, Map

LEMMA DiffIsAField ==
  ASSUME NEW prev \in Map \cup {NoMap}, NEW next \in Map \cup {NoMap}
  PROVE  FieldOK(Diff(prev, next))
<1> DEFINE changed == {j \in Live(next) : next[j] # prev[j]}
           part == [j \in Keys |-> IF j \in changed THEN next[j] ELSE 0]
           removed == Live(prev) \ Live(next)
<1>1. CASE next = NoMap
  BY <1>1, EmptyFacts DEF Diff, Whole, Absent, FieldOK, Field
<1>2. CASE next # NoMap /\ (prev = NoMap \/ 2 * Cardinality(changed) > Cardinality(Live(next)))
  <2>1. Diff(prev, next) = [kind |-> "whole", map |-> next, removed |-> {}]
    BY <1>2 DEF Diff, Whole
  <2> QED
    BY <1>2, <2>1 DEF FieldOK, Field
<1>3. CASE next # NoMap /\ prev # NoMap /\ ~(2 * Cardinality(changed) > Cardinality(Live(next)))
  <2>1. Diff(prev, next) = [kind |-> "delta", map |-> part, removed |-> removed]
    BY <1>3 DEF Diff
  <2>2. part \in Map /\ removed \in SUBSET Keys
    BY <1>3 DEF Map, Live
  <2> HIDE DEF part, removed
  <2> QED
    BY <2>1, <2>2 DEF FieldOK, Field
<1> QED
  BY <1>1, <1>2, <1>3

\* What diffKeyedSlice() says of a key.
LEMMA DiffFacts ==
  ASSUME NEW prev \in Map \cup {NoMap}, NEW next \in Map \cup {NoMap}, NEW k \in Keys
  PROVE  LET f == Diff(prev, next)
         IN /\ FieldOK(f)
            /\ \/ f.kind = "absent" /\ next = NoMap
               \/ Silent(f, k) /\ prev # NoMap /\ next # NoMap /\ prev[k] = next[k]
               \/ f.kind # "absent" /\ ~Silent(f, k) /\ next # NoMap /\ f.map[k] = next[k]
<1> DEFINE changed == {j \in Live(next) : next[j] # prev[j]}
           part == [j \in Keys |-> IF j \in changed THEN next[j] ELSE 0]
           removed == Live(prev) \ Live(next)
           f == Diff(prev, next)
<1>1. CASE next = NoMap
  <2>1. f = Absent
    BY <1>1 DEF Diff, Whole
  <2> QED
    BY <1>1, <2>1, EmptyFacts DEF Absent, FieldOK, Field
<1>2. CASE next # NoMap /\ (prev = NoMap \/ 2 * Cardinality(changed) > Cardinality(Live(next)))
  <2>1. f = [kind |-> "whole", map |-> next, removed |-> {}]
    BY <1>2 DEF Diff, Whole
  <2> QED
    BY <1>2, <2>1 DEF FieldOK, Field, Silent
<1>3. CASE next # NoMap /\ prev # NoMap /\ ~(2 * Cardinality(changed) > Cardinality(Live(next)))
  <2>1. f = [kind |-> "delta", map |-> part, removed |-> removed]
    BY <1>3 DEF Diff
  <2>2. next \in Map /\ prev \in Map
    BY <1>3
  <2>3. part \in Map /\ removed \in SUBSET Keys
    BY <2>2 DEF Map, Live
  <2>4. FieldOK(f)
    <3> HIDE DEF part, removed
    <3> QED
      BY <2>1, <2>3 DEF FieldOK, Field
  <2>5. next[k] \in Nat /\ prev[k] \in Nat
    BY <2>2, MapsAreThere
  <2>6. CASE next[k] # 0 /\ next[k] # prev[k]
    <3>1. part[k] = next[k]
      BY <2>6 DEF Live
    <3> QED
      BY <1>3, <2>1, <2>4, <2>6, <3>1 DEF Silent
  <2>7. CASE next[k] # 0 /\ next[k] = prev[k]
    <3>1. part[k] = 0 /\ k \notin removed
      BY <2>7 DEF Live
    <3> QED
      BY <1>3, <2>1, <2>4, <2>7, <3>1 DEF Silent
  <2>8. CASE next[k] = 0
    <3>1. part[k] = 0 /\ (k \in removed <=> prev[k] # 0)
      BY <2>8 DEF Live
    <3> QED
      BY <1>3, <2>1, <2>4, <2>8, <3>1 DEF Silent
  <2> QED
    BY <2>6, <2>7, <2>8
<1> QED
  BY <1>1, <1>2, <1>3

\* What a full reply says of a key.
LEMMA WholeFacts ==
  ASSUME NEW next \in Map \cup {NoMap}, NEW k \in Keys
  PROVE  LET f == Whole(next)
         IN /\ FieldOK(f) /\ ~Silent(f, k)
            /\ \/ f.kind = "absent" /\ next = NoMap
               \/ f.kind # "absent" /\ next # NoMap /\ f.map[k] = next[k]
<1>1. CASE next = NoMap
  BY <1>1, EmptyFacts DEF Whole, Absent, FieldOK, Field, Silent
<1>2. CASE next # NoMap
  BY <1>2 DEF Whole, FieldOK, Field, Silent
<1> QED
  BY <1>1, <1>2

\* ---- one key of one slice of one window ----
\* The window reads m: it held and showed some value of the key, and holds and shows another.
Reading(m, s, k, held, shown, held2, shown2) ==
  LET f == m.fields[s]
  IN \/ Silent(f, k) /\ held2 = held /\ shown2 = held
     \/ ~Silent(f, k) /\ f.kind # "absent" /\ held2 = f.map[k] /\ shown2 = f.map[k]
     \/ f.kind = "absent" /\ held2 = 0 /\ shown2 \in {0, shown} /\ (Refreshes(m, s) => shown2 = 0)

LEMMA MessageFacts ==
  ASSUME NEW m, MessageOK(m), NEW s \in Slices, NEW k \in Keys
  PROVE  /\ m.fields[s].map[k] \in Nat
         /\ m.fields[s].kind = "absent" => m.fields[s].map[k] = 0
         /\ m.fields[s].kind \in {"absent", "whole", "delta"}
BY EmptyFacts DEF MessageOK, FieldOK, Field, Map

LEMMA RebuiltType ==
  ASSUME Shapes, NEW c \in Clients, NEW s \in Slices, NEW m, MessageOK(m)
  PROVE  /\ Rebuilt(c, s, m) \in Map \cup {NoMap}
         /\ NextShadow(c, m)[s] \in Map
         /\ NextLast(c, m)[s] \in Map \cup {NoMap}
<1> DEFINE f == m.fields[s]
<1>1. shadow[c][s] \in Map /\ last[c][s] \in Map \cup {NoMap}
  BY DEF Shapes
<1>2. f.kind \in {"absent", "whole", "delta"} /\ f.map \in Map
  BY DEF MessageOK, FieldOK, Field
<1>3. ApplyDelta(shadow[c][s], f) \in Map
  BY <1>1, <1>2 DEF ApplyDelta, Map
<1>4. Rebuilt(c, s, m) \in Map \cup {NoMap}
  BY <1>2, <1>3 DEF Rebuilt
<1> QED
  BY <1>1, <1>4, EmptyFacts DEF NextShadow, NextLast

LEMMA ReadingFacts ==
  ASSUME Shapes, NEW c \in Clients, NEW s \in Slices, NEW k \in Keys, NEW m, MessageOK(m)
  PROVE  Reading(m, s, k, shadow[c][s][k], ShownAt(c, s, k), NextShadow(c, m)[s][k],
                 IF NextLast(c, m)[s] = NoMap THEN 0 ELSE NextLast(c, m)[s][k])
<1> DEFINE f == m.fields[s]
           old == shadow[c][s]
           r == Rebuilt(c, s, m)
           keeps == m.narrowed /\ s \in Scopable \ m.shipped
<1>1. f.kind \in {"absent", "whole", "delta"} /\ f.map \in Map /\ old \in Map
  BY DEF MessageOK, FieldOK, Field, Shapes
<1>2. /\ NextShadow(c, m)[s] = IF r = NoMap THEN Empty ELSE r
      /\ NextLast(c, m)[s] = IF r = NoMap /\ keeps THEN last[c][s] ELSE r
  BY DEF NextShadow, NextLast
<1>3. CASE f.kind = "absent"
  <2>1. r = NoMap
    BY <1>3 DEF Rebuilt
  <2> QED
    BY <1>2, <1>3, <2>1, EmptyFacts DEF Reading, Silent, Refreshes, ShownAt
<1>4. CASE f.kind = "whole"
  <2>1. r = f.map /\ r # NoMap
    BY <1>1, <1>4, MapsAreThere DEF Rebuilt
  <2> QED
    BY <1>2, <1>4, <2>1 DEF Reading, Silent
<1>5. CASE f.kind = "delta"
  <2>1. r = ApplyDelta(old, f)
    BY <1>5 DEF Rebuilt
  <2>2. r \in Map /\ r[k] = IF f.map[k] # 0 THEN f.map[k] ELSE IF k \in f.removed THEN 0 ELSE old[k]
    BY <1>1, <2>1 DEF ApplyDelta, Map
  <2>3. r # NoMap
    BY <2>2, MapsAreThere
  <2>4. NextShadow(c, m)[s] = r /\ NextLast(c, m)[s] = r
    BY <1>2, <2>3
  <2> QED
    BY <1>5, <2>2, <2>3, <2>4 DEF Reading, Silent
<1> QED
  BY <1>1, <1>3, <1>4, <1>5

\* ---- what a message adds, and what reading takes away ----
LEMMA HeardOrdered ==
  ASSUME NEW w \in Seq(Message), AllOK(w), NEW m \in Message, MessageOK(m),
         NEW s \in Slices, NEW k \in Keys, NEW held \in Nat, NEW shown \in Nat,
         NEW g \in Nat, NEW top \in Nat,
         Ordered(w, held, shown, s, k, g, top), m.fields[s].map[k] \in {0, g}
  PROVE  Ordered(Append(w, m), held, shown, s, k, g, top)
<1> USE DEF AllOK
<1> DEFINE v == Append(w, m)
<1>1. /\ Len(v) = Len(w) + 1 /\ Len(w) \in Nat
      /\ \A i \in 1..Len(w) : v[i] = w[i]
      /\ v[Len(w) + 1] = m
  OBVIOUS
<1>2. \A i \in 0..Len(w) : Said(v, held, s, k, i) = Said(w, held, s, k, i) /\ Said(w, held, s, k, i) \in Nat
  BY <1>1, MessageFacts DEF Said
<1>3. Said(v, held, s, k, Len(w) + 1) \in {0, g}
  BY <1>1 DEF Said
<1> HIDE DEF v
<1>4. g <= top /\ shown <= top /\ (g # 0 => shown <= g)
  BY DEF Ordered
<1>5. \A i \in 0..Len(v) : Said(v, held, s, k, i) <= top /\ (g # 0 => Said(v, held, s, k, i) <= g)
  <2> SUFFICES ASSUME NEW i \in 0..Len(v)
               PROVE  Said(v, held, s, k, i) <= top /\ (g # 0 => Said(v, held, s, k, i) <= g)
    OBVIOUS
  <2>1. CASE i \in 0..Len(w)
    BY <1>2, <2>1 DEF Ordered
  <2>2. CASE i = Len(w) + 1
    BY <1>3, <1>4, <2>2
  <2> QED
    BY <1>1, <2>1, <2>2
<1>6. \A i, j \in 0..Len(v) : i < j /\ Said(v, held, s, k, j) # 0
         => Said(v, held, s, k, i) <= Said(v, held, s, k, j)
  <2> SUFFICES ASSUME NEW i \in 0..Len(v), NEW j \in 0..Len(v), i < j, Said(v, held, s, k, j) # 0
               PROVE  Said(v, held, s, k, i) <= Said(v, held, s, k, j)
    OBVIOUS
  <2>1. i \in 0..Len(w)
    BY <1>1
  <2>2. CASE j \in 0..Len(w)
    BY <1>2, <2>1, <2>2 DEF Ordered
  <2>3. CASE j = Len(w) + 1
    BY <1>3, <1>5, <2>3
  <2> QED
    BY <1>1, <2>2, <2>3
<1>7. \A j \in 0..Len(v) : Said(v, held, s, k, j) # 0 => shown <= Said(v, held, s, k, j)
  <2> SUFFICES ASSUME NEW j \in 0..Len(v), Said(v, held, s, k, j) # 0
               PROVE  shown <= Said(v, held, s, k, j)
    OBVIOUS
  <2>1. CASE j \in 0..Len(w)
    BY <1>2, <2>1 DEF Ordered
  <2>2. CASE j = Len(w) + 1
    BY <1>3, <1>4, <2>2
  <2> QED
    BY <1>1, <2>1, <2>2
<1> QED
  BY <1>4, <1>5, <1>6, <1>7 DEF Ordered, v

LEMMA ReadOrdered ==
  ASSUME NEW w \in Seq(Message), w # <<>>, AllOK(w),
         NEW s \in Slices, NEW k \in Keys, NEW held \in Nat, NEW shown \in Nat,
         NEW g \in Nat, NEW top \in Nat, NEW held2 \in Nat, NEW shown2 \in Nat,
         Ordered(w, held, shown, s, k, g, top),
         Reading(w[1], s, k, held, shown, held2, shown2)
  PROVE  /\ Ordered(Tail(w), held2, shown2, s, k, g, top)
         /\ shown2 # 0 => shown <= shown2
<1> USE DEF AllOK
<1> DEFINE v == Tail(w)
<1>1. /\ Len(w) \in Nat /\ Len(w) >= 1 /\ Len(v) = Len(w) - 1
      /\ \A i \in 1..Len(v) : v[i] = w[i + 1]
  OBVIOUS
<1>2. \A i \in 1..Len(v) : Said(v, held2, s, k, i) = Said(w, held, s, k, i + 1)
  BY <1>1 DEF Said
<1>3. \A i \in 0..Len(w) : Said(w, held, s, k, i) \in Nat
  BY <1>1, MessageFacts DEF Said
<1>4. /\ Said(w, held, s, k, 0) = held /\ Said(v, held2, s, k, 0) = held2
      /\ Said(w, held, s, k, 1) = w[1].fields[s].map[k]
  BY DEF Said
<1>5. \E i \in {0, 1} : held2 = Said(w, held, s, k, i) \/ held2 = 0
  BY <1>4 DEF Reading
<1>6. shown2 \in {0, shown, held2} /\ held2 \in Nat /\ shown2 \in Nat /\ (held2 # 0 => shown2 = held2)
  BY <1>3, <1>5 DEF Reading
<1> HIDE DEF v
<1>7. /\ held # 0 => shown <= held
      /\ Said(w, held, s, k, 1) # 0 => shown <= Said(w, held, s, k, 1) /\ held <= Said(w, held, s, k, 1)
      /\ g <= top /\ shown <= top /\ (g # 0 => shown <= g)
  BY <1>1, <1>4 DEF Ordered
<1>8. held2 <= top /\ (g # 0 => held2 <= g) /\ (held2 # 0 => shown <= held2)
  BY <1>1, <1>3, <1>4, <1>5, <1>7 DEF Ordered
<1>9. shown2 # 0 => shown <= shown2
  BY <1>6, <1>8
<1>10. \A i \in 0..Len(v) : Said(v, held2, s, k, i) <= top /\ (g # 0 => Said(v, held2, s, k, i) <= g)
  <2> SUFFICES ASSUME NEW i \in 0..Len(v)
               PROVE  Said(v, held2, s, k, i) <= top /\ (g # 0 => Said(v, held2, s, k, i) <= g)
    OBVIOUS
  <2>1. CASE i = 0
    BY <1>4, <1>8, <2>1
  <2>2. CASE i # 0
    BY <1>1, <1>2, <2>2 DEF Ordered
  <2> QED
    BY <2>1, <2>2
<1>11. \A j \in 1..Len(v) : Said(v, held2, s, k, j) # 0 => held2 <= Said(v, held2, s, k, j)
                                                           /\ shown <= Said(v, held2, s, k, j)
  <2> SUFFICES ASSUME NEW j \in 1..Len(v), Said(v, held2, s, k, j) # 0
               PROVE  held2 <= Said(v, held2, s, k, j) /\ shown <= Said(v, held2, s, k, j)
    OBVIOUS
  <2>1. /\ Said(v, held2, s, k, j) = Said(w, held, s, k, j + 1) /\ j + 1 \in 0..Len(w)
        /\ Said(w, held, s, k, j + 1) \in Nat
    BY <1>1, <1>2, <1>3
  <2>2. \A i \in {0, 1} : Said(w, held, s, k, i) <= Said(w, held, s, k, j + 1)
    BY <1>1, <2>1 DEF Ordered
  <2>3. shown <= Said(w, held, s, k, j + 1)
    BY <2>1 DEF Ordered
  <2> QED
    BY <1>5, <2>1, <2>2, <2>3
<1>12. \A i, j \in 0..Len(v) : i < j /\ Said(v, held2, s, k, j) # 0
          => Said(v, held2, s, k, i) <= Said(v, held2, s, k, j)
  <2> SUFFICES ASSUME NEW i \in 0..Len(v), NEW j \in 0..Len(v), i < j, Said(v, held2, s, k, j) # 0
               PROVE  Said(v, held2, s, k, i) <= Said(v, held2, s, k, j)
    OBVIOUS
  <2>1. CASE i = 0
    BY <1>1, <1>4, <1>11, <2>1
  <2>2. CASE i # 0
    BY <1>1, <1>2, <2>2 DEF Ordered
  <2> QED
    BY <2>1, <2>2
<1>13. \A j \in 0..Len(v) : Said(v, held2, s, k, j) # 0 => shown2 <= Said(v, held2, s, k, j)
  <2> SUFFICES ASSUME NEW j \in 0..Len(v), Said(v, held2, s, k, j) # 0
               PROVE  shown2 <= Said(v, held2, s, k, j)
    OBVIOUS
  <2>1. CASE j = 0
    BY <1>4, <1>6, <2>1
  <2>2. CASE j # 0
    <3>1. Said(v, held2, s, k, j) \in Nat
      BY <1>1, <1>2, <1>3, <2>2
    <3> QED
      BY <1>6, <1>11, <2>2, <3>1
  <2> QED
    BY <2>1, <2>2
<1>14. shown2 <= top /\ (g # 0 => shown2 <= g)
  BY <1>6, <1>7, <1>8
<1> QED
  BY <1>7, <1>9, <1>10, <1>12, <1>13, <1>14 DEF Ordered, v

\* ---- the messages of the server ----
LEMMA ScopedMapFacts ==
  ASSUME Shapes, NEW s \in Slices, NEW sc, NEW ever
  PROVE  /\ BroadcastMap(s, sc, ever) \in Map \cup {NoMap}
         /\ \A k \in Keys : BroadcastMap(s, sc, ever) # NoMap
              => BroadcastMap(s, sc, ever)[k] \in {0, graph[s][k]}
<1> DEFINE m == [k \in Keys |-> IF ProjectOf[k] \in EffectiveProjects(sc, ever) THEN graph[s][k] ELSE 0]
<1>1. m \in Map /\ \A k \in Keys : m[k] \in {0, graph[s][k]}
  BY DEF Shapes, Map
<1>2. BroadcastMap(s, sc, ever) \in {m, NoMap}
  BY DEF BroadcastMap
<1> HIDE DEF m
<1> QED
  BY <1>1, <1>2

\* Whatever the others declared, the maps that are sent hold what a declared window draws.
LEMMA DrawnIsSent ==
  ASSUME Shapes, NEW c \in Clients, NEW s \in Slices, NEW k \in Keys,
         NEW sc \in [Clients -> Scope], NEW ever,
         sc[c].declared, s \in Scopable => s \in sc[c].slices, ProjectOf[k] \in sc[c].projects,
         graph[s][k] # 0
  PROVE  BroadcastMap(s, sc, ever) # NoMap /\ BroadcastMap(s, sc, ever)[k] = graph[s][k]
<1> DEFINE m == [j \in Keys |-> IF ProjectOf[j] \in EffectiveProjects(sc, ever) THEN graph[s][j] ELSE 0]
<1>1. ProjectOf[k] \in EffectiveProjects(sc, ever)
  BY DEF EffectiveProjects, Declared
<1>2. m \in Map /\ m[k] = graph[s][k] /\ m[k] # 0
  BY <1>1 DEF Shapes, Map
<1>3. m # Empty /\ m # NoMap
  BY <1>2, EmptyFacts, MapsAreThere
<1>4. ~Stripped(s, sc)
  BY DEF Stripped, ShipSet, Declared
<1>5. BroadcastMap(s, sc, ever) = m
  BY <1>3, <1>4 DEF BroadcastMap
<1> HIDE DEF m
<1> QED
  BY <1>2, <1>3, <1>5

LEMMA SnapshotFacts ==
  ASSUME NEW fields, \A s \in Slices : FieldOK(fields[s]), fields = [s \in Slices |-> fields[s]],
         NEW sc \in [Clients -> Scope]
  PROVE  LET m == Snapshot(fields, sc)
         IN /\ m \in Message /\ MessageOK(m) /\ m.fields = fields
            /\ \A c \in Clients, s \in Slices :
                 sc[c].declared /\ (s \in Scopable => s \in sc[c].slices) => Refreshes(m, s)
<1> DEFINE m == Snapshot(fields, sc)
<1>1. m = [fields |-> fields, narrowed |-> Narrowed(sc), shipped |-> m.shipped]
      /\ m.shipped \in {ShipSet(sc), {}} /\ (m.narrowed => m.shipped = ShipSet(sc))
  BY DEF Snapshot
<1>2. ShipSet(sc) \subseteq Scopable
  BY DEF ShipSet, Declared, Scope
<1>3. Narrowed(sc) \in BOOLEAN
  BY DEF Narrowed
<1>4. m.fields = fields /\ fields \in [Slices -> Field]
  BY <1>1 DEF FieldOK
<1>5. \A c \in Clients, s \in Slices :
        sc[c].declared /\ (s \in Scopable => s \in sc[c].slices) /\ s \in Scopable => s \in ShipSet(sc)
  BY DEF ShipSet, Declared
<1> HIDE DEF m
<1>6. m \in Message
  BY <1>1, <1>2, <1>3, <1>4 DEF Message
<1>7. MessageOK(m)
  BY <1>4, <1>6 DEF MessageOK
<1> QED
  BY <1>1, <1>4, <1>5, <1>6, <1>7 DEF Refreshes, m

\* A reply says the value of every key it sends, and is silent about none.
LEMMA ReplyFacts ==
  ASSUME Shapes, NEW sc \in [Clients -> Scope], NEW ever
  PROVE  LET m == DirectReply(sc, ever)
         IN /\ m \in Message /\ MessageOK(m)
            /\ \A s \in Slices, k \in Keys :
                 /\ ~Silent(m.fields[s], k)
                 /\ \/ m.fields[s].kind = "absent" /\ BroadcastMap(s, sc, ever) = NoMap
                    \/ /\ m.fields[s].kind # "absent" /\ BroadcastMap(s, sc, ever) # NoMap
                       /\ m.fields[s].map[k] = BroadcastMap(s, sc, ever)[k]
            /\ \A c \in Clients, s \in Slices :
                 sc[c].declared /\ (s \in Scopable => s \in sc[c].slices) => Refreshes(m, s)
<1> DEFINE fields == [s \in Slices |-> Whole(BroadcastMap(s, sc, ever))]
           m == DirectReply(sc, ever)
<1>1. \A s \in Slices : BroadcastMap(s, sc, ever) \in Map \cup {NoMap}
  BY ScopedMapFacts
<1>2. \A s \in Slices : fields[s] = Whole(BroadcastMap(s, sc, ever))
  OBVIOUS
<1>3. \A s \in Slices : FieldOK(Whole(BroadcastMap(s, sc, ever)))
  <2> SUFFICES ASSUME NEW s \in Slices
               PROVE  FieldOK(Whole(BroadcastMap(s, sc, ever)))
    OBVIOUS
  <2>1. CASE BroadcastMap(s, sc, ever) = NoMap
    BY <2>1, EmptyFacts DEF Whole, Absent, FieldOK, Field
  <2>2. CASE BroadcastMap(s, sc, ever) # NoMap
    BY <1>1, <2>2 DEF Whole, FieldOK, Field
  <2> QED
    BY <2>1, <2>2
<1>4. m = Snapshot(fields, sc) /\ fields = [s \in Slices |-> fields[s]]
  BY DEF DirectReply
<1> HIDE DEF fields, m
<1>5. /\ m \in Message /\ MessageOK(m) /\ m.fields = fields
      /\ \A c \in Clients, s \in Slices :
           sc[c].declared /\ (s \in Scopable => s \in sc[c].slices) => Refreshes(m, s)
  BY <1>2, <1>3, <1>4, SnapshotFacts
<1>6. \A s \in Slices, k \in Keys :
        /\ ~Silent(m.fields[s], k)
        /\ \/ m.fields[s].kind = "absent" /\ BroadcastMap(s, sc, ever) = NoMap
           \/ /\ m.fields[s].kind # "absent" /\ BroadcastMap(s, sc, ever) # NoMap
              /\ m.fields[s].map[k] = BroadcastMap(s, sc, ever)[k]
  BY <1>1, <1>2, <1>5, WholeFacts
<1> QED
  BY <1>5, <1>6 DEF m

\* A broadcast is silent about the keys whose value is that of the baseline.
LEMMA BroadcastFacts ==
  ASSUME Shapes
  PROVE  LET m == Snapshot([s \in Slices |-> Encoded(s)], scope)
             Sent(s) == BroadcastMap(s, scope, everDeclared)
         IN /\ m \in Message /\ MessageOK(m)
            /\ \A s \in Slices : m.fields[s] = Encoded(s)
            /\ \A s \in Slices, k \in Keys :
                 \/ Encoded(s).kind = "absent" /\ Sent(s) = NoMap
                 \/ /\ Silent(Encoded(s), k)
                    /\ baseline[s] # NoMap /\ Sent(s) # NoMap /\ baseline[s][k] = Sent(s)[k]
                 \/ /\ Encoded(s).kind # "absent" /\ ~Silent(Encoded(s), k)
                    /\ Sent(s) # NoMap /\ Encoded(s).map[k] = Sent(s)[k]
            /\ \A c \in Clients, s \in Slices :
                 scope[c].declared /\ (s \in Scopable => s \in scope[c].slices) => Refreshes(m, s)
<1> DEFINE fields == [s \in Slices |-> Encoded(s)]
           m == Snapshot(fields, scope)
           Sent(s) == BroadcastMap(s, scope, everDeclared)
<1>1. \A s \in Slices : Sent(s) \in Map \cup {NoMap} /\ baseline[s] \in Map \cup {NoMap}
  BY ScopedMapFacts DEF Shapes
<1>2. \A s \in Slices : fields[s] = Encoded(s) /\ Encoded(s) = Diff(baseline[s], Sent(s))
  BY DEF Encoded
<1>3. scope \in [Clients -> Scope] /\ fields = [s \in Slices |-> fields[s]]
  BY DEF Shapes
<1> HIDE DEF fields, Sent
<1>4. \A s \in Slices : FieldOK(Encoded(s))
  <2> SUFFICES ASSUME NEW s \in Slices PROVE FieldOK(Encoded(s))
    OBVIOUS
  <2> QED
    BY <1>1, <1>2, DiffIsAField
<1>5. /\ m \in Message /\ MessageOK(m) /\ m.fields = fields
      /\ \A c \in Clients, s \in Slices :
           scope[c].declared /\ (s \in Scopable => s \in scope[c].slices) => Refreshes(m, s)
  <2> HIDE DEF m
  <2>1. m = Snapshot(fields, scope)
    BY DEF m
  <2> QED
    BY <1>2, <1>3, <1>4, <2>1, SnapshotFacts
<1>6. \A s \in Slices, k \in Keys :
        \/ Encoded(s).kind = "absent" /\ Sent(s) = NoMap
        \/ /\ Silent(Encoded(s), k)
           /\ baseline[s] # NoMap /\ Sent(s) # NoMap /\ baseline[s][k] = Sent(s)[k]
        \/ /\ Encoded(s).kind # "absent" /\ ~Silent(Encoded(s), k)
           /\ Sent(s) # NoMap /\ Encoded(s).map[k] = Sent(s)[k]
  BY <1>1, <1>2, DiffFacts
<1> QED
  BY <1>2, <1>5, <1>6 DEF m, Sent, fields

\* ---- what a step does to a window ----
ServerStill == UNCHANGED <<graph, clock, dirty, baseline>>
Untouched(c) ==
  /\ wire'[c] = wire[c] /\ shadow'[c] = shadow[c] /\ last'[c] = last[c]
  /\ link'[c] = link[c] /\ scope'[c] = scope[c] /\ ahead'[c] = ahead[c]
Opens(c) ==
  link'[c] = "open" /\ wire'[c] = wire[c] /\ shadow'[c] = shadow[c] /\ last'[c] = last[c]
Leaves(c) ==
  /\ link'[c] = "closed" /\ wire'[c] = <<>>
  /\ \/ shadow'[c] = shadow[c] /\ last'[c] = last[c]
     \/ shadow'[c] = [s \in Slices |-> Empty] /\ last'[c] = Blank
Takes(c) ==
  /\ wire[c] # <<>> /\ wire'[c] = Tail(wire[c])
  /\ shadow'[c] = NextShadow(c, wire[c][1]) /\ last'[c] = NextLast(c, wire[c][1])
  /\ link'[c] = link[c] /\ scope'[c] = scope[c] /\ ahead'[c] = ahead[c]
Hears(c, m) ==
  wire'[c] = Append(wire[c], m) /\ shadow'[c] = shadow[c] /\ last'[c] = last[c]
IsAnswered(c) ==
  /\ Hears(c, DirectReply(scope', everDeclared'))
  /\ link'[c] = "joined" /\ ahead'[c] = Unannounced(scope', everDeclared')
Moves(c) == Untouched(c) \/ Opens(c) \/ Leaves(c) \/ Takes(c) \/ IsAnswered(c)

LEMMA StepCases ==
  ASSUME Shapes, [Next]_vars
  PROVE  \/ \E s \in Slices, k \in Keys : Change(s, k)
         \/ Broadcast
         \/ ServerStill /\ \A c \in Clients : Moves(c)
<1> SUFFICES ASSUME \A s \in Slices, k \in Keys : ~Change(s, k), ~Broadcast
             PROVE  ServerStill /\ \A c \in Clients : Moves(c)
  OBVIOUS
<1>0. /\ link \in [Clients -> {"closed", "open", "joined"}]
      /\ wire = [c \in Clients |-> wire[c]] /\ shadow = [c \in Clients |-> shadow[c]]
      /\ last = [c \in Clients |-> last[c]] /\ scope = [c \in Clients |-> scope[c]]
      /\ ahead = [c \in Clients |-> ahead[c]]
  BY DEF Shapes
<1>1. CASE UNCHANGED vars
  BY <1>1 DEF vars, ServerStill, Moves, Untouched
<1>2. ASSUME NEW c \in Clients, Open(c) PROVE ServerStill /\ \A x \in Clients : Moves(x)
  <2>1. ServerStill
    BY <1>2 DEF Open, server, ServerStill
  <2>2. ASSUME NEW x \in Clients PROVE Moves(x)
    BY <1>0, <1>2 DEF Open, server, window, history, Moves, Untouched, Opens
  <2> QED
    BY <2>1, <2>2
<1>3. ASSUME NEW c \in Clients, Join(c) PROVE ServerStill /\ \A x \in Clients : Moves(x)
  <2>1. ServerStill /\ UNCHANGED <<scope, everDeclared, shadow, last>>
    BY <1>3 DEF Join, server, window, ServerStill
  <2>2. ASSUME NEW x \in Clients, x # c PROVE Untouched(x)
    BY <1>0, <1>3, <2>1, <2>2 DEF Join, Untouched
  <2>3. wire'[c] = Append(wire[c], DirectReply(scope, everDeclared))
    BY <1>0, <1>3 DEF Join
  <2>4. link'[c] = "joined" /\ ahead'[c] = Unannounced(scope, everDeclared)
    BY <1>0, <1>3 DEF Join
  <2>5. IsAnswered(c)
    BY <2>1, <2>3, <2>4 DEF ServerStill, IsAnswered, Hears
  <2> QED
    BY <2>1, <2>2, <2>5 DEF Moves
<1>4. ASSUME NEW c \in Clients, Drop(c) PROVE ServerStill /\ \A x \in Clients : Moves(x)
  <2>1. ServerStill
    BY <1>4 DEF Drop, ServerStill
  <2>2. ASSUME NEW x \in Clients, x # c PROVE Untouched(x)
    BY <1>0, <1>4, <2>2 DEF Drop, window, Untouched
  <2>3. Leaves(c)
    BY <1>0, <1>4 DEF Drop, window, Leaves
  <2> QED
    BY <2>1, <2>2, <2>3 DEF Moves
<1>5. ASSUME NEW c \in Clients, Deliver(c) PROVE ServerStill /\ \A x \in Clients : Moves(x)
  <2>1. ServerStill
    BY <1>5 DEF Deliver, server, ServerStill
  <2>2. ASSUME NEW x \in Clients, x # c PROVE Untouched(x)
    BY <1>0, <1>5, <2>2 DEF Deliver, server, history, Untouched
  <2>3. Takes(c)
    <3>1. wire[c] # <<>> /\ Head(wire[c]) = wire[c][1]
      BY <1>5 DEF Deliver, Shapes
    <3>2. UNCHANGED <<link, scope, ahead>>
      BY <1>5 DEF Deliver, server, history
    <3> QED
      BY <1>0, <1>5, <3>1, <3>2 DEF Deliver, Takes
  <2> QED
    BY <2>1, <2>2, <2>3 DEF Moves
<1>6. ASSUME NEW c \in Clients, NEW d \in Declarations(c), Declare(c, d)
      PROVE  ServerStill /\ \A x \in Clients : Moves(x)
  <2>1. ServerStill /\ everDeclared' = TRUE /\ UNCHANGED <<link, shadow, last>>
    BY <1>6 DEF Declare, window, ServerStill
  <2>2. ASSUME NEW x \in Clients, x # c PROVE Untouched(x)
    BY <1>0, <1>6, <2>1, <2>2 DEF Declare, Untouched
  <2>3. wire'[c] = Append(wire[c], DirectReply(scope', TRUE))
    BY <1>0, <1>6 DEF Declare
  <2>4. link'[c] = "joined" /\ ahead'[c] = Unannounced(scope', TRUE)
    BY <1>0, <1>6 DEF Declare
  <2>5. IsAnswered(c)
    BY <2>1, <2>3, <2>4 DEF IsAnswered, Hears
  <2> QED
    BY <2>1, <2>2, <2>5 DEF Moves
<1> QED
  BY <1>1, <1>2, <1>3, <1>4, <1>5, <1>6 DEF Next

LEMMA ScopesAreSets ==
  ASSUME NEW c \in Clients
  PROVE  NotDeclared \in Scope /\ Declarations(c) \subseteq Scope
<1>1. NotDeclared \in Scope
  BY DEF NotDeclared, Scope
<1>2. ASSUME NEW d \in Declarations(c) PROVE d \in Scope
  <2>1. \E p \in Projects, ss \in SUBSET Scopable :
           d = [declared |-> TRUE, projects |-> {p}, slices |-> ss]
    BY <1>2 DEF Declarations
  <2> QED
    BY <2>1 DEF Scope
<1> QED
  BY <1>1, <1>2

LEMMA WireStep ==
  ASSUME NEW w \in Seq(Message), AllOK(w)
  PROVE  /\ w # <<>> => Tail(w) \in Seq(Message) /\ AllOK(Tail(w))
         /\ \A m \in Message : MessageOK(m) =>
              Append(w, m) \in Seq(Message) /\ AllOK(Append(w, m))
<1> USE DEF AllOK
<1>1. ASSUME w # <<>>
      PROVE  Tail(w) \in Seq(Message) /\ AllOK(Tail(w))
  <2>1. Len(Tail(w)) = Len(w) - 1 /\ Tail(w) \in Seq(Message) /\ Len(w) \in Nat
    BY <1>1
  <2>2. \A i \in 1..Len(Tail(w)) : Tail(w)[i] = w[i + 1] /\ i + 1 \in 1..Len(w)
    BY <1>1, <2>1
  <2> QED
    BY <2>1, <2>2
<1>2. ASSUME NEW m \in Message, MessageOK(m)
      PROVE  /\ Append(w, m) \in Seq(Message)
             /\ AllOK(Append(w, m))
  <2>1. Len(Append(w, m)) = Len(w) + 1 /\ Append(w, m) \in Seq(Message) /\ Len(w) \in Nat
    OBVIOUS
  <2>2. \A i \in 1..Len(w) : Append(w, m)[i] = w[i]
    OBVIOUS
  <2>3. Append(w, m)[Len(w) + 1] = m
    OBVIOUS
  <2> QED
    BY <1>2, <2>1, <2>2, <2>3
<1> QED
  BY <1>1, <1>2

LEMMA HeardFromBroadcast ==
  ASSUME Shapes, Broadcast, NEW c \in Clients
  PROVE  LET m == Snapshot([s \in Slices |-> Encoded(s)], scope)
         IN /\ IF link[c] # "closed" THEN Hears(c, m)
               ELSE wire'[c] = wire[c] /\ shadow'[c] = shadow[c] /\ last'[c] = last[c]
            /\ link'[c] = link[c] /\ scope'[c] = scope[c]
BY DEF Broadcast, Listening, Hears, window

LEMMA ShapesInit == Init => Shapes
<1> SUFFICES ASSUME Init PROVE Shapes
  OBVIOUS
<1>1. Blank \in [Slices -> Map \cup {NoMap}] /\ [s \in Slices |-> Empty] \in [Slices -> Map]
  BY EmptyFacts DEF Blank
<1>2. scope \in [Clients -> Scope]
  BY ScopesAreSets DEF Init
<1>3. \A c \in Clients : wire[c] = <<>>
  BY DEF Init
<1>4. \A c \in Clients : AllOK(wire[c])
  BY <1>3 DEF AllOK
<1> QED
  BY <1>1, <1>2, <1>4 DEF Init, Shapes

LEMMA ShapesStep == Shapes /\ [Next]_vars => Shapes'
<1> SUFFICES ASSUME Shapes, [Next]_vars PROVE Shapes'
  OBVIOUS
<1>1. scope' \in [Clients -> Scope]
  <2>1. scope \in [Clients -> Scope]
    BY DEF Shapes
  <2>2. CASE UNCHANGED scope
    BY <2>1, <2>2
  <2>3. CASE \E c \in Clients : Drop(c)
    BY <2>1, <2>3, ScopesAreSets DEF Drop
  <2>4. CASE \E c \in Clients : \E d \in Declarations(c) : Declare(c, d)
    BY <2>1, <2>4, ScopesAreSets DEF Declare
  <2> QED
    BY <2>2, <2>3, <2>4 DEF Next, vars, Change, Broadcast, Open, Join, Deliver, server
<1>2. /\ link' \in [Clients -> {"closed", "open", "joined"}]
      /\ wire' = [c \in Clients |-> wire'[c]] /\ shadow' = [c \in Clients |-> shadow'[c]]
      /\ last' = [c \in Clients |-> last'[c]] /\ ahead' = [c \in Clients |-> ahead'[c]]
  BY DEF Shapes, Next, vars, Change, Broadcast, Open, Join, Deliver, Drop, Declare, server, window, history
<1>3. ahead' \in [Clients -> SUBSET (Slices \X Keys)]
  <2>1. ahead \in [Clients -> SUBSET (Slices \X Keys)]
    BY DEF Shapes
  <2>2. CASE UNCHANGED ahead
    BY <2>1, <2>2
  <2>3. CASE Broadcast
    BY <2>1, <2>3 DEF Broadcast
  <2>4. ASSUME NEW c \in Clients, NEW sc, NEW ever, ahead' = [ahead EXCEPT ![c] = Unannounced(sc, ever)]
        PROVE  ahead' \in [Clients -> SUBSET (Slices \X Keys)]
    <3>1. Unannounced(sc, ever) \in SUBSET (Slices \X Keys)
      BY DEF Unannounced
    <3> QED
      BY <2>1, <2>4, <3>1
  <2>5. CASE \E c \in Clients : Join(c)
    <3>1. PICK c \in Clients : Join(c)
      BY <2>5
    <3>2. ahead' = [ahead EXCEPT ![c] = Unannounced(scope, everDeclared)]
      BY <3>1 DEF Join
    <3> QED
      BY <2>4, <3>2
  <2>6. CASE \E c \in Clients : \E d \in Declarations(c) : Declare(c, d)
    BY <2>4, <2>6 DEF Declare
  <2>7. CASE \E c \in Clients : Drop(c)
    BY <2>1, <2>7 DEF Drop
  <2> QED
    BY <2>2, <2>3, <2>5, <2>6, <2>7 DEF Next, vars, Change, Open, Deliver, server, window, history
<1>4. graph' \in [Slices -> Map] /\ clock' \in Nat
  <2>1. graph \in [Slices -> Map] /\ clock \in Nat
    BY DEF Shapes
  <2>2. ASSUME NEW s \in Slices, NEW k \in Keys, Change(s, k)
        PROVE  graph' \in [Slices -> Map] /\ clock' \in Nat
    <3>1. \E v \in Nat : graph' = [graph EXCEPT ![s][k] = v]
      BY <2>1, <2>2 DEF Change
    <3> QED
      BY <2>1, <2>2, <3>1 DEF Change, Map
  <2>3. CASE UNCHANGED <<graph, clock>>
    BY <2>1, <2>3
  <2> QED
    BY <2>2, <2>3, StepCases DEF Broadcast, ServerStill
<1>5. baseline' \in [Slices -> Map \cup {NoMap}]
  <2>1. CASE Broadcast
    BY <2>1, ScopedMapFacts DEF Broadcast
  <2>2. CASE UNCHANGED baseline
    BY <2>2 DEF Shapes
  <2> QED
    BY <2>1, <2>2, StepCases DEF Change, ServerStill
<1>6. ASSUME NEW c \in Clients
      PROVE  /\ wire'[c] \in Seq(Message) /\ AllOK(wire'[c])
             /\ shadow'[c] \in [Slices -> Map] /\ last'[c] \in [Slices -> Map \cup {NoMap}]
  <2>1. /\ wire[c] \in Seq(Message) /\ AllOK(wire[c])
        /\ shadow[c] \in [Slices -> Map] /\ last[c] \in [Slices -> Map \cup {NoMap}]
    BY DEF Shapes
  <2>2. CASE wire'[c] = wire[c] /\ shadow'[c] = shadow[c] /\ last'[c] = last[c]
    BY <2>1, <2>2
  <2>3. ASSUME NEW m \in Message, MessageOK(m), Hears(c, m)
        PROVE  /\ wire'[c] \in Seq(Message) /\ AllOK(wire'[c])
               /\ shadow'[c] \in [Slices -> Map] /\ last'[c] \in [Slices -> Map \cup {NoMap}]
    BY <2>1, <2>3, WireStep DEF Hears
  <2>4. CASE Broadcast
    BY <2>2, <2>3, <2>4, BroadcastFacts, HeardFromBroadcast
  <2>5. CASE IsAnswered(c)
    BY <1>1, <2>3, <2>5, ReplyFacts DEF IsAnswered
  <2>6. CASE Leaves(c)
    <3>1. wire'[c] \in Seq(Message) /\ AllOK(wire'[c])
      BY <2>6 DEF Leaves, AllOK
    <3>2. Blank \in [Slices -> Map \cup {NoMap}] /\ [s \in Slices |-> Empty] \in [Slices -> Map]
      BY EmptyFacts DEF Blank
    <3> QED
      BY <2>1, <2>6, <3>1, <3>2 DEF Leaves
  <2>7. CASE Takes(c)
    <3>1. wire[c][1] \in Message /\ MessageOK(wire[c][1])
      BY <2>1, <2>7 DEF Takes, AllOK
    <3>2. NextShadow(c, wire[c][1]) \in [Slices -> Map]
      BY <3>1, RebuiltType DEF NextShadow
    <3>3. NextLast(c, wire[c][1]) \in [Slices -> Map \cup {NoMap}]
      BY <3>1, RebuiltType DEF NextLast
    <3> QED
      BY <2>1, <2>7, <3>2, <3>3, WireStep DEF Takes
  <2>8. CASE \E s \in Slices, k \in Keys : Change(s, k)
    BY <2>2, <2>8 DEF Change, window
  <2> QED
    BY <2>2, <2>4, <2>5, <2>6, <2>7, <2>8, StepCases DEF Moves, Untouched, Opens
<1>7. /\ wire' \in [Clients -> Seq(Message)]
      /\ \A c \in Clients : AllOK(wire'[c])
      /\ shadow' \in [Clients -> [Slices -> Map]]
      /\ last' \in [Clients -> [Slices -> Map \cup {NoMap}]]
  BY <1>2, <1>6
<1> QED
  BY <1>1, <1>2, <1>3, <1>4, <1>5, <1>7 DEF Shapes

\* ---- the values of a key before and after a step ----
LEMMA WindowValues ==
  ASSUME Shapes, NEW c \in Clients, NEW s \in Slices, NEW k \in Keys
  PROVE  /\ wire[c] \in Seq(Message) /\ AllOK(wire[c])
         /\ shadow[c][s][k] \in Nat /\ ShownAt(c, s, k) \in Nat
         /\ graph[s][k] \in Nat /\ clock \in Nat
<1>1. shadow[c][s] \in Map /\ last[c][s] \in Map \cup {NoMap} /\ graph[s] \in Map
  BY DEF Shapes
<1>2. ShownAt(c, s, k) \in Nat
  BY <1>1, MapsAreThere DEF ShownAt
<1> QED
  BY <1>1, <1>2, MapsAreThere DEF Shapes

LEMMA SameValues ==
  ASSUME NEW c \in Clients, NEW s \in Slices, NEW k \in Keys, shadow'[c] = shadow[c], last'[c] = last[c]
  PROVE  shadow'[c][s][k] = shadow[c][s][k] /\ ShownAt(c, s, k)' = ShownAt(c, s, k)
BY DEF ShownAt

LEMMA TakenValues ==
  ASSUME Shapes, NEW c \in Clients, NEW s \in Slices, NEW k \in Keys, Takes(c)
  PROVE  /\ Reading(wire[c][1], s, k, shadow[c][s][k], ShownAt(c, s, k),
                    shadow'[c][s][k], ShownAt(c, s, k)')
         /\ shadow'[c][s][k] \in Nat /\ ShownAt(c, s, k)' \in Nat
<1>1. wire[c][1] \in Message /\ MessageOK(wire[c][1])
  BY DEF Takes, Shapes, AllOK
<1>2. ShownAt(c, s, k)' = IF last'[c][s] = NoMap THEN 0 ELSE last'[c][s][k]
  BY DEF ShownAt
<1>3. NextShadow(c, wire[c][1])[s] \in Map /\ NextLast(c, wire[c][1])[s] \in Map \cup {NoMap}
  BY <1>1, RebuiltType
<1>4. shadow'[c][s][k] \in Nat /\ ShownAt(c, s, k)' \in Nat
  BY <1>2, <1>3, MapsAreThere DEF Takes
<1> QED
  BY <1>1, <1>2, <1>4, ReadingFacts DEF Takes

LEMMA LeftValues ==
  ASSUME NEW c \in Clients, NEW s \in Slices, NEW k \in Keys, Leaves(c)
  PROVE  \/ shadow'[c][s][k] = shadow[c][s][k] /\ ShownAt(c, s, k)' = ShownAt(c, s, k)
         \/ shadow'[c][s][k] = 0 /\ ShownAt(c, s, k)' = 0
<1>1. CASE shadow'[c] = shadow[c] /\ last'[c] = last[c]
  BY <1>1, SameValues
<1>2. CASE shadow'[c] = [x \in Slices |-> Empty] /\ last'[c] = Blank
  BY <1>2, EmptyFacts DEF ShownAt, Blank
<1> QED
  BY <1>1, <1>2 DEF Leaves

\* What a broadcast and a reply say of a key.
LEMMA BroadcastSays ==
  ASSUME Shapes, Broadcast, NEW s \in Slices, NEW k \in Keys
  PROVE  LET m == Snapshot([x \in Slices |-> Encoded(x)], scope)
         IN /\ m \in Message /\ MessageOK(m)
            /\ m.fields[s].map[k] \in {0, graph[s][k]} /\ Base(s, k)' \in {0, graph[s][k]}
            /\ \/ Silent(m.fields[s], k) /\ baseline[s] # NoMap /\ baseline'[s] # NoMap
                  /\ Base(s, k) = Base(s, k)'
               \/ /\ ~Silent(m.fields[s], k) /\ m.fields[s].map[k] = Base(s, k)'
                  /\ (m.fields[s].kind = "absent" => Base(s, k)' = 0)
            /\ \A c \in Clients :
                 /\ scope[c].declared /\ (s \in Scopable => s \in scope[c].slices) => Refreshes(m, s)
                 /\ /\ scope[c].declared /\ (s \in Scopable => s \in scope[c].slices)
                    /\ ProjectOf[k] \in scope[c].projects /\ graph[s][k] # 0
                    => Base(s, k)' = graph[s][k]
<1> DEFINE m == Snapshot([x \in Slices |-> Encoded(x)], scope)
           sent == BroadcastMap(s, scope, everDeclared)
<1>1. /\ m \in Message /\ MessageOK(m) /\ m.fields[s] = Encoded(s)
      /\ \/ Encoded(s).kind = "absent" /\ sent = NoMap
         \/ Silent(Encoded(s), k) /\ baseline[s] # NoMap /\ sent # NoMap /\ baseline[s][k] = sent[k]
         \/ /\ Encoded(s).kind # "absent" /\ ~Silent(Encoded(s), k)
            /\ sent # NoMap /\ Encoded(s).map[k] = sent[k]
      /\ \A c \in Clients :
           scope[c].declared /\ (s \in Scopable => s \in scope[c].slices) => Refreshes(m, s)
  BY BroadcastFacts
<1>2. baseline'[s] = sent
  BY DEF Broadcast
<1> HIDE DEF m, sent
<1>3. Base(s, k)' = IF sent = NoMap THEN 0 ELSE sent[k]
  BY <1>2 DEF Base
<1>4. sent # NoMap => sent[k] \in {0, graph[s][k]}
  BY ScopedMapFacts DEF sent
<1>5. /\ m.fields[s].kind = "absent" => m.fields[s].map[k] = 0
      /\ Silent(m.fields[s], k) => m.fields[s].map[k] = 0
  BY <1>1, MessageFacts DEF Silent
<1>6. m.fields[s].kind = "absent" => ~Silent(m.fields[s], k)
  BY DEF Silent
<1>7. \A c \in Clients :
         /\ scope[c].declared /\ (s \in Scopable => s \in scope[c].slices)
         /\ ProjectOf[k] \in scope[c].projects /\ graph[s][k] # 0
         => Base(s, k)' = graph[s][k]
  <2> SUFFICES ASSUME NEW c \in Clients, scope[c].declared, s \in Scopable => s \in scope[c].slices,
                      ProjectOf[k] \in scope[c].projects, graph[s][k] # 0
               PROVE  Base(s, k)' = graph[s][k]
    OBVIOUS
  <2>1. scope \in [Clients -> Scope]
    BY DEF Shapes
  <2> QED
    BY <1>3, <2>1, DrawnIsSent DEF sent
<1>8. Silent(m.fields[s], k) => baseline[s] # NoMap /\ sent # NoMap /\ Base(s, k) = Base(s, k)'
  BY <1>1, <1>3, <1>6 DEF Base
<1>9. ~Silent(m.fields[s], k) => m.fields[s].map[k] = Base(s, k)'
  BY <1>1, <1>3, <1>5
<1>10. m.fields[s].kind = "absent" => Base(s, k)' = 0
  BY <1>5, <1>6, <1>9
<1>11. m.fields[s].map[k] \in {0, graph[s][k]} /\ Base(s, k)' \in {0, graph[s][k]}
  BY <1>3, <1>4, <1>5, <1>9
<1>12. Silent(m.fields[s], k) => baseline'[s] # NoMap
  BY <1>2, <1>8
<1> QED
  BY <1>1, <1>7, <1>8, <1>9, <1>10, <1>11, <1>12 DEF m

LEMMA ReplySays ==
  ASSUME Shapes, scope' \in [Clients -> Scope], NEW s \in Slices, NEW k \in Keys
  PROVE  LET m == DirectReply(scope', everDeclared')
         IN /\ m \in Message /\ MessageOK(m)
            /\ ~Silent(m.fields[s], k)
            /\ m.fields[s].map[k] \in {0, graph[s][k]}
            /\ m.fields[s].map[k] # 0 => /\ BroadcastMap(s, scope', everDeclared') # NoMap
                                         /\ BroadcastMap(s, scope', everDeclared')[k] = m.fields[s].map[k]
            /\ \A c \in Clients :
                 /\ scope'[c].declared /\ (s \in Scopable => s \in scope'[c].slices) => Refreshes(m, s)
                 /\ /\ scope'[c].declared /\ (s \in Scopable => s \in scope'[c].slices)
                    /\ ProjectOf[k] \in scope'[c].projects /\ graph[s][k] # 0
                    => m.fields[s].map[k] = graph[s][k]
<1> DEFINE m == DirectReply(scope', everDeclared')
           sent == BroadcastMap(s, scope', everDeclared')
<1>1. /\ m \in Message /\ MessageOK(m) /\ ~Silent(m.fields[s], k)
      /\ \/ m.fields[s].kind = "absent" /\ sent = NoMap
         \/ m.fields[s].kind # "absent" /\ sent # NoMap /\ m.fields[s].map[k] = sent[k]
      /\ \A c \in Clients :
           scope'[c].declared /\ (s \in Scopable => s \in scope'[c].slices) => Refreshes(m, s)
  BY ReplyFacts
<1> HIDE DEF m, sent
<1>2. sent # NoMap => sent[k] \in {0, graph[s][k]}
  BY ScopedMapFacts DEF sent
<1>3. m.fields[s].kind = "absent" => m.fields[s].map[k] = 0
  BY <1>1, MessageFacts
<1>4. \A c \in Clients :
         /\ scope'[c].declared /\ (s \in Scopable => s \in scope'[c].slices)
         /\ ProjectOf[k] \in scope'[c].projects /\ graph[s][k] # 0
         => sent # NoMap /\ sent[k] = graph[s][k]
  BY DrawnIsSent DEF sent
<1> QED
  BY <1>1, <1>2, <1>3, <1>4 DEF m, sent

\* ---- values never go back ----
LEMMA GrownOrdered ==
  ASSUME NEW w \in Seq(Message), AllOK(w),
         NEW s \in Slices, NEW k \in Keys, NEW held \in Nat, NEW shown \in Nat,
         NEW g \in Nat, NEW top \in Nat, NEW g2 \in {g, top + 1, 0},
         Ordered(w, held, shown, s, k, g, top)
  PROVE  Ordered(w, held, shown, s, k, g2, top + 1)
<1> USE DEF AllOK
<1>1. \A i \in 0..Len(w) : Said(w, held, s, k, i) \in Nat
  BY MessageFacts DEF Said
<1> QED
  BY <1>1 DEF Ordered

LEMMA LeftOrdered ==
  ASSUME NEW w \in Seq(Message), NEW s \in Slices, NEW k \in Keys, NEW held \in Nat, NEW shown \in Nat,
         NEW g \in Nat, NEW top \in Nat, NEW held2, NEW shown2,
         Ordered(w, held, shown, s, k, g, top),
         (held2 = held /\ shown2 = shown) \/ (held2 = 0 /\ shown2 = 0)
  PROVE  Ordered(<<>>, held2, shown2, s, k, g, top)
<1>1. /\ g <= top /\ held <= top /\ shown <= top
      /\ g # 0 => held <= g /\ shown <= g
      /\ held # 0 => shown <= held
  <2>1. 0 \in 0..Len(w) /\ Said(w, held, s, k, 0) = held
    BY DEF Said
  <2> QED
    BY <2>1 DEF Ordered
<1>2. \A i \in 0..Len(<<>>) : i = 0 /\ Said(<<>>, held2, s, k, i) = held2
  BY DEF Said
<1> QED
  BY <1>1, <1>2 DEF Ordered

LEMMA OrderedInit == Init => AllOrdered
<1> SUFFICES ASSUME Init, NEW c \in Clients, NEW s \in Slices, NEW k \in Keys
             PROVE  Ordered(wire[c], shadow[c][s][k], ShownAt(c, s, k), s, k, graph[s][k], clock)
  BY DEF AllOrdered
<1>1. wire[c] = <<>> /\ shadow[c][s][k] = 0 /\ ShownAt(c, s, k) = 0 /\ graph[s][k] = 0 /\ clock = 0
  BY EmptyFacts DEF Init, ShownAt, Blank
<1>2. \A i \in 0..Len(<<>>) : i = 0 /\ Said(<<>>, 0, s, k, i) = 0
  BY DEF Said
<1> QED
  BY <1>1, <1>2 DEF Ordered

LEMMA GraphStep ==
  ASSUME Shapes, NEW x \in Slices, NEW y \in Keys, Change(x, y), NEW s \in Slices, NEW k \in Keys
  PROVE  /\ clock' = clock + 1 /\ dirty' = TRUE /\ baseline' = baseline /\ Base(s, k)' = Base(s, k)
         /\ graph'[s][k] \in {graph[s][k], clock + 1, 0}
         /\ \A c \in Clients : Untouched(c)
<1>1. graph[x] \in Map /\ graph \in [Slices -> Map]
  BY DEF Shapes
<1>2. \E v \in {clock + 1, 0} : graph' = [graph EXCEPT ![x][y] = v]
  BY DEF Change
<1>3. graph'[s][k] \in {graph[s][k], clock + 1, 0}
  BY <1>1, <1>2 DEF Map
<1> QED
  BY <1>3 DEF Change, Base, Untouched, window, history

LEMMA OrderedStep ==
  ASSUME Shapes, AllOrdered, [Next]_vars
  PROVE  /\ AllOrdered'
         /\ \A c \in Clients, s \in Slices, k \in Keys :
              ShownAt(c, s, k)' # 0 => ShownAt(c, s, k) <= ShownAt(c, s, k)'
<1> SUFFICES ASSUME NEW c \in Clients, NEW s \in Slices, NEW k \in Keys
             PROVE  /\ Ordered(wire'[c], shadow'[c][s][k], ShownAt(c, s, k)', s, k, graph'[s][k], clock')
                    /\ ShownAt(c, s, k)' # 0 => ShownAt(c, s, k) <= ShownAt(c, s, k)'
  BY DEF AllOrdered
<1> DEFINE Goal == /\ Ordered(wire'[c], shadow'[c][s][k], ShownAt(c, s, k)', s, k, graph'[s][k], clock')
                   /\ ShownAt(c, s, k)' # 0 => ShownAt(c, s, k) <= ShownAt(c, s, k)'
<1>1. /\ wire[c] \in Seq(Message) /\ AllOK(wire[c])
      /\ shadow[c][s][k] \in Nat /\ ShownAt(c, s, k) \in Nat /\ graph[s][k] \in Nat /\ clock \in Nat
  BY WindowValues
<1>2. Ordered(wire[c], shadow[c][s][k], ShownAt(c, s, k), s, k, graph[s][k], clock)
  BY DEF AllOrdered
<1>3. scope' \in [Clients -> Scope]
  BY ShapesStep DEF Shapes
<1>4. ASSUME NEW x \in Slices, NEW y \in Keys, Change(x, y) PROVE Goal
  <2>1. /\ clock' = clock + 1 /\ graph'[s][k] \in {graph[s][k], clock + 1, 0}
        /\ wire'[c] = wire[c] /\ shadow'[c] = shadow[c] /\ last'[c] = last[c]
    BY <1>4, GraphStep DEF Untouched
  <2>2. shadow'[c][s][k] = shadow[c][s][k] /\ ShownAt(c, s, k)' = ShownAt(c, s, k)
    BY <2>1, SameValues
  <2>3. Ordered(wire[c], shadow[c][s][k], ShownAt(c, s, k), s, k, graph'[s][k], clock + 1)
    BY <1>1, <1>2, <2>1, GrownOrdered
  <2> QED
    BY <1>1, <2>1, <2>2, <2>3
<1>5. ASSUME wire'[c] = wire[c], shadow'[c] = shadow[c], last'[c] = last[c], UNCHANGED <<graph, clock>>
      PROVE  Goal
  BY <1>1, <1>2, <1>5, SameValues
<1>6. ASSUME NEW m \in Message, MessageOK(m), m.fields[s].map[k] \in {0, graph[s][k]}, Hears(c, m),
             UNCHANGED <<graph, clock>>
      PROVE  Goal
  <2>1. wire'[c] = Append(wire[c], m) /\ shadow'[c] = shadow[c] /\ last'[c] = last[c]
    BY <1>6 DEF Hears
  <2>2. shadow'[c][s][k] = shadow[c][s][k] /\ ShownAt(c, s, k)' = ShownAt(c, s, k)
    BY <2>1, SameValues
  <2>3. Ordered(Append(wire[c], m), shadow[c][s][k], ShownAt(c, s, k), s, k, graph[s][k], clock)
    BY <1>1, <1>2, <1>6, HeardOrdered
  <2> QED
    BY <1>1, <1>6, <2>1, <2>2, <2>3
<1>7. CASE Broadcast
  <2>1. UNCHANGED <<graph, clock>>
    BY <1>7 DEF Broadcast
  <2> QED
    BY <1>5, <1>6, <1>7, <2>1, HeardFromBroadcast, BroadcastSays
<1>8. CASE ServerStill /\ Moves(c)
  <2>1. UNCHANGED <<graph, clock>>
    BY <1>8 DEF ServerStill
  <2>2. CASE Untouched(c) \/ Opens(c)
    BY <1>5, <2>1, <2>2 DEF Untouched, Opens
  <2>3. CASE Leaves(c)
    <3>1. wire'[c] = <<>>
      BY <2>3 DEF Leaves
    <3>2. \/ shadow'[c][s][k] = shadow[c][s][k] /\ ShownAt(c, s, k)' = ShownAt(c, s, k)
          \/ shadow'[c][s][k] = 0 /\ ShownAt(c, s, k)' = 0
      BY <2>3, LeftValues
    <3> QED
      BY <1>1, <1>2, <2>1, <3>1, <3>2, LeftOrdered
  <2>4. CASE Takes(c)
    <3>1. wire[c] # <<>> /\ wire'[c] = Tail(wire[c])
      BY <2>4 DEF Takes
    <3>2. /\ Reading(wire[c][1], s, k, shadow[c][s][k], ShownAt(c, s, k),
                     shadow'[c][s][k], ShownAt(c, s, k)')
          /\ shadow'[c][s][k] \in Nat /\ ShownAt(c, s, k)' \in Nat
      BY <2>4, TakenValues
    <3>3. /\ Ordered(Tail(wire[c]), shadow'[c][s][k], ShownAt(c, s, k)', s, k, graph[s][k], clock)
          /\ ShownAt(c, s, k)' # 0 => ShownAt(c, s, k) <= ShownAt(c, s, k)'
      <4> DEFINE w == wire[c]
                 held == shadow[c][s][k]
                 shown == ShownAt(c, s, k)
                 held2 == shadow'[c][s][k]
                 shown2 == ShownAt(c, s, k)'
                 g == graph[s][k]
      <4>1. /\ w \in Seq(Message) /\ w # <<>> /\ AllOK(w)
            /\ held \in Nat /\ shown \in Nat /\ g \in Nat /\ clock \in Nat
            /\ held2 \in Nat /\ shown2 \in Nat
        BY <1>1, <3>1, <3>2
      <4>2. Ordered(w, held, shown, s, k, g, clock)
        BY <1>2
      <4>3. Reading(w[1], s, k, held, shown, held2, shown2)
        BY <3>2
      <4> HIDE DEF w, held, shown, held2, shown2, g
      <4>4. Ordered(Tail(w), held2, shown2, s, k, g, clock) /\ (shown2 # 0 => shown <= shown2)
        BY <4>1, <4>2, <4>3, ReadOrdered
      <4> QED
        BY <4>4 DEF w, held, shown, held2, shown2, g
    <3> QED
      BY <2>1, <3>1, <3>3
  <2>5. CASE IsAnswered(c)
    BY <1>3, <1>6, <2>1, <2>5, ReplySays DEF IsAnswered
  <2> QED
    BY <1>8, <2>2, <2>3, <2>4, <2>5 DEF Moves
<1> QED
  BY <1>4, <1>7, <1>8, StepCases

\* ---- views are complete ----
LEMMA BaseInit == Init => BaseOK
<1> SUFFICES ASSUME Init, NEW s \in Slices, NEW k \in Keys
             PROVE  /\ graph[s][k] <= clock /\ Base(s, k) <= clock
                    /\ ~dirty => Base(s, k) \in {0, graph[s][k]}
  BY DEF BaseOK
<1>1. graph[s][k] = 0 /\ clock = 0 /\ Base(s, k) = 0
  BY EmptyFacts DEF Init, Base, Blank
<1> QED
  BY <1>1

LEMMA BaseStep ==
  ASSUME Shapes, BaseOK, [Next]_vars
  PROVE  BaseOK'
<1> SUFFICES ASSUME NEW s \in Slices, NEW k \in Keys
             PROVE  /\ graph'[s][k] <= clock' /\ Base(s, k)' <= clock'
                    /\ ~dirty' => Base(s, k)' \in {0, graph'[s][k]}
  BY DEF BaseOK
<1>1. /\ graph[s][k] <= clock /\ Base(s, k) <= clock
      /\ ~dirty => Base(s, k) \in {0, graph[s][k]}
  BY DEF BaseOK
<1>2. graph[s][k] \in Nat /\ Base(s, k) \in Nat /\ clock \in Nat
  <2>1. graph[s] \in Map /\ baseline[s] \in Map \cup {NoMap} /\ clock \in Nat
    BY DEF Shapes
  <2> QED
    BY <2>1, MapsAreThere DEF Base
<1>3. ASSUME NEW x \in Slices, NEW y \in Keys, Change(x, y)
      PROVE  /\ graph'[s][k] <= clock' /\ Base(s, k)' <= clock'
             /\ ~dirty' => Base(s, k)' \in {0, graph'[s][k]}
  <2>1. /\ clock' = clock + 1 /\ dirty' = TRUE /\ Base(s, k)' = Base(s, k)
        /\ graph'[s][k] \in {graph[s][k], clock + 1, 0}
    BY <1>3, GraphStep
  <2> QED
    BY <1>1, <1>2, <2>1
<1>4. CASE Broadcast
  <2>1. graph' = graph /\ clock' = clock
    BY <1>4 DEF Broadcast
  <2>2. Base(s, k)' \in {0, graph[s][k]}
    BY <1>4, BroadcastSays
  <2> QED
    BY <1>1, <1>2, <2>1, <2>2
<1>5. CASE ServerStill
  BY <1>1, <1>5 DEF ServerStill, Base
<1> QED
  BY <1>3, <1>4, <1>5, StepCases

LEMMA HeardEnds ==
  ASSUME NEW w \in Seq(Message), AllOK(w), NEW m \in Message, MessageOK(m),
         NEW s \in Slices, NEW k \in Keys, NEW held, NEW shown, NEW v,
         \/ m.fields[s].map[k] = v
         \/ Silent(m.fields[s], k) /\ Ends(w, held, shown, s, k, v)
  PROVE  Ends(Append(w, m), held, shown, s, k, v)
<1> USE DEF AllOK
<1> DEFINE u == Append(w, m)
<1>1. /\ Len(u) = Len(w) + 1 /\ Len(w) \in Nat
      /\ \A i \in 1..Len(w) : u[i] = w[i]
      /\ u[Len(w) + 1] = m
  OBVIOUS
<1> HIDE DEF u
<1>2. CASE m.fields[s].map[k] = v
  <2>1. /\ Len(u) \in 0..Len(u) /\ Len(u) # 0 /\ Said(u, held, s, k, Len(u)) = v
        /\ \A j \in (Len(u) + 1)..Len(u) : Silent(u[j].fields[s], k)
    BY <1>1, <1>2 DEF Said
  <2> QED
    BY <2>1 DEF Ends, u
<1>3. CASE Silent(m.fields[s], k) /\ Ends(w, held, shown, s, k, v)
  <2>1. PICK i \in 0..Len(w) :
           /\ Said(w, held, s, k, i) = v /\ (i = 0 => shown = v)
           /\ \A j \in (i + 1)..Len(w) : Silent(w[j].fields[s], k)
    BY <1>3 DEF Ends
  <2>2. i \in 0..Len(u) /\ Said(u, held, s, k, i) = v
    BY <1>1, <2>1 DEF Said
  <2>3. ASSUME NEW j \in (i + 1)..Len(u) PROVE Silent(u[j].fields[s], k)
    <3>1. CASE j \in 1..Len(w)
      BY <1>1, <2>1, <3>1
    <3>2. CASE j = Len(w) + 1
      BY <1>1, <1>3, <3>2
    <3> QED
      BY <1>1, <3>1, <3>2
  <2> QED
    BY <2>1, <2>2, <2>3 DEF Ends, u
<1> QED
  BY <1>2, <1>3

LEMMA ReadEnds ==
  ASSUME NEW w \in Seq(Message), w # <<>>, AllOK(w),
         NEW s \in Slices, NEW k \in Keys, NEW held, NEW shown, NEW held2, NEW shown2, NEW v, v # 0,
         Ends(w, held, shown, s, k, v),
         Reading(w[1], s, k, held, shown, held2, shown2)
  PROVE  Ends(Tail(w), held2, shown2, s, k, v)
<1> USE DEF AllOK
<1> DEFINE u == Tail(w)
<1>0. /\ Len(u) = Len(w) - 1 /\ Len(w) \in Nat /\ Len(w) >= 1
      /\ \A i \in 1..Len(u) : u[i] = w[i + 1]
  OBVIOUS
<1>1. /\ Len(u) = Len(w) - 1 /\ Len(w) \in Nat /\ Len(w) >= 1
      /\ \A i \in 1..Len(u) : u[i] = w[i + 1] /\ Said(u, held2, s, k, i) = Said(w, held, s, k, i + 1)
      /\ Said(w, held, s, k, 0) = held /\ Said(u, held2, s, k, 0) = held2
      /\ Said(w, held, s, k, 1) = w[1].fields[s].map[k]
  BY <1>0 DEF Said
<1> HIDE DEF u
<1>2. PICK i \in 0..Len(w) :
        /\ Said(w, held, s, k, i) = v /\ (i = 0 => shown = v)
        /\ \A j \in (i + 1)..Len(w) : Silent(w[j].fields[s], k)
  BY DEF Ends
<1>3. CASE i \in {0, 1}
  <2>1. held2 = v /\ shown2 = v
    <3>1. w[1].fields[s].kind = "absent" => w[1].fields[s].map[k] = 0
      BY <1>1, MessageFacts
    <3>2. Silent(w[1].fields[s], k) => w[1].fields[s].map[k] = 0 /\ w[1].fields[s].kind # "absent"
      BY DEF Silent
    <3>3. CASE i = 0
      <4>1. Silent(w[1].fields[s], k) /\ held = v
        BY <1>1, <1>2, <3>3
      <4> QED
        BY <3>2, <4>1 DEF Reading
    <3>4. CASE i = 1
      <4>1. w[1].fields[s].map[k] = v
        BY <1>1, <1>2, <3>4
      <4> QED
        BY <3>1, <3>2, <4>1 DEF Reading
    <3> QED
      BY <1>3, <3>3, <3>4
  <2>2. PICK z \in 0..Len(u) : z = 0
    BY <1>1
  <2>3. ASSUME NEW j \in (z + 1)..Len(u) PROVE Silent(u[j].fields[s], k)
    BY <1>1, <1>2, <1>3, <2>2
  <2>4. Said(u, held2, s, k, z) = v
    BY <1>1, <2>1, <2>2
  <2> QED
    BY <2>1, <2>3, <2>4 DEF Ends, u
<1>4. CASE i \notin {0, 1}
  <2>1. PICK p \in 1..Len(u) : i = p + 1
    <3>1. i - 1 \in 1..Len(u) /\ i = (i - 1) + 1
      BY <1>1, <1>2, <1>4
    <3> QED
      BY <3>1
  <2>2. Said(u, held2, s, k, p) = v /\ p \in 0..Len(u) /\ p # 0
    BY <1>1, <1>2, <2>1
  <2>3. ASSUME NEW j \in (p + 1)..Len(u) PROVE Silent(u[j].fields[s], k)
    BY <1>1, <1>2, <2>1
  <2> QED
    BY <2>2, <2>3 DEF Ends, u
<1> QED
  BY <1>3, <1>4

LEMMA CurrentInit == Init => AllCurrent
BY DEF Init, AllCurrent, Follows

LEMMA CurrentStep ==
  ASSUME Shapes, BaseOK, AllCurrent, [Next]_vars
  PROVE  AllCurrent'
<1> SUFFICES ASSUME NEW c \in Clients, NEW s \in Slices, NEW k \in Keys,
                    link'[c] = "joined", scope'[c].declared, s \in Scopable => s \in scope'[c].slices,
                    ProjectOf[k] \in scope'[c].projects, graph'[s][k] # 0,
                    ~dirty' \/ Base(s, k)' = graph'[s][k]
             PROVE  Ends(wire'[c], shadow'[c][s][k], ShownAt(c, s, k)', s, k, graph'[s][k])
  BY DEF AllCurrent, Follows, Reads, Draws
<1> DEFINE Wanted == /\ link[c] = "joined" /\ scope[c].declared /\ (s \in Scopable => s \in scope[c].slices)
                     /\ ProjectOf[k] \in scope[c].projects
           Before == Ends(wire[c], shadow[c][s][k], ShownAt(c, s, k), s, k, graph[s][k])
           Goal == Ends(wire'[c], shadow'[c][s][k], ShownAt(c, s, k)', s, k, graph'[s][k])
<1>1. /\ wire[c] \in Seq(Message) /\ AllOK(wire[c])
      /\ shadow[c][s][k] \in Nat /\ ShownAt(c, s, k) \in Nat /\ graph[s][k] \in Nat /\ clock \in Nat
  BY WindowValues
<1>2. Wanted /\ graph[s][k] # 0 /\ (~dirty \/ Base(s, k) = graph[s][k]) => Before
  BY DEF AllCurrent, Follows, Reads, Draws
<1>3. scope' \in [Clients -> Scope]
  BY ShapesStep DEF Shapes
<1>4. Base(s, k) <= clock
  BY DEF BaseOK
<1>5. ASSUME Before, wire'[c] = wire[c], shadow'[c] = shadow[c], last'[c] = last[c],
             graph'[s][k] = graph[s][k]
      PROVE  Goal
  BY <1>5, SameValues
<1>6. ASSUME NEW x \in Slices, NEW y \in Keys, Change(x, y) PROVE Goal
  <2>1. /\ clock' = clock + 1 /\ dirty' = TRUE /\ Base(s, k)' = Base(s, k)
        /\ graph'[s][k] \in {graph[s][k], clock + 1, 0}
        /\ Untouched(c)
    BY <1>6, GraphStep
  <2>2. graph'[s][k] = graph[s][k]
    <3>1. Base(s, k) = graph'[s][k]
      BY <2>1
    <3>2. clock + 1 # Base(s, k)
      BY <1>1, <1>4, <2>1, <3>1
    <3> QED
      BY <2>1, <3>1, <3>2
  <2>3. Wanted /\ Base(s, k) = graph[s][k]
    BY <2>1, <2>2 DEF Untouched
  <2>4. Before
    BY <1>2, <2>2, <2>3
  <2> QED
    BY <1>5, <2>1, <2>2, <2>4 DEF Untouched
<1>7. ASSUME NEW m \in Message, MessageOK(m), Hears(c, m), graph' = graph,
             m.fields[s].map[k] = graph[s][k] \/ (Silent(m.fields[s], k) /\ Before)
      PROVE  Goal
  <2>1. wire'[c] = Append(wire[c], m) /\ shadow'[c] = shadow[c] /\ last'[c] = last[c]
    BY <1>7 DEF Hears
  <2>2. shadow'[c][s][k] = shadow[c][s][k] /\ ShownAt(c, s, k)' = ShownAt(c, s, k)
    BY <2>1, SameValues
  <2>3. Ends(Append(wire[c], m), shadow[c][s][k], ShownAt(c, s, k), s, k, graph[s][k])
    BY <1>1, <1>7, HeardEnds
  <2> QED
    BY <1>7, <2>1, <2>2, <2>3
<1>8. CASE Broadcast
  <2> DEFINE m == Snapshot([x \in Slices |-> Encoded(x)], scope)
  <2>1. graph' = graph /\ link'[c] = link[c] /\ scope'[c] = scope[c] /\ Hears(c, m)
    BY <1>8, HeardFromBroadcast DEF Broadcast
  <2>2. /\ m \in Message /\ MessageOK(m)
        /\ \/ Silent(m.fields[s], k) /\ Base(s, k) = Base(s, k)'
           \/ m.fields[s].map[k] = Base(s, k)'
        /\ /\ scope[c].declared /\ (s \in Scopable => s \in scope[c].slices)
           /\ ProjectOf[k] \in scope[c].projects /\ graph[s][k] # 0
           => Base(s, k)' = graph[s][k]
    BY <1>8, BroadcastSays
  <2> HIDE DEF m
  <2>3. Wanted /\ graph[s][k] # 0 /\ Base(s, k)' = graph[s][k]
    BY <2>1, <2>2
  <2>4. m.fields[s].map[k] = graph[s][k] \/ (Silent(m.fields[s], k) /\ Before)
    BY <1>2, <2>2, <2>3
  <2> QED
    BY <1>7, <2>1, <2>2, <2>4
<1>9. CASE ServerStill /\ Moves(c)
  <2>1. graph' = graph /\ dirty' = dirty /\ Base(s, k)' = Base(s, k)
    BY <1>9 DEF ServerStill, Base
  <2>2. link'[c] = link[c] /\ scope'[c] = scope[c] => Before
    BY <1>2, <2>1
  <2>3. CASE Untouched(c)
    BY <1>5, <2>1, <2>2, <2>3 DEF Untouched
  <2>4. CASE Takes(c)
    <3>1. wire[c] # <<>> /\ wire'[c] = Tail(wire[c]) /\ Before
      BY <2>2, <2>4 DEF Takes
    <3>2. Reading(wire[c][1], s, k, shadow[c][s][k], ShownAt(c, s, k),
                  shadow'[c][s][k], ShownAt(c, s, k)')
      BY <2>4, TakenValues
    <3>3. Ends(Tail(wire[c]), shadow'[c][s][k], ShownAt(c, s, k)', s, k, graph[s][k])
      BY <1>1, <2>1, <3>1, <3>2, ReadEnds
    <3> QED
      BY <2>1, <3>1, <3>3
  <2>5. CASE IsAnswered(c)
    BY <1>3, <1>7, <2>1, <2>5, ReplySays DEF IsAnswered
  <2>6. ~Opens(c) /\ ~Leaves(c)
    BY DEF Opens, Leaves
  <2> QED
    BY <1>9, <2>3, <2>4, <2>5, <2>6 DEF Moves
<1> QED
  BY <1>6, <1>8, <1>9, StepCases

\* ---- live values stay ----
LEMMA HeardSteady ==
  ASSUME NEW w \in Seq(Message), NEW m \in Message
  PROVE  Append(w, m) # <<>> /\ Append(w, m)[Len(Append(w, m))] = m
OBVIOUS

LEMMA ReadUnheard ==
  ASSUME NEW w \in Seq(Message), w # <<>>, NEW s \in Slices, NEW k \in Keys,
         NEW held, NEW shown, NEW held2, NEW shown2, NEW v, v # 0,
         Unheard(w, held, shown, s, k, v),
         Reading(w[1], s, k, held, shown, held2, shown2)
  PROVE  Unheard(Tail(w), held2, shown2, s, k, v)
<1> DEFINE u == Tail(w)
<1>1. /\ Len(u) = Len(w) - 1 /\ Len(w) \in Nat /\ Len(w) >= 1
      /\ \A i \in 1..Len(u) : u[i] = w[i + 1]
  OBVIOUS
<1> HIDE DEF u
<1>2. shown # v /\ held # v /\ w[1].fields[s].map[k] # v
  <2>1. /\ 0 \in 0..Len(w) /\ Said(w, held, s, k, 0) = held
        /\ 1 \in 0..Len(w) /\ Said(w, held, s, k, 1) = w[1].fields[s].map[k]
    BY <1>1 DEF Said
  <2> QED
    BY <2>1 DEF Unheard
<1>3. held2 # v /\ shown2 # v
  BY <1>2 DEF Reading
<1>4. ASSUME NEW i \in 0..Len(u) PROVE Said(u, held2, s, k, i) # v
  <2>1. CASE i = 0
    BY <1>3, <2>1 DEF Said
  <2>2. CASE i # 0
    <3>1. i + 1 \in 0..Len(w) /\ Said(u, held2, s, k, i) = Said(w, held, s, k, i + 1)
      BY <1>1, <2>2 DEF Said
    <3> QED
      BY <3>1 DEF Unheard
  <2> QED
    BY <2>1, <2>2
<1> QED
  BY <1>3, <1>4 DEF Unheard, u

LEMMA SteadyInit == Init => AllSteady
BY DEF Init, AllSteady, Follows

LEMMA SteadyStep ==
  ASSUME Shapes, AllOrdered, AllSteady, [Next]_vars
  PROVE  AllSteady'
<1> SUFFICES ASSUME NEW c \in Clients, NEW s \in Slices, NEW k \in Keys,
                    link'[c] = "joined", scope'[c].declared, s \in Scopable => s \in scope'[c].slices,
                    ProjectOf[k] \in scope'[c].projects, graph'[s][k] # 0, wire'[c] # <<>>
             PROVE  \/ wire'[c][Len(wire'[c])].fields[s].map[k] = graph'[s][k]
                    \/ Silent(wire'[c][Len(wire'[c])].fields[s], k) /\ Base(s, k)' = graph'[s][k]
                    \/ Unheard(wire'[c], shadow'[c][s][k], ShownAt(c, s, k)', s, k, graph'[s][k])
  BY DEF AllSteady, LastWord, Follows, Reads, Draws
<1> DEFINE Wanted == /\ link[c] = "joined" /\ scope[c].declared /\ (s \in Scopable => s \in scope[c].slices)
                     /\ ProjectOf[k] \in scope[c].projects
           old == wire[c][Len(wire[c])].fields[s]
           new == wire'[c][Len(wire'[c])].fields[s]
           Goal == \/ new.map[k] = graph'[s][k]
                   \/ Silent(new, k) /\ Base(s, k)' = graph'[s][k]
                   \/ Unheard(wire'[c], shadow'[c][s][k], ShownAt(c, s, k)', s, k, graph'[s][k])
           Before == \/ old.map[k] = graph[s][k]
                     \/ Silent(old, k) /\ Base(s, k) = graph[s][k]
                     \/ Unheard(wire[c], shadow[c][s][k], ShownAt(c, s, k), s, k, graph[s][k])
<1>1. /\ wire[c] \in Seq(Message) /\ AllOK(wire[c])
      /\ shadow[c][s][k] \in Nat /\ ShownAt(c, s, k) \in Nat /\ graph[s][k] \in Nat /\ clock \in Nat
  BY WindowValues
<1>2. Wanted /\ graph[s][k] # 0 /\ wire[c] # <<>> => Before
  BY DEF AllSteady, LastWord, Follows, Reads, Draws
<1>3. scope' \in [Clients -> Scope]
  BY ShapesStep DEF Shapes
<1>4. Ordered(wire[c], shadow[c][s][k], ShownAt(c, s, k), s, k, graph[s][k], clock)
  BY DEF AllOrdered
<1>5. ASSUME Untouched(c), graph'[s][k] = graph[s][k], Base(s, k)' = Base(s, k)
      PROVE  Goal
  <2>1. wire'[c] = wire[c] /\ shadow'[c][s][k] = shadow[c][s][k] /\ ShownAt(c, s, k)' = ShownAt(c, s, k)
    BY <1>5, SameValues DEF Untouched
  <2>2. Before
    BY <1>2, <1>5 DEF Untouched
  <2> QED
    BY <1>5, <2>1, <2>2
<1>6. ASSUME NEW x \in Slices, NEW y \in Keys, Change(x, y) PROVE Goal
  <2>1. /\ clock' = clock + 1 /\ Base(s, k)' = Base(s, k)
        /\ graph'[s][k] \in {graph[s][k], clock + 1, 0}
        /\ Untouched(c)
    BY <1>6, GraphStep
  <2>2. CASE graph'[s][k] = graph[s][k]
    BY <1>5, <2>1, <2>2
  <2>3. CASE graph'[s][k] = clock + 1
    <3>1. wire'[c] = wire[c] /\ shadow'[c][s][k] = shadow[c][s][k] /\ ShownAt(c, s, k)' = ShownAt(c, s, k)
      BY <2>1, SameValues DEF Untouched
    <3>2. ShownAt(c, s, k) # clock + 1
      BY <1>1, <1>4 DEF Ordered
    <3>3. ASSUME NEW i \in 0..Len(wire[c]) PROVE Said(wire[c], shadow[c][s][k], s, k, i) # clock + 1
      <4>1. Said(wire[c], shadow[c][s][k], s, k, i) \in Nat
        BY <1>1, MessageFacts DEF Said, AllOK
      <4>2. Said(wire[c], shadow[c][s][k], s, k, i) <= clock
        BY <1>4 DEF Ordered
      <4> QED
        BY <1>1, <4>1, <4>2
    <3>4. Unheard(wire[c], shadow[c][s][k], ShownAt(c, s, k), s, k, clock + 1)
      BY <3>2, <3>3 DEF Unheard
    <3> QED
      BY <2>3, <3>1, <3>4
  <2> QED
    BY <2>1, <2>2, <2>3
<1>7. CASE Broadcast
  <2> DEFINE m == Snapshot([x \in Slices |-> Encoded(x)], scope)
  <2>1. graph' = graph /\ link'[c] = link[c] /\ scope'[c] = scope[c] /\ Hears(c, m)
    BY <1>7, HeardFromBroadcast DEF Broadcast
  <2>2. /\ m \in Message /\ MessageOK(m)
        /\ Silent(m.fields[s], k) \/ m.fields[s].map[k] = Base(s, k)'
        /\ /\ scope[c].declared /\ (s \in Scopable => s \in scope[c].slices)
           /\ ProjectOf[k] \in scope[c].projects /\ graph[s][k] # 0
           => Base(s, k)' = graph[s][k]
    BY <1>7, BroadcastSays
  <2> HIDE DEF m
  <2>3. new = m.fields[s]
    BY <1>1, <2>1, <2>2, HeardSteady DEF Hears
  <2>4. Base(s, k)' = graph[s][k]
    BY <2>1, <2>2
  <2> QED
    BY <2>1, <2>2, <2>3, <2>4
<1>8. CASE ServerStill /\ Moves(c)
  <2>1. graph' = graph /\ Base(s, k)' = Base(s, k)
    BY <1>8 DEF ServerStill, Base
  <2>2. CASE Untouched(c)
    BY <1>5, <2>1, <2>2
  <2>3. CASE Takes(c)
    <3>1. wire[c] # <<>> /\ wire'[c] = Tail(wire[c]) /\ Before
      BY <1>2, <2>1, <2>3 DEF Takes
    <3>2. Reading(wire[c][1], s, k, shadow[c][s][k], ShownAt(c, s, k),
                  shadow'[c][s][k], ShownAt(c, s, k)')
      BY <2>3, TakenValues
    <3>3. new = old
      <4>1. Tail(wire[c]) # <<>>
        BY <3>1
      <4> QED
        BY <1>1, <3>1, <4>1
    <3>4. ASSUME Unheard(wire[c], shadow[c][s][k], ShownAt(c, s, k), s, k, graph[s][k])
          PROVE  Unheard(Tail(wire[c]), shadow'[c][s][k], ShownAt(c, s, k)', s, k, graph[s][k])
      BY <1>1, <2>1, <3>1, <3>2, <3>4, ReadUnheard
    <3> QED
      BY <2>1, <3>1, <3>3, <3>4
  <2>4. CASE IsAnswered(c)
    <3> DEFINE m == DirectReply(scope', everDeclared')
    <3>1. m \in Message /\ m.fields[s].map[k] = graph[s][k]
      BY <1>3, <2>1, ReplySays
    <3>2. wire'[c] = Append(wire[c], m)
      BY <2>4 DEF IsAnswered, Hears
    <3> HIDE DEF m
    <3>3. new = m.fields[s]
      BY <1>1, <3>1, <3>2, HeardSteady
    <3> QED
      BY <2>1, <3>1, <3>3
  <2>5. ~Opens(c) /\ ~Leaves(c)
    BY DEF Opens, Leaves
  <2> QED
    BY <1>8, <2>2, <2>3, <2>4, <2>5 DEF Moves
<1> QED
  BY <1>6, <1>7, <1>8, StepCases

LEMMA LiveStep ==
  ASSUME Shapes, AllCurrent, AllSteady, [Next]_vars,
         NEW c \in Clients, link'[c] = "joined", scope[c].declared, Len(wire[c]) = 1,
         NEW s \in Reads(c), NEW k \in Draws(c), ShownAt(c, s, k) = graph[s][k], graph[s][k] # 0
  PROVE  ShownAt(c, s, k)' = ShownAt(c, s, k)
<1>0. s \in Slices /\ k \in Keys /\ (s \in Scopable => s \in scope[c].slices)
  BY DEF Reads, Draws
<1>1. /\ wire[c] \in Seq(Message) /\ MessageOK(wire[c][1])
      /\ shadow[c][s][k] \in Nat /\ graph[s][k] \in Nat
  BY <1>0, WindowValues DEF AllOK
<1>2. last'[c] = last[c] \/ Takes(c)
  <2>1. CASE Broadcast
    BY <2>1 DEF Broadcast, window
  <2>2. CASE \E x \in Slices, y \in Keys : Change(x, y)
    BY <2>2 DEF Change, window
  <2> QED
    BY <2>1, <2>2, StepCases DEF Moves, Untouched, Opens, Leaves, IsAnswered, Hears
<1>3. CASE last'[c] = last[c]
  BY <1>3 DEF ShownAt
<1>4. CASE Takes(c)
  <2> DEFINE f == wire[c][1].fields[s]
  <2>1. link[c] = "joined" /\ wire[c] # <<>>
    BY <1>4 DEF Takes
  <2>2. Reading(wire[c][1], s, k, shadow[c][s][k], ShownAt(c, s, k),
                shadow'[c][s][k], ShownAt(c, s, k)')
    BY <1>0, <1>4, TakenValues
  <2>3. \/ f.map[k] = graph[s][k]
        \/ Silent(f, k) /\ Base(s, k) = graph[s][k]
        \/ Unheard(wire[c], shadow[c][s][k], ShownAt(c, s, k), s, k, graph[s][k])
    BY <1>0, <2>1 DEF AllSteady, LastWord, Follows
  <2>4. /\ f.kind = "absent" => f.map[k] = 0
        /\ Silent(f, k) => f.map[k] = 0
    BY <1>0, <1>1, MessageFacts DEF Silent
  <2>5. CASE f.map[k] = graph[s][k]
    BY <2>2, <2>4, <2>5 DEF Reading
  <2>6. CASE Silent(f, k) /\ Base(s, k) = graph[s][k]
    <3>1. Ends(wire[c], shadow[c][s][k], ShownAt(c, s, k), s, k, graph[s][k])
      BY <1>0, <2>1, <2>6 DEF AllCurrent, Follows
    <3>2. shadow[c][s][k] = graph[s][k]
      BY <2>4, <2>6, <3>1 DEF Ends, Said
    <3>3. f.kind # "absent"
      BY <2>6 DEF Silent
    <3> QED
      BY <2>2, <2>6, <3>2, <3>3 DEF Reading
  <2>7. ~Unheard(wire[c], shadow[c][s][k], ShownAt(c, s, k), s, k, graph[s][k])
    BY DEF Unheard
  <2> QED
    BY <2>3, <2>5, <2>6, <2>7
<1> QED
  BY <1>2, <1>3, <1>4

\* ---- what lingers is accounted for ----
LEMMA HeldInit == Init => HeldIsShown /\ AllAccounted
BY DEF Init, HeldIsShown, AllAccounted, Follows

LEMMA LastRead ==
  ASSUME NEW w \in Seq(Message), w # <<>>
  PROVE  Tail(w) = <<>> => Len(w) = 1
<1>1. Len(Tail(w)) = Len(w) - 1 /\ Len(w) \in Nat
  OBVIOUS
<1>2. Len(<<>>) = 0
  OBVIOUS
<1>3. ASSUME Tail(w) = <<>> PROVE Len(Tail(w)) = 0
  BY <1>2, <1>3, Zenon
<1>4. \A n \in Nat : n - 1 = 0 => n = 1
  OBVIOUS
<1> QED
  BY <1>1, <1>3, <1>4, Zenon

LEMMA HeldStep ==
  ASSUME Shapes, HeldIsShown, [Next]_vars
  PROVE  HeldIsShown'
<1> SUFFICES ASSUME NEW c \in Clients, NEW s \in Slices,
                    link'[c] = "joined", scope'[c].declared, s \in Scopable => s \in scope'[c].slices
             PROVE  IF wire'[c] = <<>> THEN \A k \in Keys : ShownAt(c, s, k)' = shadow'[c][s][k]
                    ELSE Refreshes(wire'[c][Len(wire'[c])], s)
  BY DEF HeldIsShown, Follows, Reads
<1> DEFINE Wanted == link[c] = "joined" /\ scope[c].declared /\ (s \in Scopable => s \in scope[c].slices)
           Goal == IF wire'[c] = <<>> THEN \A k \in Keys : ShownAt(c, s, k)' = shadow'[c][s][k]
                   ELSE Refreshes(wire'[c][Len(wire'[c])], s)
<1>1. wire[c] \in Seq(Message) /\ AllOK(wire[c])
  BY DEF Shapes
<1>2. Wanted => IF wire[c] = <<>> THEN \A k \in Keys : ShownAt(c, s, k) = shadow[c][s][k]
                ELSE Refreshes(wire[c][Len(wire[c])], s)
  BY DEF HeldIsShown, Follows, Reads
<1>3. scope' \in [Clients -> Scope]
  BY ShapesStep DEF Shapes
<1>4. CASE Untouched(c)
  <2>1. wire'[c] = wire[c] /\ shadow'[c] = shadow[c] /\ last'[c] = last[c] /\ Wanted
    BY <1>4 DEF Untouched
  <2>2. \A k \in Keys : shadow'[c][s][k] = shadow[c][s][k] /\ ShownAt(c, s, k)' = ShownAt(c, s, k)
    BY <2>1, SameValues
  <2> QED
    BY <1>2, <2>1, <2>2
<1>5. ASSUME NEW m \in Message, Refreshes(m, s), Hears(c, m)
      PROVE  Goal
  <2>1. wire'[c] # <<>> /\ wire'[c][Len(wire'[c])] = m
    BY <1>1, <1>5, HeardSteady DEF Hears
  <2> QED
    BY <1>5, <2>1
<1>6. ASSUME NEW x \in Slices, NEW y \in Keys, Change(x, y) PROVE Goal
  BY <1>4, <1>6 DEF Change, Untouched, window, history
<1>7. CASE Broadcast
  <2> DEFINE m == Snapshot([x \in Slices |-> Encoded(x)], scope)
  <2>1. link'[c] = link[c] /\ scope'[c] = scope[c] /\ Hears(c, m)
    BY <1>7, HeardFromBroadcast
  <2>2. m \in Message /\ Refreshes(m, s)
    BY <2>1, BroadcastFacts
  <2> HIDE DEF m
  <2> QED
    BY <1>5, <2>1, <2>2
<1>8. CASE Takes(c)
  <2>1. wire[c] # <<>> /\ wire'[c] = Tail(wire[c]) /\ Wanted
    BY <1>8 DEF Takes
  <2>2. Refreshes(wire[c][Len(wire[c])], s)
    BY <1>2, <2>1
  <2>3. CASE wire'[c] = <<>>
    <3>1. Len(wire[c]) = 1
      <4>1. Tail(wire[c]) = <<>>
        BY <2>1, <2>3
      <4> QED
        BY <1>1, <2>1, <4>1, LastRead
    <3>2. Refreshes(wire[c][1], s)
      BY <2>2, <3>1
    <3>3. ASSUME NEW k \in Keys PROVE ShownAt(c, s, k)' = shadow'[c][s][k]
      <4>1. Reading(wire[c][1], s, k, shadow[c][s][k], ShownAt(c, s, k),
                    shadow'[c][s][k], ShownAt(c, s, k)')
        BY <1>8, TakenValues
      <4> QED
        BY <3>2, <4>1 DEF Reading
    <3> QED
      BY <2>3, <3>3
  <2>4. CASE wire'[c] # <<>>
    <3>1. wire'[c][Len(wire'[c])] = wire[c][Len(wire[c])]
      BY <1>1, <2>1, <2>4
    <3> QED
      BY <2>2, <2>4, <3>1
  <2> QED
    BY <2>3, <2>4
<1>9. CASE IsAnswered(c)
  <2> DEFINE m == DirectReply(scope', everDeclared')
  <2>1. m \in Message /\ Refreshes(m, s)
    BY <1>3, ReplyFacts
  <2>2. Hears(c, m)
    BY <1>9 DEF IsAnswered
  <2> HIDE DEF m
  <2> QED
    BY <1>5, <2>1, <2>2
<1>10. ~Opens(c) /\ ~Leaves(c)
  BY DEF Opens, Leaves
<1> QED
  BY <1>4, <1>6, <1>7, <1>8, <1>9, <1>10, StepCases DEF Moves

LEMMA HeardLingers ==
  ASSUME NEW w \in Seq(Message), NEW m \in Message, NEW s \in Slices, NEW k \in Keys, NEW held,
         NEW i \in 0..Len(Append(w, m)), Lingers(Append(w, m), held, s, k, i)
  PROVE  \/ m.fields[s].map[k] # 0 /\ Said(Append(w, m), held, s, k, i) = m.fields[s].map[k]
         \/ /\ i \in 0..Len(w) /\ Lingers(w, held, s, k, i) /\ Silent(m.fields[s], k)
            /\ Said(Append(w, m), held, s, k, i) = Said(w, held, s, k, i)
<1> DEFINE u == Append(w, m)
<1>1. /\ Len(u) = Len(w) + 1 /\ Len(w) \in Nat
      /\ \A j \in 1..Len(w) : u[j] = w[j]
      /\ u[Len(w) + 1] = m
  OBVIOUS
<1> HIDE DEF u
<1>2. Said(u, held, s, k, i) # 0 /\ \A j \in (i + 1)..Len(u) : Silent(u[j].fields[s], k)
  BY DEF Lingers, u
<1>3. i \in 0..Len(u)
  BY DEF u
<1>4. CASE i = Len(w) + 1
  BY <1>1, <1>2, <1>4 DEF Said, u
<1>5. CASE i \in 0..Len(w)
  <2>1. Said(u, held, s, k, i) = Said(w, held, s, k, i)
    BY <1>1, <1>5 DEF Said
  <2>2. Silent(m.fields[s], k)
    BY <1>1, <1>2, <1>5
  <2>3. ASSUME NEW j \in (i + 1)..Len(w) PROVE Silent(w[j].fields[s], k)
    <3>1. j \in (i + 1)..Len(u) /\ u[j] = w[j]
      BY <1>1, <1>5
    <3> QED
      BY <1>2, <3>1
  <2> QED
    BY <1>2, <1>5, <2>1, <2>2, <2>3 DEF Lingers, u
<1> QED
  BY <1>1, <1>3, <1>4, <1>5

LEMMA ReadLingers ==
  ASSUME NEW w \in Seq(Message), w # <<>>, NEW s \in Slices, NEW k \in Keys,
         NEW held \in Nat, NEW held2 \in Nat,
         held2 = IF Silent(w[1].fields[s], k) THEN held ELSE w[1].fields[s].map[k],
         NEW i \in 0..Len(Tail(w)), Lingers(Tail(w), held2, s, k, i)
  PROVE  \E j \in 0..Len(w) : /\ Lingers(w, held, s, k, j)
                              /\ Said(w, held, s, k, j) = Said(Tail(w), held2, s, k, i)
<1> DEFINE u == Tail(w)
<1>1. /\ Len(u) = Len(w) - 1 /\ Len(w) \in Nat /\ Len(w) >= 1
      /\ \A j \in 1..Len(u) : u[j] = w[j + 1]
  OBVIOUS
<1> HIDE DEF u
<1>2. /\ i \in 0..Len(u)
      /\ Said(u, held2, s, k, i) # 0 /\ \A j \in (i + 1)..Len(u) : Silent(u[j].fields[s], k)
  BY DEF Lingers, u
<1>3. ASSUME NEW j \in (i + 2)..Len(w) PROVE Silent(w[j].fields[s], k)
  <2>1. j - 1 \in (i + 1)..Len(u) /\ u[j - 1] = w[j]
    BY <1>1, <1>2
  <2> QED
    BY <1>2, <2>1
<1>4. CASE i # 0
  <2>1. PICK p \in 0..Len(w) : p = i + 1
    BY <1>1, <1>2
  <2>2. Said(w, held, s, k, p) = Said(u, held2, s, k, i)
    BY <1>1, <1>2, <1>4, <2>1 DEF Said
  <2>3. \A j \in (p + 1)..Len(w) : Silent(w[j].fields[s], k)
    BY <1>2, <1>3, <2>1
  <2> QED
    BY <1>2, <2>2, <2>3 DEF Lingers, u
<1>5. CASE i = 0 /\ Silent(w[1].fields[s], k)
  <2>1. PICK p \in 0..Len(w) : p = 0
    BY <1>1
  <2>2. Said(w, held, s, k, p) = Said(u, held2, s, k, i)
    <3>1. held2 = held
      BY <1>5
    <3> QED
      BY <1>5, <2>1, <3>1 DEF Said
  <2>3. \A j \in (p + 1)..Len(w) : Silent(w[j].fields[s], k)
    BY <1>1, <1>3, <1>5, <2>1
  <2> QED
    BY <1>2, <2>2, <2>3 DEF Lingers, u
<1>6. CASE i = 0 /\ ~Silent(w[1].fields[s], k)
  <2>1. PICK p \in 0..Len(w) : p = 1
    BY <1>1
  <2>2. held2 # 0 /\ held2 = w[1].fields[s].map[k]
    BY <1>2, <1>6 DEF Said
  <2>3. Said(w, held, s, k, p) = Said(u, held2, s, k, i)
    BY <1>6, <2>1, <2>2 DEF Said
  <2>4. \A j \in (p + 1)..Len(w) : Silent(w[j].fields[s], k)
    BY <1>3, <1>6, <2>1
  <2> QED
    BY <1>2, <2>3, <2>4 DEF Lingers, u
<1> QED
  BY <1>4, <1>5, <1>6

LEMMA AccountedStep ==
  ASSUME Shapes, AllAccounted, [Next]_vars
  PROVE  AllAccounted'
<1> SUFFICES ASSUME NEW c \in Clients, NEW s \in Slices, NEW k \in Keys, link'[c] = "joined",
                    NEW i \in 0..Len(wire'[c]), Lingers(wire'[c], shadow'[c][s][k], s, k, i)
             PROVE  \/ <<s, k>> \in ahead'[c]
                    \/ Base(s, k)' # 0
                    \/ /\ baseline'[s] = NoMap
                       /\ dirty' \/ Said(wire'[c], shadow'[c][s][k], s, k, i) = graph'[s][k]
  BY DEF AllAccounted
<1> DEFINE Goal == \/ <<s, k>> \in ahead'[c]
                   \/ Base(s, k)' # 0
                   \/ /\ baseline'[s] = NoMap
                      /\ dirty' \/ Said(wire'[c], shadow'[c][s][k], s, k, i) = graph'[s][k]
           Before(j) == \/ <<s, k>> \in ahead[c]
                        \/ Base(s, k) # 0
                        \/ /\ baseline[s] = NoMap
                           /\ dirty \/ Said(wire[c], shadow[c][s][k], s, k, j) = graph[s][k]
<1>1. /\ wire[c] \in Seq(Message) /\ AllOK(wire[c])
      /\ shadow[c][s][k] \in Nat /\ ShownAt(c, s, k) \in Nat /\ graph[s][k] \in Nat
      /\ graph' \in [Slices -> Map]
  BY WindowValues, ShapesStep DEF Shapes
<1>2. ASSUME link[c] = "joined", NEW j \in 0..Len(wire[c]), Lingers(wire[c], shadow[c][s][k], s, k, j)
      PROVE  Before(j)
  BY <1>2 DEF AllAccounted
<1>3. scope' \in [Clients -> Scope]
  BY ShapesStep DEF Shapes
<1>4. ASSUME NEW x \in Slices, NEW y \in Keys, Change(x, y) PROVE Goal
  <2>1. Untouched(c) /\ dirty' = TRUE /\ baseline' = baseline /\ Base(s, k)' = Base(s, k)
    BY <1>4, GraphStep
  <2>2. Before(i)
    BY <1>2, <2>1 DEF Untouched
  <2> QED
    BY <2>1, <2>2 DEF Untouched
<1>5. CASE Broadcast
  <2> DEFINE m == Snapshot([x \in Slices |-> Encoded(x)], scope)
  <2>1. link[c] = "joined" /\ Hears(c, m)
    BY <1>5, HeardFromBroadcast
  <2>2. /\ m \in Message /\ MessageOK(m) /\ m.fields[s] = Encoded(s)
        /\ \/ Silent(m.fields[s], k) /\ baseline[s] # NoMap /\ Base(s, k) = Base(s, k)'
           \/ ~Silent(m.fields[s], k) /\ m.fields[s].map[k] = Base(s, k)'
    BY <1>5, BroadcastSays, BroadcastFacts
  <2>3. <<s, k>> \in ahead[c] /\ Silent(m.fields[s], k) => <<s, k>> \in ahead'[c]
    BY <1>5, <2>2 DEF Broadcast, Silent
  <2> HIDE DEF m
  <2>4. wire'[c] = Append(wire[c], m) /\ shadow'[c] = shadow[c]
    BY <2>1 DEF Hears
  <2>5. \/ m.fields[s].map[k] # 0
        \/ i \in 0..Len(wire[c]) /\ Lingers(wire[c], shadow[c][s][k], s, k, i) /\ Silent(m.fields[s], k)
    BY <1>1, <2>2, <2>4, HeardLingers
  <2>6. CASE m.fields[s].map[k] # 0
    BY <2>2, <2>6 DEF Silent
  <2>7. CASE i \in 0..Len(wire[c]) /\ Lingers(wire[c], shadow[c][s][k], s, k, i) /\ Silent(m.fields[s], k)
    <3>1. Before(i)
      BY <1>2, <2>1, <2>7
    <3> QED
      BY <2>2, <2>3, <2>7, <3>1
  <2> QED
    BY <2>5, <2>6, <2>7
<1>6. CASE ServerStill /\ Moves(c)
  <2>1. graph' = graph /\ dirty' = dirty /\ baseline' = baseline /\ Base(s, k)' = Base(s, k)
    BY <1>6 DEF ServerStill, Base
  <2>2. CASE Untouched(c)
    <3>1. Before(i)
      BY <1>2, <2>2 DEF Untouched
    <3> QED
      BY <2>1, <2>2, <3>1 DEF Untouched
  <2>3. CASE Takes(c)
    <3>1. wire[c] # <<>> /\ wire'[c] = Tail(wire[c]) /\ link[c] = "joined" /\ ahead'[c] = ahead[c]
      BY <2>3 DEF Takes
    <3>2. Reading(wire[c][1], s, k, shadow[c][s][k], ShownAt(c, s, k),
                  shadow'[c][s][k], ShownAt(c, s, k)')
      BY <2>3, TakenValues
    <3>3. i \in 0..Len(Tail(wire[c])) /\ Lingers(Tail(wire[c]), shadow'[c][s][k], s, k, i)
      BY <3>1
    <3>4. PICK j \in 0..Len(wire[c]) :
             /\ Lingers(wire[c], shadow[c][s][k], s, k, j)
             /\ Said(wire[c], shadow[c][s][k], s, k, j) = Said(Tail(wire[c]), shadow'[c][s][k], s, k, i)
      <4>1. \E j \in 0..Len(wire[c]) :
               /\ Lingers(wire[c], shadow[c][s][k], s, k, j)
               /\ Said(wire[c], shadow[c][s][k], s, k, j) = Said(Tail(wire[c]), shadow'[c][s][k], s, k, i)
        <5>1. shadow'[c][s][k] = IF Silent(wire[c][1].fields[s], k) THEN shadow[c][s][k]
                                 ELSE wire[c][1].fields[s].map[k]
          <6>1. MessageOK(wire[c][1])
            BY <1>1, <3>1 DEF AllOK
          <6>2. wire[c][1].fields[s].kind = "absent" => wire[c][1].fields[s].map[k] = 0
            BY <6>1, MessageFacts
          <6> QED
            BY <3>2, <6>2 DEF Reading, Silent
        <5>2. shadow'[c][s][k] \in Nat
          BY <2>3, TakenValues
        <5>3. wire[c] \in Seq(Message) /\ wire[c] # <<>> /\ shadow[c][s][k] \in Nat
          BY <1>1, <3>1
        <5> QED
          BY <3>3, <5>1, <5>2, <5>3, ReadLingers
      <4> QED
        BY <4>1
    <3>5. Before(j)
      BY <1>2, <3>1, <3>4
    <3> QED
      BY <2>1, <3>1, <3>4, <3>5
  <2>4. CASE IsAnswered(c)
    <3> DEFINE m == DirectReply(scope', everDeclared')
               sent == BroadcastMap(s, scope', everDeclared')
    <3>1. /\ m \in Message /\ ~Silent(m.fields[s], k) /\ m.fields[s].map[k] \in {0, graph[s][k]}
          /\ m.fields[s].map[k] # 0 => sent # NoMap /\ sent[k] = m.fields[s].map[k]
      BY <1>3, ReplySays
    <3>2. wire'[c] = Append(wire[c], m) /\ shadow'[c] = shadow[c] /\ ahead'[c] = Unannounced(scope', everDeclared')
      BY <2>4 DEF IsAnswered, Hears
    <3>3. sent # NoMap /\ sent[k] # 0 /\ baseline[s] # NoMap /\ baseline[s][k] = 0 => <<s, k>> \in ahead'[c]
      BY <3>2 DEF Unannounced
    <3> HIDE DEF m, sent
    <3>4. m.fields[s].map[k] # 0 /\ Said(wire'[c], shadow'[c][s][k], s, k, i) = m.fields[s].map[k]
      BY <1>1, <3>1, <3>2, HeardLingers
    <3> QED
      BY <2>1, <3>1, <3>3, <3>4 DEF Base
  <2>5. ~Opens(c) /\ ~Leaves(c)
    BY DEF Opens, Leaves
  <2> QED
    BY <1>6, <2>2, <2>3, <2>4, <2>5 DEF Moves
<1> QED
  BY <1>4, <1>5, <1>6, StepCases

\* ---- the theorems ----
IInv == Shapes /\ AllOrdered /\ BaseOK /\ AllCurrent /\ AllSteady /\ HeldIsShown /\ AllAccounted

(* Between every window and the server, in every reachable state: the       *)
(* messages under way are ordered, end in the current values, and account   *)
(* for every key they leave behind.                                         *)
THEOREM SnapshotInvariance == Spec => []IInv
<1>1. Init => IInv
  BY ShapesInit, OrderedInit, BaseInit, CurrentInit, SteadyInit, HeldInit DEF IInv
<1>2. IInv /\ [Next]_vars => IInv'
  <2> SUFFICES ASSUME IInv, [Next]_vars PROVE IInv'
    OBVIOUS
  <2>1. Shapes /\ AllOrdered /\ BaseOK /\ AllCurrent /\ AllSteady /\ HeldIsShown /\ AllAccounted
    BY DEF IInv
  <2>2. Shapes' /\ AllOrdered'
    BY <2>1, ShapesStep, OrderedStep
  <2>3. BaseOK' /\ AllCurrent'
    BY <2>1, BaseStep, CurrentStep
  <2>4. AllSteady'
    BY <2>1, SteadyStep
  <2>5. HeldIsShown' /\ AllAccounted'
    BY <2>1, HeldStep, AccountedStep
  <2> QED
    BY <2>2, <2>3, <2>4, <2>5 DEF IInv
<1> QED
  BY <1>1, <1>2, PTL DEF Spec

LEMMA ShownValue ==
  ASSUME NEW c \in Clients, NEW s \in Slices, NEW k \in Keys
  PROVE  Shown(c, s)[k] = ShownAt(c, s, k)
BY EmptyFacts DEF Shown, ShownAt

(* A window with nothing under way shows the current value of every key it  *)
(* draws, however many windows share the baseline the deltas were cut for   *)
(* (BroadcastBus.broadcast(), useWebSocket.ts).                             *)
THEOREM CompleteViews == Spec => []ViewsAreComplete
<1>1. IInv => ViewsAreComplete
  <2> SUFFICES ASSUME IInv, NEW c \in Clients, Settled(c), NEW s \in Reads(c), NEW k \in Draws(c),
                      graph[s][k] # 0
               PROVE  Shown(c, s)[k] = graph[s][k]
    BY DEF ViewsAreComplete
  <2>1. s \in Slices /\ k \in Keys /\ Follows(c, s) /\ ~dirty /\ wire[c] = <<>>
    BY DEF Reads, Draws, Settled, Follows
  <2>2. Ends(wire[c], shadow[c][s][k], ShownAt(c, s, k), s, k, graph[s][k])
    BY <2>1 DEF IInv, AllCurrent
  <2>3. ShownAt(c, s, k) = graph[s][k]
    BY <2>1, <2>2 DEF Ends
  <2> QED
    BY <2>1, <2>3, ShownValue
<1> QED
  BY <1>1, SnapshotInvariance, PTL

(* A window with nothing under way still shows a removed key only if a full *)
(* reply had shown it ahead of any broadcast.                               *)
THEOREM LingeringKeys == Spec => []OnlyUnannouncedKeysLinger
<1>1. IInv => OnlyUnannouncedKeysLinger
  <2> SUFFICES ASSUME IInv, NEW c \in Clients, Settled(c), NEW s \in Reads(c), NEW k \in Draws(c),
                      Shown(c, s)[k] # 0, graph[s][k] = 0
               PROVE  <<s, k>> \in ahead[c]
    BY DEF OnlyUnannouncedKeysLinger
  <2>1. s \in Slices /\ k \in Keys /\ Follows(c, s) /\ link[c] = "joined" /\ ~dirty /\ wire[c] = <<>>
    BY DEF Reads, Draws, Settled, Follows
  <2>2. shadow[c][s][k] # 0
    <3>1. ShownAt(c, s, k) = shadow[c][s][k]
      BY <2>1 DEF IInv, HeldIsShown
    <3> QED
      BY <2>1, <3>1, ShownValue
  <2>3. PICK i \in 0..Len(wire[c]) : i = 0
    BY <2>1
  <2>4. Said(wire[c], shadow[c][s][k], s, k, i) = shadow[c][s][k]
    BY <2>3 DEF Said
  <2>5. Lingers(wire[c], shadow[c][s][k], s, k, i)
    BY <2>1, <2>2, <2>3, <2>4 DEF Lingers
  <2>6. \/ <<s, k>> \in ahead[c]
        \/ Base(s, k) # 0
        \/ /\ baseline[s] = NoMap
           /\ dirty \/ Said(wire[c], shadow[c][s][k], s, k, i) = graph[s][k]
    BY <2>1, <2>5 DEF IInv, AllAccounted
  <2>7. Base(s, k) = 0
    BY <2>1 DEF IInv, BaseOK
  <2> QED
    BY <2>1, <2>2, <2>4, <2>6, <2>7
<1> QED
  BY <1>1, SnapshotInvariance, PTL

(* No window ever replaces a value by an older one, whatever the deltas it   *)
(* gets are cut for and whatever it kept over a reconnection.               *)
THEOREM OrderedViews == Spec => ViewsNeverGoBack
<1>1. IInv /\ [Next]_vars =>
        [\A c \in Clients, s \in Slices, k \in Keys :
            Shown(c, s)'[k] # 0 => Shown(c, s)'[k] >= Shown(c, s)[k]]_vars
  <2> SUFFICES ASSUME IInv, [Next]_vars, NEW c \in Clients, NEW s \in Slices, NEW k \in Keys,
                      Shown(c, s)'[k] # 0
               PROVE  Shown(c, s)'[k] >= Shown(c, s)[k]
    OBVIOUS
  <2>1. Shown(c, s)[k] = ShownAt(c, s, k) /\ Shown(c, s)'[k] = ShownAt(c, s, k)'
    BY EmptyFacts DEF Shown, ShownAt
  <2>2. ShownAt(c, s, k)' # 0 => ShownAt(c, s, k) <= ShownAt(c, s, k)'
    BY OrderedStep DEF IInv
  <2> QED
    BY <2>1, <2>2
<1> QED
  BY <1>1, SnapshotInvariance, PTL DEF Spec, ViewsNeverGoBack

(* A value that a window shows, draws and reads stays while it is current:  *)
(* no message sent since the window's latest declaration takes it away.     *)
THEOREM SteadyViews == Spec => LiveValuesStay
<1>1. IInv /\ [Next]_vars =>
        [\A c \in Clients : link'[c] = "joined" /\ scope[c].declared /\ Len(wire[c]) = 1 =>
            \A s \in Reads(c), k \in Draws(c) :
                Shown(c, s)[k] = graph[s][k] /\ graph[s][k] # 0
                    => Shown(c, s)'[k] = Shown(c, s)[k]]_vars
  <2> SUFFICES ASSUME IInv, [Next]_vars, NEW c \in Clients, link'[c] = "joined", scope[c].declared,
                      Len(wire[c]) = 1, NEW s \in Reads(c), NEW k \in Draws(c),
                      Shown(c, s)[k] = graph[s][k], graph[s][k] # 0
               PROVE  Shown(c, s)'[k] = Shown(c, s)[k]
    OBVIOUS
  <2>1. Shown(c, s)[k] = ShownAt(c, s, k) /\ Shown(c, s)'[k] = ShownAt(c, s, k)'
    BY EmptyFacts DEF Shown, ShownAt, Reads, Draws
  <2>2. ShownAt(c, s, k)' = ShownAt(c, s, k)
    BY <2>1, LiveStep DEF IInv
  <2> QED
    BY <2>1, <2>2
<1> QED
  BY <1>1, SnapshotInvariance, PTL DEF Spec, LiveValuesStay
================================================================================
