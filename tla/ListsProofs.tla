----------------------------- MODULE ListsProofs -----------------------------
(***************************************************************************)
(* What an array keeps when members are taken out of it, put into it and   *)
(* filtered: it stays a sequence, nothing occurs twice that did not        *)
(* before, and its members are those that the operators of Lists mean.     *)
(***************************************************************************)
EXTENDS Lists, FiniteSetTheorems, WellFoundedInduction, FunctionTheorems, TLAPS

\* A set of numbers that is not empty has a least one.
LEMMA Least ==
  ASSUME NEW S, S \subseteq Nat, S # {}
  PROVE  \E i \in S : \A j \in S : i <= j
<1> DEFINE R == OpToRel(<, Nat)
<1>1. IsWellFoundedOn(R, Nat)
  BY NatLessThanWellFounded
<1>2. \A a, b \in Nat : a < b => <<a, b>> \in R
  BY Zenon DEF OpToRel
<1> HIDE DEF R
<1>3. PICK i \in S : \A j \in S : ~(<<j, i>> \in R)
  BY <1>1, WFMin
<1>4. ASSUME NEW j \in S PROVE i <= j
  <2>1. i \in Nat /\ j \in Nat
    OBVIOUS
  <2>2. ~(j < i)
    BY <2>1, <1>2, <1>3, Zenon
  <2> QED
    BY <2>1, <2>2
<1> QED
  BY <1>4

\* The first member of q that is in S, when there is one (findIndex).
LEMMA FirstIsFound ==
  ASSUME NEW X, NEW q \in Seq(X), NEW S, Members(q) \cap S # {}
  PROVE  /\ FirstOf(q, S) \in DOMAIN q
         /\ q[FirstOf(q, S)] \in S
         /\ \A j \in 1..(FirstOf(q, S) - 1) : q[j] \notin S
<1> DEFINE D == { i \in DOMAIN q : q[i] \in S }
<1>1. D \subseteq Nat /\ D # {}
  BY DEF Members
<1>2. PICK i \in D : \A j \in D : i <= j
  BY <1>1, Least
<1>3. \A j \in 1..(i - 1) : q[j] \notin S
  BY <1>2
<1> QED
  BY <1>2, <1>3 DEF FirstOf

LEMMA OnlyIsFirst ==
  ASSUME NEW X, NEW q \in Seq(X), NoRepeat(q), NEW i \in DOMAIN q
  PROVE  FirstOf(q, {q[i]}) = i
<1>1. q[i] \in Members(q) \cap {q[i]}
  BY DEF Members
<1>2. FirstOf(q, {q[i]}) \in DOMAIN q /\ q[FirstOf(q, {q[i]})] = q[i]
  BY <1>1, FirstIsFound
<1> QED
  BY <1>2 DEF NoRepeat

\* Taking a command out leaves the others.
LEMMA TakenOut ==
  ASSUME NEW X, NEW q \in Seq(X), NoRepeat(q), NEW c
  PROVE  /\ Without(q, c) \in Seq(X)
         /\ NoRepeat(Without(q, c))
         /\ Members(Without(q, c)) = Members(q) \ {c}
<1>1. CASE c \notin Members(q)
  BY <1>1 DEF Without
<1>2. CASE c \in Members(q)
  <2>1. PICK k \in DOMAIN q : q[k] = c
    BY <1>2 DEF Members
  <2>2. FirstOf(q, {c}) = k
    BY <2>1, OnlyIsFirst
  <2> DEFINE r == [i \in 1..(Len(q) - 1) |-> IF i < k THEN q[i] ELSE q[i + 1]]
  <2>3. Without(q, c) = r
    BY <1>2, <2>2 DEF Without
  <2>4. r \in Seq(X) /\ Len(r) = Len(q) - 1 /\ DOMAIN r = 1..(Len(q) - 1)
    <3>1. Len(q) - 1 \in Nat
      BY <2>1
    <3>2. \A i \in 1..(Len(q) - 1) : (IF i < k THEN q[i] ELSE q[i + 1]) \in X
      BY <2>1
    <3>3. r \in [1..(Len(q) - 1) -> X]
      BY <3>2
    <3> QED
      BY <3>1, <3>3
  <2>5. NoRepeat(r)
    BY <2>4, <2>1 DEF NoRepeat
  <2>6. ASSUME NEW x \in Members(r) PROVE x \in Members(q) \ {c}
    <3>1. PICK i \in 1..(Len(q) - 1) : x = r[i]
      BY <2>4 DEF Members
    <3>2. PICK j \in DOMAIN q : x = q[j] /\ j # k
      BY <3>1, <2>1
    <3> QED
      BY <3>2, <2>1 DEF Members, NoRepeat
  <2>7. ASSUME NEW x \in Members(q) \ {c} PROVE x \in Members(r)
    <3>1. PICK j \in DOMAIN q : x = q[j]
      BY DEF Members
    <3>2. j # k
      BY <3>1, <2>1
    <3>3. CASE j < k
      <4>1. j \in 1..(Len(q) - 1) /\ r[j] = x
        BY <3>3, <3>1, <2>1
      <4> QED
        BY <4>1, <2>4 DEF Members
    <3>4. CASE j > k
      <4>1. (j - 1) \in 1..(Len(q) - 1) /\ r[j - 1] = x
        BY <3>4, <3>1, <2>1
      <4> QED
        BY <4>1, <2>4 DEF Members
    <3> QED
      BY <3>2, <3>3, <3>4, <2>1
  <2> QED
    BY <2>3, <2>4, <2>5, <2>6, <2>7
<1> QED
  BY <1>1, <1>2

\* A command that is not there is put at the end.
LEMMA PutLast ==
  ASSUME NEW X, NEW q \in Seq(X), NoRepeat(q), NEW c \in X, c \notin Members(q)
  PROVE  /\ Append(q, c) \in Seq(X)
         /\ NoRepeat(Append(q, c))
         /\ Members(Append(q, c)) = Members(q) \cup {c}
<1>1. /\ Append(q, c) \in Seq(X)
      /\ DOMAIN Append(q, c) = 1..(Len(q) + 1)
      /\ \A i \in 1..Len(q) : Append(q, c)[i] = q[i]
      /\ Append(q, c)[Len(q) + 1] = c
  OBVIOUS
<1>2. \A i \in 1..Len(q) : q[i] # c
  BY DEF Members
<1>3. NoRepeat(Append(q, c))
  BY <1>1, <1>2 DEF NoRepeat
<1>4. Members(Append(q, c)) = Members(q) \cup {c}
  BY <1>1 DEF Members
<1> QED
  BY <1>1, <1>3, <1>4

\* The same at any other place.
LEMMA PutIn ==
  ASSUME NEW X, NEW q \in Seq(X), NoRepeat(q), NEW c \in X, c \notin Members(q),
         NEW p \in 1..(Len(q) + 1)
  PROVE  LET r == SubSeq(q, 1, p - 1) \o <<c>> \o SubSeq(q, p, Len(q))
         IN /\ r \in Seq(X)
            /\ NoRepeat(r)
            /\ Members(r) = Members(q) \cup {c}
<1> DEFINE a == SubSeq(q, 1, p - 1)
           b == SubSeq(q, p, Len(q))
           r == a \o <<c>> \o b
<1>1. /\ a \in Seq(X) /\ Len(a) = p - 1
      /\ \A i \in 1..(p - 1) : a[i] = q[i]
  OBVIOUS
<1>2. /\ b \in Seq(X) /\ Len(b) = Len(q) - p + 1
      /\ \A i \in 1..(Len(q) - p + 1) : b[i] = q[p + i - 1]
  OBVIOUS
<1>3. <<c>> \in Seq(X) /\ Len(<<c>>) = 1 /\ <<c>>[1] = c
  OBVIOUS
<1> HIDE DEF a, b
<1>4. /\ a \o <<c>> \in Seq(X) /\ Len(a \o <<c>>) = p
      /\ \A i \in 1..(p - 1) : (a \o <<c>>)[i] = q[i]
      /\ (a \o <<c>>)[p] = c
  BY <1>1, <1>3
<1> DEFINE d == a \o <<c>>
<1>5. d \in Seq(X) /\ Len(d) = p /\ d[p] = c /\ \A i \in 1..(p - 1) : d[i] = q[i]
  BY <1>4
<1> HIDE DEF d
<1>6. /\ d \o b \in Seq(X) /\ DOMAIN (d \o b) = 1..(Len(q) + 1)
      /\ \A i \in 1..p : (d \o b)[i] = d[i]
      /\ \A i \in (p + 1)..(Len(q) + 1) : (d \o b)[i] = b[i - p]
  BY <1>5, <1>2
<1> DEFINE e == d \o b
<1>7. /\ e \in Seq(X) /\ DOMAIN e = 1..(Len(q) + 1)
      /\ \A i \in 1..(p - 1) : e[i] = q[i]
      /\ e[p] = c
      /\ \A i \in (p + 1)..(Len(q) + 1) : e[i] = q[i - 1]
  BY <1>6, <1>5, <1>2
<1>8. r = e
  BY DEF d
<1> HIDE DEF e
<1>9. \A i \in 1..Len(q) : q[i] # c
  BY DEF Members
<1>10. NoRepeat(e)
  <2> SUFFICES ASSUME NEW i \in 1..(Len(q) + 1), NEW j \in 1..(Len(q) + 1), i < j
               PROVE  e[i] # e[j]
    <3>1. \A i, j \in DOMAIN e : i < j => e[i] # e[j]
      BY <1>7
    <3>2. DOMAIN e \subseteq Nat
      BY <1>7
    <3> QED
      BY <3>1, <3>2 DEF NoRepeat
  <2>1. \A k, l \in 1..Len(q) : q[k] = q[l] => k = l
    BY DEF NoRepeat
  <2>2. CASE i < p /\ j < p
    <3>1. e[i] = q[i] /\ e[j] = q[j] /\ i \in 1..Len(q) /\ j \in 1..Len(q) /\ i # j
      BY <2>2, <1>7
    <3> QED
      BY <3>1, <2>1
  <2>3. CASE i < p /\ j = p
    BY <2>3, <1>9, <1>7
  <2>4. CASE i < p /\ j > p
    <3>1. e[i] = q[i] /\ e[j] = q[j - 1] /\ i \in 1..Len(q) /\ (j - 1) \in 1..Len(q) /\ i # j - 1
      BY <2>4, <1>7
    <3> QED
      BY <3>1, <2>1
  <2>5. CASE i = p
    <3>1. e[i] = c /\ e[j] = q[j - 1] /\ (j - 1) \in 1..Len(q)
      BY <2>5, <1>7
    <3> QED
      BY <3>1, <1>9
  <2>6. CASE i > p
    <3>1. e[i] = q[i - 1] /\ e[j] = q[j - 1] /\ (i - 1) \in 1..Len(q) /\ (j - 1) \in 1..Len(q)
      BY <2>6, <1>7
    <3> QED
      BY <3>1, <2>1
  <2> QED
    BY <2>2, <2>3, <2>4, <2>5, <2>6
<1>11. ASSUME NEW x \in Members(e) PROVE x \in Members(q) \cup {c}
  <2>1. PICK i \in 1..(Len(q) + 1) : x = e[i]
    BY <1>7 DEF Members
  <2>2. CASE i < p
    BY <2>1, <2>2, <1>7 DEF Members
  <2>3. CASE i = p
    BY <2>1, <2>3, <1>7
  <2>4. CASE i > p
    <3>1. (i - 1) \in DOMAIN q /\ x = q[i - 1]
      BY <2>1, <2>4, <1>7
    <3> QED
      BY <3>1 DEF Members
  <2> QED
    BY <2>2, <2>3, <2>4, <2>1
<1>12. ASSUME NEW x \in Members(q) PROVE x \in Members(e)
  <2>1. PICK i \in 1..Len(q) : x = q[i]
    BY DEF Members
  <2>2. CASE i < p
    BY <2>1, <2>2, <1>7 DEF Members
  <2>3. CASE i >= p
    <3>1. (i + 1) \in DOMAIN e /\ x = e[i + 1]
      BY <2>1, <2>3, <1>7
    <3> QED
      BY <3>1 DEF Members
  <2> QED
    BY <2>2, <2>3, <2>1
<1>13. c \in Members(e)
  BY <1>7 DEF Members
<1>14. Members(e) = Members(q) \cup {c}
  BY <1>11, <1>12, <1>13
<1>15. r \in Seq(X) /\ NoRepeat(r) /\ Members(r) = Members(q) \cup {c}
  BY <1>7, <1>8, <1>10, <1>14
<1> QED
  BY <1>15 DEF a, b

\* What stays when several are dropped at once (the filter of a stop).
LEMMA Filtered ==
  ASSUME NEW X, NEW q \in Seq(X), NEW S
  PROVE  /\ Kept(q, S) \in Seq(X)
         /\ NoRepeat(q) => NoRepeat(Kept(q, S))
         /\ Members(Kept(q, S)) = Members(q) \cap S
<1> DEFINE keep == { i \in DOMAIN q : q[i] \in S }
           n == Cardinality(keep)
           Place(i) == Cardinality({ j \in keep : j <= i })
           place == [i \in keep |-> Place(i)]
           at(k) == CHOOSE i \in keep : Place(i) = k
           r == [k \in 1..n |-> q[at(k)]]
<1>1. IsFiniteSet(keep) /\ n \in Nat
  <2>1. IsFiniteSet(DOMAIN q)
    BY FS_Interval
  <2>2. IsFiniteSet(keep)
    BY <2>1, FS_Subset
  <2> QED
    BY <2>2, FS_CardinalityType
<1>2. \A i \in keep : Place(i) \in 1..n
  <2> SUFFICES ASSUME NEW i \in keep PROVE Place(i) \in 1..n
    OBVIOUS
  <2> DEFINE below == { j \in keep : j <= i }
  <2>1. IsFiniteSet(below) /\ Cardinality(below) <= n
    BY <1>1, FS_Subset
  <2>2. i \in below
    OBVIOUS
  <2> HIDE DEF below, keep
  <2>3. Cardinality(below) # 0
    BY <2>1, <2>2, FS_EmptySet
  <2>4. Cardinality(below) \in Nat
    BY <2>1, FS_CardinalityType
  <2>5. Cardinality(below) \in 1..n
    BY <2>1, <2>3, <2>4, <1>1
  <2> QED
    BY <2>5 DEF below
<1>3. ASSUME NEW i \in keep, NEW k \in keep, i < k PROVE Place(i) # Place(k)
  <2> DEFINE lo == { j \in keep : j <= i }
             hi == { j \in keep : j <= k }
  <2>1. lo \subseteq hi /\ k \in hi /\ k \notin lo
    BY <1>3
  <2>2. IsFiniteSet(hi)
    BY <1>1, FS_Subset
  <2> HIDE DEF lo, hi
  <2>3. lo \in SUBSET hi /\ lo # hi
    BY <2>1
  <2>4. Cardinality(hi) # Cardinality(lo)
    BY <2>2, <2>3, FS_Subset
  <2> QED
    BY <2>4 DEF lo, hi
<1>4. place \in Injection(keep, 1..n)
  <2>1. place \in [keep -> 1..n]
    BY <1>2
  <2>2. \A i, k \in keep : place[i] = place[k] => i = k
    <3> SUFFICES ASSUME NEW i \in keep, NEW k \in keep, Place(i) = Place(k) PROVE i = k
      OBVIOUS
    <3>1. i \in Nat /\ k \in Nat
      OBVIOUS
    <3> HIDE DEF Place, keep
    <3> QED
      BY <3>1, <1>3
  <2> QED
    BY <2>1, <2>2 DEF Injection, IsInjective
<1>5. place \in Surjection(keep, 1..n)
  <2>1. IsFiniteSet(1..n) /\ Cardinality(1..n) = n
    BY <1>1, FS_Interval
  <2> HIDE DEF place, keep
  <2> QED
    BY <2>1, <1>4, FS_Injection
<1>6. \A k \in 1..n : at(k) \in keep /\ Place(at(k)) = k
  <2>1. \A k \in 1..n : \E i \in keep : Place(i) = k
    BY <1>5 DEF Surjection
  <2> HIDE DEF Place, keep
  <2> QED
    BY <2>1
<1>7. \A i \in keep : at(Place(i)) = i
  <2> SUFFICES ASSUME NEW i \in keep PROVE at(Place(i)) = i
    OBVIOUS
  <2>1. at(Place(i)) \in keep /\ Place(at(Place(i))) = Place(i)
    BY <1>2, <1>6
  <2>2. \A a, b \in keep : Place(a) = Place(b) => a = b
    BY <1>4 DEF Injection, IsInjective
  <2> HIDE DEF Place, keep, at
  <2> QED
    BY <2>1, <2>2
<1>8. Kept(q, S) = r
  BY DEF Kept
<1>9. \A k \in 1..n : at(k) \in DOMAIN q /\ q[at(k)] \in S
  BY <1>6
<1> HIDE DEF at, Place, n
<1>10. r \in Seq(X) /\ DOMAIN r = 1..n
  <2>1. r \in [1..n -> X]
    BY <1>9
  <2> QED
    BY <2>1, <1>1
<1>11. ASSUME NoRepeat(q) PROVE NoRepeat(r)
  <2> SUFFICES ASSUME NEW i \in 1..n, NEW j \in 1..n, q[at(i)] = q[at(j)] PROVE i = j
    BY <1>10 DEF NoRepeat
  <2>1. at(i) = at(j)
    BY <1>9, <1>11 DEF NoRepeat
  <2> QED
    BY <2>1, <1>6
<1>12. Members(r) \subseteq Members(q) \cap S
  BY <1>9, <1>10 DEF Members
<1>13. ASSUME NEW x \in Members(q) \cap S PROVE x \in Members(r)
  <2>1. PICK i \in DOMAIN q : x = q[i]
    BY DEF Members
  <2>2. i \in keep
    BY <2>1
  <2>3. Place(i) \in 1..n /\ at(Place(i)) = i
    BY <2>2, <1>2, <1>7
  <2>4. r[Place(i)] = x
    BY <2>1, <2>3
  <2> QED
    BY <2>3, <2>4, <1>10 DEF Members
<1> QED
  BY <1>8, <1>10, <1>11, <1>12, <1>13

\* A list without repetitions is as long as it has members.
LEMMA LengthCounts ==
  ASSUME NEW X, NEW q \in Seq(X), NoRepeat(q)
  PROVE  IsFiniteSet(Members(q)) /\ Cardinality(Members(q)) = Len(q)
<1>1. Len(q) \in Nat /\ DOMAIN q = 1..Len(q)
  OBVIOUS
<1> DEFINE f == [i \in 1..Len(q) |-> q[i]]
<1>2. f \in Bijection(1..Len(q), Members(q))
  <2>1. f \in [1..Len(q) -> Members(q)]
    BY <1>1 DEF Members
  <2>2. \A i, j \in 1..Len(q) : f[i] = f[j] => i = j
    BY <1>1 DEF NoRepeat
  <2>3. \A x \in Members(q) : \E i \in 1..Len(q) : f[i] = x
    BY <1>1 DEF Members
  <2> HIDE DEF f
  <2> QED
    BY <2>1, <2>2, <2>3 DEF Bijection, Injection, IsInjective, Surjection
<1>3. IsFiniteSet(1..Len(q)) /\ Cardinality(1..Len(q)) = Len(q)
  BY <1>1, FS_Interval
<1>4. ExistsBijection(1..Len(q), Members(q))
  BY <1>2 DEF ExistsBijection
<1> QED
  BY <1>3, <1>4, FS_Bijection

\* A list is a list of its members.
LEMMA ListOfMembers ==
  ASSUME NEW X, NEW q \in Seq(X), NEW S, Members(q) \subseteq S
  PROVE  q \in Seq(S)
<1>1. q \in [1..Len(q) -> S] /\ Len(q) \in Nat
  BY DEF Members
<1> QED
  BY <1>1
=============================================================================
