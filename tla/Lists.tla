-------------------------------- MODULE Lists --------------------------------
(***************************************************************************)
(* Arrays of the server from which members are taken out wherever they are *)
(* (findIndex, filter and splice).                                         *)
(***************************************************************************)
EXTENDS Naturals, Sequences, FiniteSets

Members(q) == { q[i] : i \in DOMAIN q }
NoRepeat(q) == \A i, j \in DOMAIN q : q[i] = q[j] => i = j
\* The place of the first member of q that is in S.
FirstOf(q, S) == CHOOSE i \in DOMAIN q : q[i] \in S /\ \A j \in 1..(i - 1) : q[j] \notin S
\* The members of q that are in S, in their order.
Kept(q, S) ==
  LET keep == { i \in DOMAIN q : q[i] \in S }
      Place(i) == Cardinality({ j \in keep : j <= i })
  IN [k \in 1..Cardinality(keep) |-> q[CHOOSE i \in keep : Place(i) = k]]
Without(q, c) ==
  IF c \notin Members(q) THEN q
  ELSE [i \in 1..(Len(q) - 1) |-> IF i < FirstOf(q, {c}) THEN q[i] ELSE q[i + 1]]
=============================================================================
