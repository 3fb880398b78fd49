---------------------------- MODULE DurableFiles ----------------------------
(***************************************************************************)
(* What the checkpoint writer promises its callers, with no thread, queue, *)
(* lock or generation in sight.  Each file holds whole snapshots, numbered *)
(* in the order they were handed over: accepted[p] is the newest snapshot  *)
(* the writer took responsibility for, disk[p] the one the file holds.     *)
(* A file only moves forward, and only to snapshots somebody accepted; an  *)
(* acceptance is revoked only by the end of the process.                   *)
(***************************************************************************)
EXTENDS Naturals

CONSTANT Paths

VARIABLES accepted, disk

vars == <<accepted, disk>>

Init == /\ accepted = [p \in Paths |-> 0]
        /\ disk = [p \in Paths |-> 0]

(* A newer snapshot of p is accepted; the file is not touched. *)
Accept(p) == /\ accepted'[p] > accepted[p]
             /\ accepted' = [accepted EXCEPT ![p] = accepted'[p]]
             /\ UNCHANGED disk

(* The file of p moves forward, at most to the newest accepted snapshot. *)
Persist(p) == /\ disk'[p] > disk[p]
              /\ disk'[p] <= accepted[p]
              /\ disk' = [disk EXCEPT ![p] = disk'[p]]
              /\ UNCHANGED accepted

(* A snapshot is accepted and on disk in one step: the synchronous save. *)
WriteThrough(p) == /\ accepted'[p] > accepted[p]
                   /\ disk'[p] = accepted'[p]
                   /\ accepted' = [accepted EXCEPT ![p] = accepted'[p]]
                   /\ disk' = [disk EXCEPT ![p] = disk'[p]]

(* The process ends: what is not on disk is forgotten. *)
ProcessEnds == /\ accepted' = disk
               /\ UNCHANGED disk

Next == \/ \E p \in Paths : Accept(p) \/ Persist(p) \/ WriteThrough(p)
        \/ ProcessEnds

Spec == Init /\ [][Next]_vars
=============================================================================
