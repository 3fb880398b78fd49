------------------------- MODULE MCAutoGoalLifecycle -------------------------
(* Instances of AutoGoalLifecycle for TLC: a procedure that rests on a file *)
(* src, which its task reads, and writes a file out.                        *)
EXTENDS AutoGoalLifecycle

CONSTANTS chosen, spare, src, out, Changed

Sources == {{src}}
Outputs == {{out}}
=============================================================================
