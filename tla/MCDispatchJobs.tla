---------------------------- MODULE MCDispatchJobs ----------------------------
(***************************************************************************)
(* Instances of DispatchJobs: one agent with its sessions and its edges.   *)
(* Edge e returns results and has no time limit, any other is the reverse. *)
(***************************************************************************)
EXTENDS DispatchJobs

CONSTANTS a, e

MCAgents == {a}
MCAgentOf == [x \in Sessions |-> a]
MCSource == [x \in Edges |-> a]
MCReturning == {e}
MCTimed == Edges \ {e}
=============================================================================
