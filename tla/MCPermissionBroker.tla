-------------------------- MODULE MCPermissionBroker --------------------------
(***************************************************************************)
(* Finite instances of PermissionBroker: two session tabs of one agent and *)
(* one of another.                                                         *)
(***************************************************************************)
EXTENDS PermissionBroker, TLC

CONSTANTS c1, c2, c3, a1, a2, s1, s2, s3

SessionAgent == s1 :> a1 @@ s2 :> a1 @@ s3 :> a2

Card(agent, session, kind, silence, allowAlways, rejectAlways) ==
  [agent |-> agent, session |-> session, kind |-> kind, silence |-> silence,
   allowAlways |-> allowAlways, rejectAlways |-> rejectAlways]

\* A hook in each tab of a1, one that names no session, the local engine, a
\* question, and a hook of the other agent: with and without "always" buttons.
SixCalls ==
  { Card(a1, s1, "hook", "allow", TRUE, TRUE),
    Card(a1, s2, "hook", "deny", FALSE, TRUE),
    Card(a1, NoSession, "hook", "allow", FALSE, TRUE),
    Card(a1, s2, "local", "allow", TRUE, FALSE),
    Card(a1, s1, "question", "deny", FALSE, FALSE),
    Card(a2, s3, "hook", "allow", FALSE, FALSE) }
=============================================================================
