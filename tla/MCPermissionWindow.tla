-------------------------- MODULE MCPermissionWindow --------------------------
(***************************************************************************)
(* Finite instances of PermissionWindow: one card of one session; calls    *)
(* with and without an "always" button.                                    *)
(***************************************************************************)
EXTENDS PermissionWindow, TLC

CONSTANTS c1, a1, s1

SessionAgent == s1 :> a1

Card(silence, allowAlways) ==
  [agent |-> a1, session |-> s1, kind |-> "hook", silence |-> silence,
   allowAlways |-> allowAlways, rejectAlways |-> TRUE]

TwoCalls == { Card("allow", TRUE), Card("deny", FALSE) }
OneCall == { Card("allow", FALSE) }
=============================================================================
