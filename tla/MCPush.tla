------------------------------- MODULE MCPush -------------------------------
(***************************************************************************)
(* Two handsets, two riders who pass them on, and one order given to the   *)
(* first: two messages of one batch when both handsets are his.            *)
(***************************************************************************)
EXTENDS Push, TLC

CONSTANTS t1, t2, r1, r2, e1

MCRecipients == e1 :> {r1}
=============================================================================
