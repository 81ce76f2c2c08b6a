----------------------------- MODULE MCCheckout -----------------------------
(***************************************************************************)
(* Two products.  Attempts a1 and a2 are one customer's request and its    *)
(* retry; a3 is somebody else, without a key, who wants more.              *)
(***************************************************************************)
EXTENDS Checkout

CONSTANTS a1, a2, a3, k1

MCProducts == {1, 2}
MCKey == [a \in Attempts |-> IF a = a3 THEN Null ELSE k1]
MCBasket == [a \in Attempts |-> [p \in Products |-> IF a = a3 /\ p = 2 THEN 2 ELSE 1]]
MCCounts == {1, 2}
=============================================================================
