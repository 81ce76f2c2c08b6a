----------------------------- MODULE MCDispatch -----------------------------
(***************************************************************************)
(* Small stores for Dispatch.  MCDispatchLive: order o1 has a position and *)
(* is out of rider 2's range; o2 has none, so every rider may take it and  *)
(* the lowest key comes first.  MCDispatch: both have one; rider 2 is at   *)
(* the door of o1, 15 metres nearer than rider 1, and out of range of o2.  *)
(***************************************************************************)
EXTENDS Dispatch

CONSTANTS o1, o2

MCRiders == {1, 2}
MCLocated == {o1}
MCDistance == [o \in Orders |-> [r \in Riders |-> IF r = 1 THEN 2 ELSE 5]]
MCTown == [o \in Orders |-> IF o = o1 THEN <<3, 0>> ELSE <<2, 5>>]
MCRadius == [r \in Riders |-> 3]
=============================================================================
