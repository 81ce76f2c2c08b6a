----------------------------- MODULE MCLocation -----------------------------
(***************************************************************************)
(* One order that two riders may carry in turn, two requests in flight: a  *)
(* report and a map, two reports, or the customer's and the rider's.  With *)
(* no tolerance, a position is stale and a trail prunable a tick later.    *)
(***************************************************************************)
EXTENDS Location
CONSTANTS r1, r2
=============================================================================
