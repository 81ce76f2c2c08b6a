----------------------------- MODULE MCOrderRow -----------------------------
(***************************************************************************)
(* Two riders, an order worth 2 promised in one minute of two ticks, and   *)
(* seven ticks: late by less than a minute, and by more.  A client may     *)
(* state nothing, too little or too much.                                  *)
(***************************************************************************)
EXTENDS OrderRow

CONSTANTS r1, r2

MCStated == {0, 1, 3}
=============================================================================
