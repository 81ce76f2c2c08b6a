------------------------------ MODULE Custody ------------------------------
(***************************************************************************)
(* What one order promises to the people around it, independently of how   *)
(* the handlers interleave: at every moment somebody answers for the goods.*)
(* They are in the store, out with exactly one rider, or the order is over,*)
(* and an order that is over stays over with the same rider on record.     *)
(* Dispatch (several orders, concurrent transactions) and OrderRow (one    *)
(* row with its time stamps and its money) both implement this             *)
(* specification.                                                          *)
(***************************************************************************)
CONSTANTS Riders, Null

VARIABLES
  place,    \* where the goods are, or how the order ended
  holder    \* the rider on record, Null when there is none

custodyVars == <<place, holder>>

Place == {"store", "out", "delivered", "failed", "cancelled"}

Init == place = "store" /\ holder = Null

HandOver(r) == place = "store" /\ place' = "out" /\ holder' = r

(* From one rider to another without passing through the store's hands in  *)
(* any committed state.                                                    *)
Reassign(r) == place = "out" /\ place' = "out" /\ holder' = r

GiveBack == place = "out" /\ place' = "store" /\ holder' = Null

Finish(p) ==
  /\ place = "out"
  /\ place' = p
  /\ UNCHANGED holder

Cancel == place = "store" /\ place' = "cancelled" /\ UNCHANGED holder

Next ==
  \/ \E r \in Riders : HandOver(r) \/ Reassign(r)
  \/ GiveBack
  \/ \E p \in {"delivered", "failed"} : Finish(p)
  \/ Cancel

Spec == Init /\ [][Next]_custodyVars
=============================================================================
