---------------------------- MODULE OrderStates ----------------------------
(***************************************************************************)
(* The vocabulary of an order's life: the statuses, the legal moves and    *)
(* who may ask for which.  Translated from the class attributes of         *)
(* `Order` (api/models.py) and from the target sets of api/views/orders.py.*)
(* The module has no variables; every module about orders extends it.      *)
(***************************************************************************)

Status == {"Placed", "Packing", "Ready", "Dispatched",
           "Delivered", "Cancelled", "Failed"}

(* Order.TRANSITIONS as a relation. *)
TRANSITIONS ==
  {<<"Placed", "Packing">>,      <<"Placed", "Cancelled">>,
   <<"Packing", "Ready">>,       <<"Packing", "Cancelled">>,
   <<"Ready", "Dispatched">>,    <<"Ready", "Packing">>,
   <<"Ready", "Cancelled">>,     <<"Dispatched", "Delivered">>,
   <<"Dispatched", "Ready">>,    <<"Dispatched", "Failed">>}

CANCELLABLE == {"Placed", "Packing", "Ready"}
TERMINAL    == {"Delivered", "Cancelled", "Failed"}

(* Authority, not sequence: what a manager and a rider may ask for. *)
ADMIN_TARGETS == {"Packing", "Ready", "Delivered", "Cancelled", "Failed"}
RIDER_TARGETS == {"Delivered", "Ready", "Failed"}

CanMove(from, to) == <<from, to>> \in TRANSITIONS

(* `advance_status` answers a move to the current status with an empty     *)
(* change list and refuses anything else that is not listed.               *)
CanAdvance(from, to) == from = to \/ CanMove(from, to)
=============================================================================
