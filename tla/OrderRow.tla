------------------------------ MODULE OrderRow ------------------------------
(***************************************************************************)
(* One row of the orders table through its whole life, with its clock: the *)
(* lifecycle stamps, the recorded outcome, the money collected and the     *)
(* rider on record.  Translated from `Order.advance_status` (api/models.py)*)
(* and from every handler that calls it: OrderStatusView, OrderAcceptView, *)
(* OrderAssignView and OrderRestockView (api/views/orders.py), auto_assign *)
(* (api/dispatch.py), cancel_order and restock_failed_order                *)
(* (api/checkout.py).                                                      *)
(*                                                                         *)
(* Every one of them holds the row's lock from its first read of the row   *)
(* to its commit, so each is one action here; who is eligible is left open *)
(* (Dispatch models it), so automatic assignment may pick anybody or       *)
(* nobody.  A request to move to the status the order already has changes  *)
(* nothing, except for Ready and Failed, whose handlers write on.          *)
(***************************************************************************)
EXTENDS OrderStates, Integers

CONSTANTS
  Riders, Null,
  Minute,      \* clock ticks in a minute
  Promise,     \* Order.promised_minutes
  Total,       \* Order.grand_total, in units the model counts
  Stated,      \* amounts a client may state as collected
  MaxTime      \* bound: the last tick of the clock

Manager == "manager"
Customer == "customer"

ASSUME OrderRowConstants ==
  /\ Null \notin Riders \cup Int \cup BOOLEAN \cup {Manager, Customer}
  /\ Minute \in Nat \ {0} /\ Promise \in Nat
  /\ Total \in Nat /\ Stated \subseteq Nat
  /\ MaxTime \in Nat

VARIABLES
  now,           \* timezone.now(), zero when the order was created
  status,
  boy,           \* Order.delivery_boy
  stamp,         \* the lifecycle time stamps, Null while empty
  was_late, delivered_in_minutes,
  amount,        \* Order.amount_collected
  collected_by,
  reason         \* who gave Order.cancellation_reason

vars == <<now, status, boy, stamp, was_late, delivered_in_minutes, amount,
          collected_by, reason>>

Stamps == {"packed_at", "dispatched_at", "delivered_at", "cancelled_at",
           "paid_at", "restocked_at"}

TypeOK ==
  /\ now \in 0 .. MaxTime
  /\ status \in Status
  /\ boy \in Riders \cup {Null}
  /\ stamp \in [Stamps -> Nat \cup {Null}]
  /\ was_late \in BOOLEAN \cup {Null}
  /\ delivered_in_minutes \in Nat \cup {Null}
  /\ amount \in Nat \cup {Null}
  /\ collected_by \in Riders \cup {Null}
  /\ reason \in Riders \cup {Manager, Customer, Null}

Init ==
  /\ now = 0
  /\ status = "Placed"
  /\ boy = Null
  /\ stamp = [f \in Stamps |-> Null]
  /\ was_late = Null
  /\ delivered_in_minutes = Null
  /\ amount = Null
  /\ collected_by = Null
  /\ reason = Null

outcome == <<was_late, delivered_in_minutes, amount, collected_by>>

-----------------------------------------------------------------------------
(* The promise. *)

promised_at == Promise * Minute

is_late == status \notin TERMINAL /\ now > promised_at

(* `delivered_in_minutes` counts whole minutes, and so does `was_late`. *)
(* Mutant: counts the minute begun. *)
ElapsedBegun == now \div Minute + 1

Elapsed == now \div Minute

-----------------------------------------------------------------------------
(* `advance_status`: the fields of a move are stamped only while empty. *)

Fields(to) ==
  CASE to = "Ready"      -> {"packed_at"}
    [] to = "Dispatched" -> {"dispatched_at"}
    [] to = "Delivered"  -> {"delivered_at", "paid_at"}
    [] to \in {"Cancelled", "Failed"} -> {"cancelled_at"}
    [] OTHER -> {}

(* The row's stamps after moves to every status of `path`.  (The status the *)
(* order already has is stamped already.)                                  *)
(* Mutant: not only while empty. *)
StampedAnew(path) ==
  [f \in Stamps |-> IF \E to \in path : f \in Fields(to) THEN now ELSE stamp[f]]

Stamped(path) ==
  [f \in Stamps |->
     IF stamp[f] = Null /\ \E to \in path : f \in Fields(to) THEN now ELSE stamp[f]]

advance_status(path, to) ==
  /\ status' = to
  /\ stamp' = Stamped(path)
  /\ UNCHANGED now

-----------------------------------------------------------------------------
StartPacking ==
  /\ CanMove(status, "Packing")
  /\ advance_status({"Packing"}, "Packing")
  /\ UNCHANGED <<boy, outcome, reason>>

(* PATCH status=Ready by a manager (`by` is Null) or by the rider handing  *)
(* the order back.  Moved, or already there, the rider is released and the *)
(* order is dispatched again, to `to` or to nobody.                        *)
MoveToReady(by, to) ==
  /\ CanAdvance(status, "Ready")
  /\ by # Null => boy = by
  /\ boy' = to
  /\ IF to = Null THEN advance_status({"Ready"}, "Ready")
                  ELSE advance_status({"Ready", "Dispatched"}, "Dispatched")
  /\ UNCHANGED <<outcome, reason>>

(* Mutant: the claim does not look at the status. *)
AcceptStale(r) ==
  /\ boy \in {Null, r}
  /\ boy' = r
  /\ advance_status({"Dispatched"}, "Dispatched")
  /\ UNCHANGED <<outcome, reason>>

Accept(r) ==
  /\ status = "Ready"
  /\ boy \in {Null, r}
  /\ boy' = r
  /\ advance_status({"Dispatched"}, "Dispatched")
  /\ UNCHANGED <<outcome, reason>>

(* The manager's assignment walks an order being picked through Ready, and *)
(* gives one already out to another rider.                                 *)
Assign(r) ==
  /\ status \notin TERMINAL
  /\ boy' = r
  /\ advance_status(IF status \in {"Placed", "Packing"} THEN {"Ready", "Dispatched"}
                                                        ELSE {"Dispatched"},
                    "Dispatched")
  /\ UNCHANGED <<outcome, reason>>

(* What a delivery writes: the outcome at this moment, and the amount.     *)
Collects(by, stated) ==
  /\ by # Null => boy = by
  /\ advance_status({"Delivered"}, "Delivered")
  /\ delivered_in_minutes' = Elapsed
  /\ was_late' = (Elapsed > Promise)
  /\ amount' = IF stated = Null THEN Total ELSE stated
  /\ UNCHANGED <<boy, reason>>

AtMostTotal(stated) == stated # Null => stated <= Total

(* Mutants: the money is keyed on the target alone, so that a repeat       *)
(* rewrites it; the amount stated is not capped. *)
DeliverAgain(by, stated) ==
  /\ CanAdvance(status, "Delivered") /\ AtMostTotal(stated)
  /\ Collects(by, stated) /\ collected_by' = by

DeliverUncapped(by, stated) ==
  CanMove(status, "Delivered") /\ Collects(by, stated) /\ collected_by' = by

(* PATCH status=Delivered, by the rider or by a manager, with or without   *)
(* the amount collected.                                                   *)
Deliver(by, stated) ==
  /\ CanMove(status, "Delivered") /\ AtMostTotal(stated)
  /\ Collects(by, stated)
  /\ collected_by' = by

(* PATCH status=Failed.  A repeat on a Failed order writes its reason anew. *)
Fail(by) ==
  /\ CanAdvance(status, "Failed")
  /\ by # Null => boy = by
  /\ advance_status({"Failed"}, "Failed")
  /\ reason' = IF by = Null THEN Manager ELSE by
  /\ UNCHANGED <<boy, outcome>>

cancel_order(by) ==
  /\ status \in CANCELLABLE
  /\ CanMove(status, "Cancelled")
  /\ advance_status({"Cancelled"}, "Cancelled")
  /\ reason' = by
  /\ UNCHANGED <<boy, outcome>>

restock_failed_order ==
  /\ status = "Failed"
  /\ stamp["restocked_at"] = Null
  /\ stamp' = [stamp EXCEPT !["restocked_at"] = now]
  /\ UNCHANGED <<now, status, boy, outcome, reason>>

Tick ==
  /\ now < MaxTime
  /\ now' = now + 1
  /\ UNCHANGED <<status, boy, stamp, outcome, reason>>

Next ==
  \/ StartPacking
  \/ \E by, to \in Riders \cup {Null} : MoveToReady(by, to)
  \/ \E r \in Riders : Accept(r) \/ Assign(r)
  \/ \E by \in Riders \cup {Null}, stated \in Stated \cup {Null} : Deliver(by, stated)
  \/ \E by \in Riders \cup {Null} : Fail(by)
  \/ \E by \in {Manager, Customer} : cancel_order(by)
  \/ restock_failed_order
  \/ Tick

Spec == Init /\ [][Next]_vars

-----------------------------------------------------------------------------
Set(f) == stamp[f] # Null

(* f is stamped only after g, and no earlier than g. *)
After(f, g) == Set(f) => Set(g) /\ stamp[g] <= stamp[f]

(* The stamps tell one story in order, however often the order went out    *)
(* and came back: packed before it first left, gone before it ended,       *)
(* failed before it was restocked, and a payment is the delivery itself.   *)
Chronology ==
  /\ After("dispatched_at", "packed_at")
  /\ After("delivered_at", "dispatched_at")
  /\ After("restocked_at", "cancelled_at")
  /\ status = "Failed" => After("cancelled_at", "dispatched_at")
  /\ stamp["paid_at"] = stamp["delivered_at"]
  /\ Set("delivered_at") => ~Set("cancelled_at")

(* Money is on record exactly for a delivered order, never more than it    *)
(* was worth, and a rider credited with it is the rider who carried it     *)
(* ("there is no route to Delivered that records nothing").                *)
MoneyMatchesOutcome ==
  /\ Set("paid_at") <=> status = "Delivered"
  /\ amount # Null <=> Set("paid_at")
  /\ amount # Null => amount <= Total
  /\ collected_by # Null => status = "Delivered" /\ collected_by = boy
  /\ was_late # Null <=> status = "Delivered"

(* An order that ended badly says why and says when, and no other order    *)
(* does; only a failed one is restocked.                                   *)
EndIsExplained ==
  /\ reason # Null <=> status \in {"Cancelled", "Failed"}
  /\ Set("cancelled_at") <=> status \in {"Cancelled", "Failed"}
  /\ Set("restocked_at") => status = "Failed"

(* What is settled stays settled: a stamp never moves, and once the order  *)
(* is over its status, rider, money and outcome are frozen, whatever is    *)
(* requested again.                                                        *)
SettledStaysSettled ==
  [][/\ \A f \in Stamps : Set(f) => stamp'[f] = stamp[f]
     /\ status \in TERMINAL => UNCHANGED <<status, boy, outcome>>]_vars

(* An order recorded late was already being shown as late. *)
NoSurpriseLate == [][was_late' = TRUE /\ was_late = Null => is_late]_vars

(* One row keeps the promise of Custody, too. *)
PlaceOf ==
  CASE status \in CANCELLABLE -> "store"
    [] status = "Dispatched"  -> "out"
    [] status = "Delivered"   -> "delivered"
    [] status = "Failed"      -> "failed"
    [] status = "Cancelled"   -> "cancelled"

C == INSTANCE Custody WITH place <- PlaceOf, holder <- boy

ImplementsCustody == C!Spec
=============================================================================
