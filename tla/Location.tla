------------------------------ MODULE Location ------------------------------
(***************************************************************************)
(* Live positions (api/location.py): where each rider is, where a customer *)
(* says they wait, and the trail of an order while it is out.  Three views *)
(* reach it: the rider's report, and the customer's report and map         *)
(* (api/views/store.py); `prune_locations` deletes what is too old.        *)
(*                                                                         *)
(* None of them locks the order.  Each reads it first and writes or        *)
(* answers later, so each is two steps here, with the order moving in      *)
(* between.  The orders move as Custody says, whose steps both Dispatch    *)
(* and OrderRow implement: what holds here holds with either.              *)
(*                                                                         *)
(* An insert that refers to an order waits for the lock of a transaction   *)
(* that ends it, so an order's end, with the deletion in it, is one step.  *)
(***************************************************************************)
EXTENDS Integers, FiniteSets

CONSTANTS
  Orders,      \* ids of orders, in the order they were placed
  Riders, Null,
  Stale,       \* LOCATION_STALE_SECONDS
  Retention,   \* LOCATION_PING_RETENTION_DAYS
  MaxTime,     \* bound: the last tick of the clock
  MaxOpen      \* bound: requests in flight

ASSUME LocationConstants ==
  /\ Orders \subseteq Nat
  /\ Null \notin Riders \cup Int
  /\ Stale \in Nat /\ Retention \in Nat
  /\ MaxTime \in Nat /\ MaxOpen \in Nat

VARIABLES
  now,
  place, holder,       \* of each order, see Custody
  location,            \* RiderLocation: one row per rider, or Null
  pings,               \* OrderLocationPing
  customer_location,   \* OrderCustomerLocation: when it was received, or Null
  open,                \* requests between their read and their end
  carried              \* history: the riders each order has been out with

vars == <<now, place, holder, location, pings, customer_location, open, carried>>
orders == <<place, holder, carried>>

Over == {"delivered", "failed", "cancelled"}

Rows == [order : Orders \cup {Null}, received : 0 .. MaxTime]
Pings == [order : Orders, rider : Riders, received : 0 .. MaxTime]

(* What each request has read: the order it is about, and the rider.       *)
Kinds == {"rider report", "customer report", "map"}
Requests == [kind : Kinds, order : Orders \cup {Null}, rider : Riders \cup {Null}]

C(o) == INSTANCE Custody WITH place <- place[o], holder <- holder[o]

TypeOK ==
  /\ now \in 0 .. MaxTime
  /\ place \in [Orders -> {"store", "out"} \cup Over]
  /\ holder \in [Orders -> Riders \cup {Null}]
  /\ location \in [Riders -> Rows \cup {Null}]
  /\ pings \subseteq Pings
  /\ customer_location \in [Orders -> 0 .. MaxTime \cup {Null}]
  /\ open \subseteq Requests
  /\ carried \subseteq Orders \X Riders

Init ==
  /\ now = 0
  /\ place = [o \in Orders |-> "store"]
  /\ holder = [o \in Orders |-> Null]
  /\ location = [r \in Riders |-> Null]
  /\ pings = {}
  /\ customer_location = [o \in Orders |-> Null]
  /\ open = {}
  /\ carried = {}

-----------------------------------------------------------------------------
(* The orders' own steps. *)

(* `advance_status` deletes the customer's position when the order ends.   *)
LeftAtEnd(o, p) ==
  IF p \in Over /\ place[o] \notin Over THEN [customer_location EXCEPT ![o] = Null]
                                        ELSE customer_location

MoveOrder(o, p, h) ==
  /\ place' = [place EXCEPT ![o] = p]
  /\ holder' = [holder EXCEPT ![o] = h]
  /\ C(o)!Next
  /\ customer_location' = LeftAtEnd(o, p)
  /\ carried' = IF p = "out" THEN carried \cup {<<o, h>>} ELSE carried
  /\ UNCHANGED <<now, location, pings, open>>

Tick ==
  /\ now < MaxTime
  /\ now' = now + 1
  /\ UNCHANGED <<orders, location, pings, customer_location, open>>

-----------------------------------------------------------------------------
(* The requests. *)

Latest(S) == IF S = {} THEN {Null} ELSE {o \in S : \A p \in S : p <= o}

(* Mutants: whatever its status; whoever carries it. *)
active_order_ever(r) == Latest({o \in Orders : holder[o] = r})
active_order_of_anybody(r) == Latest({o \in Orders : place[o] = "out"})

(* The order the rider carries, the newest if there are several.           *)
active_order_for(r) == Latest({o \in Orders : place[o] = "out" /\ holder[o] = r})

Open(kind, o, r) ==
  /\ Cardinality(open) < MaxOpen
  /\ open' = open \cup {[kind |-> kind, order |-> o, rider |-> r]}
  /\ UNCHANGED <<now, orders, location, pings, customer_location>>

Close(q) == q \in open /\ open' = open \ {q}

(* The rider's handset reports, on duty or not: the order is read.         *)
ReadReport(r) == \E o \in active_order_for(r) : Open("rider report", o, r)

(* One transaction writes the row, and the trail if there is an order.     *)
record_rider_position(q) ==
  /\ Close(q) /\ q.kind = "rider report"
  /\ location' = [location EXCEPT ![q.rider] = [order |-> q.order, received |-> now]]
  /\ pings' = IF q.order = Null THEN pings
              ELSE pings \cup {[order |-> q.order, rider |-> q.rider, received |-> now]}
  /\ UNCHANGED <<now, orders, customer_location>>

(* Mutant: the page is trusted to stop. *)
CheckOrderNever(o) == Open("customer report", o, Null)

(* `CustomerLocationView`: 409 once the order is over. *)
CheckOrder(o) == place[o] \notin Over /\ Open("customer report", o, Null)

record_customer_position(q) ==
  /\ Close(q) /\ q.kind = "customer report"
  /\ customer_location' = [customer_location EXCEPT ![q.order] = now]
  /\ UNCHANGED <<now, orders, location, pings>>

(* The customer's map: who carries the order, then where that rider is.    *)
ReadTracked(o) == place[o] = "out" /\ Open("map", o, holder[o])

is_stale(r) == now - location[r].received > Stale

rider_position_for_tracking(q) ==
  /\ Close(q) /\ q.kind = "map"
  /\ location[q.rider] # Null /\ ~is_stale(q.rider)
  /\ UNCHANGED <<now, orders, location, pings, customer_location>>

(* Nothing to show, or the worker dies. *)
End(q) == Close(q) /\ UNCHANGED <<now, orders, location, pings, customer_location>>

(* `prune_locations`. *)
prune ==
  /\ pings' = {p \in pings : p.received >= now - Retention}
  /\ customer_location' =
       [o \in Orders |-> IF place[o] \in Over THEN Null ELSE customer_location[o]]
  /\ UNCHANGED <<now, orders, location, open>>

Answer(q) ==
  \/ record_rider_position(q) \/ record_customer_position(q)
  \/ rider_position_for_tracking(q) \/ End(q)

Next ==
  \/ \E o \in Orders, p \in {"store", "out"} \cup Over, h \in Riders \cup {Null} : MoveOrder(o, p, h)
  \/ \E r \in Riders : ReadReport(r)
  \/ \E o \in Orders : CheckOrder(o) \/ ReadTracked(o)
  \/ \E q \in open : Answer(q)
  \/ prune
  \/ Tick

Spec == Init /\ [][Next]_vars

(* Requests end, if only by the worker's time limit; the command is on a   *)
(* timer.  Nobody has to report, and no order has to move.                 *)
FairSpec ==
  Spec /\ (\A q \in Requests : WF_vars(q \in open /\ Answer(q))) /\ WF_vars(prune)

-----------------------------------------------------------------------------
(* The trail is evidence: who is said to have been on the way with an order *)
(* has carried it, and an order nobody took out has no trail ("we track     *)
(* during a delivery" is "a true statement about the stored data").         *)
TrailIsEarned ==
  /\ \A p \in pings : <<p.order, p.rider>> \in carried
  /\ \A r \in Riders : location[r] # Null /\ location[r].order # Null =>
       <<location[r].order, r>> \in carried

(* An order's end closes every channel but for the requests already past   *)
(* their read: no trail grows, no position of the customer comes back, and *)
(* nobody is shown the rider.                                              *)
NothingAfterTheEnd ==
  [][\A o \in Orders :
       place[o] \in Over /\ (\A q \in open : q.order # o) =>
         /\ \A p \in pings' \ pings : p.order # o
         /\ customer_location'[o] \in {customer_location[o], Null}
         /\ \A q \in open' : q.order # o]_vars

(* A customer's live position does not stay with the store: after the end  *)
(* of the order it is gone, for good, at the latest with a prune.          *)
PositionsGoForGood ==
  \A o \in Orders : place[o] \in Over ~> [](customer_location[o] = Null)
=============================================================================
