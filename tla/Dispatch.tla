------------------------------ MODULE Dispatch ------------------------------
(***************************************************************************)
(* Handing orders to riders: api/dispatch.py, the order handlers of        *)
(* api/views/orders.py, the feed of api/views/delivery.py and the roster   *)
(* writes of api/views/users.py, over several orders and riders.           *)
(*                                                                         *)
(* Every handler locks the order row it changes, so a handler that reads   *)
(* nothing else between its lock and its commit is one action.  Three are  *)
(* not: the move to Ready, which reads who is carrying before it locks the *)
(* riders; manager assignment and rider deletion, which check a row before *)
(* they open a transaction; and a rider's decline, which takes no lock.    *)
(* Those are two actions each, with what they read kept in between.  The   *)
(* variables hold committed state: PostgreSQL runs at READ COMMITTED, so   *)
(* that is what another transaction's read returns.                        *)
(***************************************************************************)
EXTENDS OrderStates, Naturals, FiniteSets

CONSTANTS
  Orders,      \* order ids
  Riders,      \* rider primary keys, numbers because `_rank` breaks ties by pk
  Null,
  AUTO_ASSIGN_RIDER,  \* the setting of that name
  Located,     \* the orders that carry a position
  Distance,    \* Distance[o][r]: from the rider's base to the customer
  Grain,       \* ten metres, in units of Distance
  Radius,      \* Radius[r]: User.service_radius_km
  Deletable,   \* the riders a manager may try to delete outright
  MaxOpen      \* bound: requests between their check and their transaction

ASSUME DispatchConstants ==
  /\ Riders \subseteq Nat
  /\ Null \notin Riders
  /\ AUTO_ASSIGN_RIDER \in BOOLEAN
  /\ Located \subseteq Orders
  /\ Distance \in [Orders -> [Riders -> Nat]]
  /\ Grain \in Nat \ {0}
  /\ Radius \in [Riders -> Nat]
  /\ Deletable \subseteq Riders
  /\ MaxOpen \in Nat

VARIABLES
  status,      \* Order.status
  boy,         \* Order.delivery_boy
  rejected,    \* rejected[o]: riders with an OrderRejection row for o
  account,     \* User.is_active, or "deleted" when the row is gone
  available,   \* User.is_available, the rider's own switch
  txn,         \* txn[o]: the transaction moving o to Ready, if one holds its row
  open         \* requests that have passed their unlocked check

vars == <<status, boy, rejected, account, available, txn, open>>

Idle == [by |-> Null, carrying |-> {}, live |-> FALSE]

Requests ==
  [op : {"assign", "delete", "reject"}, rider : Riders, order : Orders \cup {Null}]

TypeOK ==
  /\ status \in [Orders -> Status]
  /\ boy \in [Orders -> Riders \cup {Null}]
  /\ rejected \in [Orders -> SUBSET Riders]
  /\ account \in [Riders -> {"active", "inactive", "deleted"}]
  /\ available \in [Riders -> BOOLEAN]
  /\ txn \in [Orders -> [by : Riders \cup {Null}, carrying : SUBSET Riders,
                         live : BOOLEAN]]
  /\ open \subseteq Requests

Init ==
  /\ status = [o \in Orders |-> "Placed"]
  /\ boy = [o \in Orders |-> Null]
  /\ rejected = [o \in Orders |-> {}]
  /\ account = [r \in Riders |-> "active"]
  /\ available = [r \in Riders |-> TRUE]
  /\ txn = [o \in Orders |-> Idle]
  /\ open = {}

-----------------------------------------------------------------------------
(* The dispatch rule. *)

(* No transaction holds the order's row. *)
Unlocked(o) == ~txn[o].live

(* `_rank`'s filter: an order without a position keeps every rider. *)
InRange(o, r) == o \in Located => Distance[o][r] <= Radius[r]

OnShift(r) == account[r] = "active" /\ available[r]

(* Riders out with some order other than o. *)
Carriers(o) == {boy[x] : x \in {y \in Orders \ {o} : status[y] = "Dispatched"}} \ {Null}

Carrying(r) == \E o \in Orders : status[o] = "Dispatched" /\ boy[o] = r

(* Mutant: without the filter on `is_available`. *)
reachable_off_shift(o) ==
  {r \in Riders : account[r] = "active" /\ r \notin rejected[o] /\ InRange(o, r)}

reachable_riders(o) ==
  {r \in Riders : OnShift(r) /\ r \notin rejected[o] /\ InRange(o, r)}

eligible_riders(o, carrying, declined) ==
  {r \in Riders : OnShift(r) /\ r \notin carrying /\ r \notin declined /\ InRange(o, r)}

(* Mutant: the riders stay in the order the query returned them in. *)
BeforeByKey(o, r, q) == r < q

(* `_rank` filters by the exact distance and sorts by kilometres with two  *)
(* decimals.                                                               *)
Rounded(d) == (2 * d + Grain) \div (2 * Grain)

(* The head of its stable sort: nearest first, to ten metres, ties in key  *)
(* order; an order without a position keeps key order.                     *)
Before(o, r, q) ==
  IF o \in Located THEN \/ Rounded(Distance[o][r]) < Rounded(Distance[o][q])
                        \/ /\ Rounded(Distance[o][r]) = Rounded(Distance[o][q])
                           /\ r < q
                   ELSE r < q

Nearest(o, S) == {r \in S : \A q \in S : ~Before(o, q, r)}

(* `RiderDashboardView._incoming`: is o in r's feed? *)
Incoming(r, o) ==
  /\ available[r] /\ ~Carrying(r)
  /\ status[o] = "Ready" /\ boy[o] = Null
  /\ r \notin rejected[o]
  /\ InRange(o, r)

(* `OrderListView._stalled`, without the clause for late orders. *)
Stalled(o) == status[o] = "Ready" /\ reachable_riders(o) = {}

-----------------------------------------------------------------------------
(* The manager's board and the customer: one locked row each. *)

Move(o, to) ==
  /\ Unlocked(o)
  /\ CanMove(status[o], to)
  /\ status' = [status EXCEPT ![o] = to]

(* PATCH status=Packing by a manager.  From Ready it reopens a bag. *)
StartPacking(o) ==
  /\ Move(o, "Packing")
  /\ UNCHANGED <<boy, rejected, account, available, txn, open>>

(* `cancel_order`, from the console or from the customer's tracking page. *)
(* The stock it returns is in Checkout.                                   *)
cancel_order(o) ==
  /\ status[o] \in CANCELLABLE
  /\ Move(o, "Cancelled")
  /\ UNCHANGED <<boy, rejected, account, available, txn, open>>

(* PATCH status=Delivered or Failed by a manager. *)
ManagerCloses(o, to) ==
  /\ to \in {"Delivered", "Failed"} \cap ADMIN_TARGETS
  /\ Move(o, to)
  /\ UNCHANGED <<boy, rejected, account, available, txn, open>>

-----------------------------------------------------------------------------
(* The rider's app.  A request is authenticated before its transaction and *)
(* `is_active` is not read again, so a rider dismissed in between still    *)
(* acts; one whose row is gone fails the foreign key and rolls back.       *)

SignedIn(r) == account[r] # "deleted"

(* The view checks ownership before the state machine. *)
Owns(r, o) == boy[o] = r

(* Mutant: the claim does not look at the status under its lock. *)
AcceptStale(r, o) ==
  /\ SignedIn(r) /\ Unlocked(o)
  /\ boy[o] \in {Null, r}
  /\ status' = [status EXCEPT ![o] = "Dispatched"]
  /\ boy' = [boy EXCEPT ![o] = r]
  /\ UNCHANGED <<rejected, account, available, txn, open>>

Accept(r, o) ==
  /\ SignedIn(r) /\ Unlocked(o)
  /\ status[o] = "Ready"
  /\ boy[o] \in {Null, r}
  /\ status' = [status EXCEPT ![o] = "Dispatched"]
  /\ boy' = [boy EXCEPT ![o] = r]
  /\ UNCHANGED <<rejected, account, available, txn, open>>

RiderCloses(r, o, to) ==
  /\ to \in {"Delivered", "Failed"} \cap RIDER_TARGETS
  /\ SignedIn(r) /\ Owns(r, o)
  /\ Move(o, to)
  /\ UNCHANGED <<boy, rejected, account, available, txn, open>>

SetAvailable(r) ==
  /\ SignedIn(r)
  /\ available' = [available EXCEPT ![r] = ~@]
  /\ UNCHANGED <<status, boy, rejected, account, txn, open>>

-----------------------------------------------------------------------------
(* The move to Ready and the automatic assignment inside its transaction.  *)

(* `OrderStatusView.patch` up to `eligible_riders`' first query: the order *)
(* row is locked, the move is made (by a rider handing the order back, or  *)
(* by a manager when `by` is Null) and `carrying` is read.  The            *)
(* transaction sees its own update, so o itself carries nobody.  A repeat  *)
(* of Ready on a Ready order takes the same path.                          *)
BeginReady(o, by) ==
  /\ Unlocked(o)
  /\ CanAdvance(status[o], "Ready")
  /\ by # Null => SignedIn(by) /\ Owns(by, o)
  /\ txn' = [txn EXCEPT ![o] = [by |-> by, carrying |-> Carriers(o), live |-> TRUE]]
  /\ UNCHANGED <<status, boy, rejected, account, available, open>>

(* `decline_for`: the rider who hands an order back is not offered it again. *)
decline_for(o) == rejected[o] \cup ({txn[o].by} \ {Null})

(* Mutant: the decline is written after the order was dispatched again. *)
DeclinedBefore(o) == rejected[o]

(* What `eligible_riders` then reads as declined.  The hand-back's own row *)
(* is already written, and no other can have appeared: an insert into      *)
(* order_rejections waits on the order row through its foreign key.        *)
Declined(o) == decline_for(o)

(* The head of `eligible_riders`, if any.  The rider rows are read again   *)
(* under their locks; `carrying` is what was read when the transaction     *)
(* began.                                                                  *)
Candidates(o) ==
  IF AUTO_ASSIGN_RIDER THEN Nearest(o, eligible_riders(o, txn[o].carrying, Declined(o)))
          ELSE {}

(* Mutants: the move to Ready leaves the rider on the order; it releases   *)
(* the rider only after the order was dispatched.                          *)
CommitReadyKeeps(o) ==
  /\ txn[o].live
  /\ rejected' = [rejected EXCEPT ![o] = decline_for(o)]
  /\ status' = [status EXCEPT ![o] = "Ready"]
  /\ txn' = [txn EXCEPT ![o] = Idle]
  /\ UNCHANGED <<boy, account, available, open>>

CommitReadyReleasesLast(o) ==
  /\ txn[o].live
  /\ rejected' = [rejected EXCEPT ![o] = decline_for(o)]
  /\ status' = [status EXCEPT ![o] =
                  IF Candidates(o) = {} THEN "Ready" ELSE "Dispatched"]
  /\ boy' = [boy EXCEPT ![o] = Null]
  /\ txn' = [txn EXCEPT ![o] = Idle]
  /\ UNCHANGED <<account, available, open>>

(* The hand-back's rejection row needs its rider to exist still. *)
CommitReady(o) ==
  /\ txn[o].live
  /\ txn[o].by # Null => SignedIn(txn[o].by)
  /\ rejected' = [rejected EXCEPT ![o] = decline_for(o)]
  /\ \/ /\ Candidates(o) = {}
        /\ status' = [status EXCEPT ![o] = "Ready"]
        /\ boy' = [boy EXCEPT ![o] = Null]
     \/ \E r \in Candidates(o) :
          /\ status' = [status EXCEPT ![o] = "Dispatched"]
          /\ boy' = [boy EXCEPT ![o] = r]
  /\ txn' = [txn EXCEPT ![o] = Idle]
  /\ UNCHANGED <<account, available, open>>

(* The worker dies, the connection drops or a constraint fails: PostgreSQL *)
(* rolls the transaction back and releases the row.                        *)
Rollback(o) ==
  /\ txn[o].live
  /\ txn' = [txn EXCEPT ![o] = Idle]
  /\ UNCHANGED <<status, boy, rejected, account, available, open>>

-----------------------------------------------------------------------------
(* Requests that check first and write later. *)

Request(op, r, o) == [op |-> op, rider |-> r, order |-> o]

Check(op, r, o) ==
  /\ Cardinality(open) < MaxOpen
  /\ open' = open \cup {Request(op, r, o)}

Answer(op, r, o) ==
  /\ Request(op, r, o) \in open
  /\ open' = open \ {Request(op, r, o)}

(* `get_rider`, before `OrderAssignView` opens its transaction. *)
get_rider(r) ==
  /\ account[r] = "active"
  /\ Check("assign", r, Null)
  /\ UNCHANGED <<status, boy, rejected, account, available, txn>>

(* Placed and Packing are walked through Packing and Ready; a Dispatched   *)
(* order is taken from its rider and given to r.                           *)
Assign(o, r) ==
  /\ Answer("assign", r, Null)
  /\ SignedIn(r) /\ Unlocked(o)
  /\ status[o] \notin TERMINAL
  /\ status' = [status EXCEPT ![o] = "Dispatched"]
  /\ boy' = [boy EXCEPT ![o] = r]
  /\ UNCHANGED <<rejected, account, available, txn>>

(* The reads of `OrderRejectView`: only an order on offer to this rider. *)
RejectCheck(o, r) ==
  /\ SignedIn(r)
  /\ r \notin rejected[o]
  /\ status[o] = "Ready"
  /\ r \in reachable_riders(o)
  /\ ~Owns(r, o)
  /\ Check("reject", r, o)
  /\ UNCHANGED <<status, boy, rejected, account, available, txn>>

(* ... and its `get_or_create`, which waits for the order row's lock. *)
Reject(o, r) ==
  /\ Answer("reject", r, o)
  /\ SignedIn(r) /\ Unlocked(o)
  /\ rejected' = [rejected EXCEPT ![o] = @ \cup {r}]
  /\ UNCHANGED <<status, boy, account, available, txn>>

(* The manager's switch, through PUT /api/users/{id}. *)
SetActive(r) ==
  /\ SignedIn(r)
  /\ account' = [account EXCEPT ![r] = IF @ = "active" THEN "inactive" ELSE "active"]
  /\ UNCHANGED <<status, boy, rejected, available, txn, open>>

HasHistory(r) == \E o \in Orders : boy[o] = r

(* `UserDetailView.delete`: a rider with history is deactivated ... *)
Deactivate(r) ==
  /\ r \in Deletable /\ SignedIn(r)
  /\ HasHistory(r)
  /\ account' = [account EXCEPT ![r] = "inactive"]
  /\ available' = [available EXCEPT ![r] = FALSE]
  /\ UNCHANGED <<status, boy, rejected, txn, open>>

(* ... and one the check found without any ... *)
DeleteCheck(r) ==
  /\ r \in Deletable /\ SignedIn(r)
  /\ ~HasHistory(r)
  /\ Check("delete", r, Null)
  /\ UNCHANGED <<status, boy, rejected, account, available, txn>>

(* ... is deleted: delivery_boy is SET_NULL, the rejections cascade. *)
Delete(r) ==
  /\ Answer("delete", r, Null)
  /\ SignedIn(r)
  /\ \A o \in Orders : boy[o] = r => Unlocked(o)
  /\ account' = [account EXCEPT ![r] = "deleted"]
  /\ boy' = [o \in Orders |-> IF boy[o] = r THEN Null ELSE boy[o]]
  /\ rejected' = [o \in Orders |-> rejected[o] \ {r}]
  /\ UNCHANGED <<status, available, txn>>

-----------------------------------------------------------------------------
OrderStep(o) ==
  \/ StartPacking(o)
  \/ cancel_order(o)
  \/ \E to \in {"Delivered", "Failed"} : ManagerCloses(o, to)
  \/ \E by \in Riders \cup {Null} : BeginReady(o, by)
  \/ CommitReady(o)
  \/ Rollback(o)

RiderStep(r, o) ==
  \/ Accept(r, o)
  \/ \E to \in {"Delivered", "Failed"} : RiderCloses(r, o, to)
  \/ Assign(o, r)
  \/ RejectCheck(o, r)
  \/ Reject(o, r)

RosterStep(r) ==
  \/ SetAvailable(r)
  \/ SetActive(r)
  \/ get_rider(r)
  \/ Deactivate(r)
  \/ DeleteCheck(r)
  \/ Delete(r)

Next ==
  \/ \E o \in Orders : OrderStep(o)
  \/ \E r \in Riders, o \in Orders : RiderStep(r, o)
  \/ \E r \in Riders : RosterStep(r)

Spec == Init /\ [][Next]_vars

-----------------------------------------------------------------------------
(* The fairness of FairSpec.  A transaction that holds a row ends, one way *)
(* or the other.  A rider on the roster who is carrying closes a delivery  *)
(* sooner or later: strong fairness, because a manager may hold the row at *)
(* any one attempt but PostgreSQL queues the waiters.                      *)
Ends(o) == CommitReady(o) \/ Rollback(o)

Arrives ==
  \E r \in Riders, o \in Orders, to \in {"Delivered", "Failed"} :
    account[r] = "active" /\ RiderCloses(r, o, to)

FairSpec ==
  Spec /\ (\A o \in Orders : WF_vars(Ends(o))) /\ SF_vars(Arrives)

-----------------------------------------------------------------------------
(* The step that ends o's dispatch transaction with a commit: it changes   *)
(* something of o's, which a rollback does not.                            *)
Committed(o) ==
  /\ txn[o].live /\ ~txn'[o].live
  /\ <<status'[o], boy'[o], rejected'[o]>> # <<status[o], boy[o], rejected[o]>>

AutoAssigned(o) == Committed(o) /\ status'[o] = "Dispatched"

(* An order in the store, or cancelled from it, has no rider on record: a  *)
(* hand-back or a manager's recall that left the column behind would make  *)
(* every later accept answer 409 (orders.py, "Handing an order back to the *)
(* pool must also release the rider").                                     *)
NoRiderInStore ==
  \A o \in Orders :
    status[o] \in {"Placed", "Packing", "Ready", "Cancelled"} => boy[o] = Null

(* A rider's row was deleted outright. *)
Erased == \E r \in Riders : account[r] = "deleted"

(* An order out for delivery, delivered or failed has the rider on record, *)
(* unless some rider was deleted outright: no handler of the order itself  *)
(* loses the rider.                                                        *)
RiderOnRecord ==
  Erased \/ \A o \in Orders :
              status[o] \in {"Dispatched", "Delivered", "Failed"} => boy[o] # Null

(* Automatic assignment never gives an order to a rider who declined it,   *)
(* nor back to the one handing it back in the same transaction, however    *)
(* the decline interleaves with the dispatch; and a decline on record      *)
(* stays for as long as the rider does.                                    *)
DeclineHonoured ==
  [][\A o \in Orders :
       /\ AutoAssigned(o) => boy'[o] \notin rejected[o] \cup {txn[o].by}
       /\ \A r \in rejected[o] : r \in rejected'[o] \/ account'[r] = "deleted"]_vars

(* Free to take o: on shift, in range, not known to the transaction to be  *)
(* out with another order, and without a decline once it has committed.    *)
FreeFor(o) ==
  {r \in Riders : /\ OnShift(r) /\ InRange(o, r)
                  /\ r \notin txn[o].carrying /\ r \notin rejected'[o]}

(* A dispatch passes nobody over: an order that could be given to somebody *)
(* is, none of those it could have been given to is nearer by more than the*)
(* ten metres that `_rank` rounds to, and it goes back to waiting only when*)
(* there is nobody (`eligible_riders`: "every rider who may be handed this *)
(* order right now, nearest first").                                       *)
NobodyIsPassedOver ==
  [][AUTO_ASSIGN_RIDER => \A o \in Orders : Committed(o) =>
       IF status'[o] = "Dispatched"
       THEN /\ boy'[o] \in FreeFor(o)
            /\ o \in Located =>
                 \A r \in FreeFor(o) : Distance[o][boy'[o]] <= Distance[o][r] + Grain
       ELSE FreeFor(o) = {}]_vars

(* An order that waits while somebody could take it does not wait unseen:  *)
(* it leaves Ready, or turns up in some rider's feed, or in the manager's  *)
(* stalled list (`OrderListView._stalled`: waiting "resolves itself the    *)
(* moment one of them drops off").                                         *)
WaitingResolves ==
  \A o \in Orders :
    (status[o] = "Ready") ~>
      \/ status[o] # "Ready"
      \/ Stalled(o)
      \/ \E r \in Riders : account[r] = "active" /\ Incoming(r, o)

(* Every order keeps its promise of custody, seen through the committed    *)
(* columns only, for as long as no rider is deleted outright.              *)
PlaceOf(o) ==
  CASE status[o] \in CANCELLABLE -> "store"
    [] status[o] = "Dispatched"  -> "out"
    [] status[o] = "Delivered"   -> "delivered"
    [] status[o] = "Failed"      -> "failed"
    [] status[o] = "Cancelled"   -> "cancelled"

CustodyOf(o) == INSTANCE Custody WITH place <- PlaceOf(o), holder <- boy[o]

ImplementsCustody ==
  /\ \A o \in Orders : CustodyOf(o)!Init
  /\ [][Erased' \/ \A o \in Orders : [CustodyOf(o)!Next]_<<PlaceOf(o), boy[o]>>]_vars
=============================================================================
