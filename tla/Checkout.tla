------------------------------ MODULE Checkout ------------------------------
(***************************************************************************)
(* Turning baskets into orders, and putting the goods back: api/checkout.py*)
(* with CheckoutView (api/views/store.py), the catalogue's PATCH           *)
(* (api/views/products.py), and the routes to cancel_order and             *)
(* restock_failed_order.                                                   *)
(*                                                                         *)
(* A transaction locks the product rows it needs one at a time and reads   *)
(* each as it locks it; its writes are absolute stock counts computed from *)
(* what it read.  Every attempt creates at most one order, so an order is  *)
(* named by the attempt that created it.  A client that retries after a    *)
(* time-out is a second attempt with the same key, at any moment after the *)
(* first: before it commits, after it, or after its answer was lost.       *)
(* Where an order is follows Custody; Dispatch and OrderRow model how it   *)
(* gets there.                                                             *)
(***************************************************************************)
EXTENDS Integers, FiniteSets, FiniteSetsExt

CONSTANTS
  Attempts,     \* calls of POST /api/store/orders
  Products,     \* product primary keys, in the order rows are locked
  Null,
  Key,          \* Key[a]: its Idempotency-Key, Null when it sends none
  Basket,       \* Basket[a][p]: units asked for, 0 when p is not in it
  Counts,       \* stock counts a manager may write
  MaxEdits      \* bound: catalogue edits

ASSUME CheckoutConstants ==
  /\ Products \subseteq Nat
  /\ Basket \in [Attempts -> [Products -> Nat]]
  /\ Counts \subseteq Nat
  /\ MaxEdits \in Nat
  /\ {"unavailable", "refused"} \cap Attempts = {}
  /\ Null \notin Attempts \cup {"unavailable", "refused"}
  /\ Null \notin {"buy", "return"} \X Attempts

VARIABLES
  stock,        \* Product.stock
  active,       \* Product.status = ACTIVE
  place,        \* where an order's goods are; "none" before the order exists
  restocked,    \* Order.restocked_at is set
  pc,           \* how far each transaction is
  lock,         \* lock[p]: the transaction holding product p's row
  seen,         \* seen[t][p]: the stock t read when it locked p
  reply,        \* what each attempt was answered
  supplied,     \* history: the units of p the shelf was ever credited with
  edits

vars == <<stock, active, place, restocked, pc, lock, seen, reply, supplied, edits>>

(* A checkout, and the return of an order's goods. *)
Buy(a) == <<"buy", a>>
Return(o) == <<"return", o>>

Txns == {"buy", "return"} \X Attempts

Lines(t) == {p \in Products : Basket[t[2]][p] > 0}

Answers == Attempts \cup {"unavailable", "refused"}

TypeOK ==
  /\ stock \in [Products -> Int]
  /\ active \in [Products -> BOOLEAN]
  /\ place \in [Attempts ->
                  {"none", "store", "out", "delivered", "failed", "cancelled"}]
  /\ restocked \in [Attempts -> BOOLEAN]
  /\ pc \in [Txns -> {"new", "missed", "locking"}]
  /\ lock \in [Products -> Txns \cup {Null}]
  /\ seen \in [Txns -> [Products -> Int]]
  /\ reply \in [Attempts -> Answers \cup {Null}]
  /\ supplied \in [Products -> Int]
  /\ edits \in 0 .. MaxEdits

Nothing == [p \in Products |-> 0]

Init ==
  /\ stock \in [Products -> Counts]
  /\ active = [p \in Products |-> TRUE]
  /\ place = [a \in Attempts |-> "none"]
  /\ restocked = [a \in Attempts |-> FALSE]
  /\ pc = [t \in Txns |-> "new"]
  /\ lock = [p \in Products |-> Null]
  /\ seen = [t \in Txns |-> Nothing]
  /\ reply = [a \in Attempts |-> Null]
  /\ supplied = stock
  /\ edits = 0

-----------------------------------------------------------------------------
(* Locking product rows: SELECT ... ORDER BY id FOR UPDATE. *)

Held(t) == {p \in Products : lock[p] = t}
Wanted(t) == Lines(t) \ Held(t)

(* Mutant: returns lock the rows of an order in the order of its items. *)
FirstUnsorted(t) == IF t[1] = "buy" THEN Min(Wanted(t)) ELSE Max(Wanted(t))

First(t) == Min(Wanted(t))

Free(p) == lock[p] = Null

LockRow(t) ==
  /\ pc[t] = "locking" /\ Wanted(t) # {}
  /\ Free(First(t))
  /\ lock' = [lock EXCEPT ![First(t)] = t]
  /\ seen' = [seen EXCEPT ![t][First(t)] = stock[First(t)]]
  /\ UNCHANGED <<stock, active, place, restocked, pc, reply, supplied, edits>>

AllRead(t) == pc[t] = "locking" /\ Wanted(t) = {}

(* Commit or rollback: the rows are released. *)
End(t) ==
  /\ pc' = [pc EXCEPT ![t] = "new"]
  /\ lock' = [p \in Products |-> IF lock[p] = t THEN Null ELSE lock[p]]
  /\ seen' = [seen EXCEPT ![t] = Nothing]

Respond(a, answer) == reply' = [reply EXCEPT ![a] = answer]

-----------------------------------------------------------------------------
(* place_order. *)

Placed(o) == place[o] # "none"

SameKey(a, b) == Key[a] # Null /\ Key[a] = Key[b]

Earlier(a) == {o \in Attempts : Placed(o) /\ SameKey(a, o)}

(* The sequential retry: the lookup before the transaction. *)
Lookup(a) ==
  /\ reply[a] = Null /\ pc[Buy(a)] = "new"
  /\ IF Earlier(a) = {}
     THEN pc' = [pc EXCEPT ![Buy(a)] = "missed"] /\ UNCHANGED reply
     ELSE (\E o \in Earlier(a) : Respond(a, o)) /\ UNCHANGED pc
  /\ UNCHANGED <<stock, active, place, restocked, lock, seen, supplied, edits>>

(* `_place_order` past the store's gates; the product rows come next. *)
Begin(a) ==
  /\ pc[Buy(a)] = "missed"
  /\ pc' = [pc EXCEPT ![Buy(a)] = "locking"]
  /\ UNCHANGED <<stock, active, place, restocked, lock, seen, reply, supplied, edits>>

(* The store is closed, the address too far, the basket below the minimum; *)
(* or the worker dies and the client is left with an error.  Whatever was  *)
(* locked is released and nothing is written.                              *)
Refuse(a) ==
  /\ pc[Buy(a)] # "new"
  /\ End(Buy(a))
  /\ Respond(a, "refused")
  /\ UNCHANGED <<stock, active, place, restocked, supplied, edits>>

(* Mutant: withdrawn products are sold. *)
AvailableWithdrawn(a, p) == seen[Buy(a)][p] >= Basket[a][p]

(* `read_basket`: on offer, and enough of it. *)
Available(a, p) == active[p] /\ seen[Buy(a)][p] >= Basket[a][p]

BasketUnavailable(a) ==
  /\ AllRead(Buy(a))
  /\ \E p \in Lines(Buy(a)) : ~Available(a, p)
  /\ End(Buy(a))
  /\ Respond(a, "unavailable")
  /\ UNCHANGED <<stock, active, place, restocked, supplied, edits>>

(* Mutant: no unique constraint on idempotency_key. *)
PlaceAnyway(a) ==
  /\ AllRead(Buy(a))
  /\ \A p \in Lines(Buy(a)) : Available(a, p)
  /\ End(Buy(a))
  /\ place' = [place EXCEPT ![a] = "store"]
  /\ stock' = [p \in Products |->
                 IF p \in Lines(Buy(a)) THEN seen[Buy(a)][p] - Basket[a][p] ELSE stock[p]]
  /\ Respond(a, a)
  /\ UNCHANGED <<active, restocked, supplied, edits>>

(* The INSERT passes the unique key, and stock and order commit together. *)
_place_order(a) ==
  /\ AllRead(Buy(a))
  /\ \A p \in Lines(Buy(a)) : Available(a, p)
  /\ Earlier(a) = {}
  /\ End(Buy(a))
  /\ place' = [place EXCEPT ![a] = "store"]
  /\ stock' = [p \in Products |->
                 IF p \in Lines(Buy(a)) THEN seen[Buy(a)][p] - Basket[a][p] ELSE stock[p]]
  /\ Respond(a, a)
  /\ UNCHANGED <<active, restocked, supplied, edits>>

(* The concurrent retry: the INSERT waits for the winner's commit, fails,  *)
(* the transaction rolls back, and the winner is read.                     *)
IntegrityError(a) ==
  /\ AllRead(Buy(a))
  /\ \A p \in Lines(Buy(a)) : Available(a, p)
  /\ End(Buy(a))
  /\ \E o \in Earlier(a) : Respond(a, o)
  /\ UNCHANGED <<stock, active, place, restocked, supplied, edits>>

-----------------------------------------------------------------------------
(* cancel_order and restock_failed_order hold the order's row throughout.  *)

RowFree(o) == pc[Return(o)] = "new"

(* Mutant: a failed order is restocked however often it is asked for. *)
ReturnableAgain(o) == place[o] \in {"store", "failed"}

(* Under the order's lock: the goods are in the store (a cancellation), or *)
(* the delivery failed and its goods have not come back yet (a restock).   *)
Returnable(o) == place[o] = "store" \/ (place[o] = "failed" /\ ~restocked[o])

BeginReturn(o) ==
  /\ RowFree(o) /\ Returnable(o)
  /\ pc' = [pc EXCEPT ![Return(o)] = "locking"]
  /\ UNCHANGED <<stock, active, place, restocked, lock, seen, reply, supplied, edits>>

(* `_return_stock`, and the commit with the status or restocked_at. *)
_return_stock(o) ==
  /\ AllRead(Return(o))
  /\ End(Return(o))
  /\ stock' = [p \in Products |->
                 IF p \in Lines(Return(o)) THEN seen[Return(o)][p] + Basket[o][p]
                                           ELSE stock[p]]
  /\ IF place[o] = "store"
     THEN place' = [place EXCEPT ![o] = "cancelled"] /\ UNCHANGED restocked
     ELSE restocked' = [restocked EXCEPT ![o] = TRUE] /\ UNCHANGED place
  /\ UNCHANGED <<active, reply, supplied, edits>>

RollbackReturn(o) ==
  /\ pc[Return(o)] = "locking"
  /\ End(Return(o))
  /\ UNCHANGED <<stock, active, place, restocked, reply, supplied, edits>>

(* The other handlers of the row: out with a rider, back, delivered or     *)
(* failed.  None of them touches stock.                                    *)
Move(o) ==
  /\ RowFree(o)
  /\ \/ place[o] = "store" /\ place' = [place EXCEPT ![o] = "out"]
     \/ /\ place[o] = "out"
        /\ \E p \in {"store", "delivered", "failed"} : place' = [place EXCEPT ![o] = p]
  /\ UNCHANGED <<stock, active, restocked, pc, lock, seen, reply, supplied, edits>>

-----------------------------------------------------------------------------
(* PATCH /api/products/{id} with a stock count or with a status: one row,  *)
(* locked, and only the columns sent are written.                          *)
EditStock(p, n) ==
  /\ edits < MaxEdits /\ edits' = edits + 1
  /\ lock[p] = Null
  /\ stock' = [stock EXCEPT ![p] = n]
  /\ supplied' = [supplied EXCEPT ![p] = @ + (n - stock[p])]
  /\ UNCHANGED <<active, place, restocked, pc, lock, seen, reply>>

EditStatus(p) ==
  /\ edits < MaxEdits /\ edits' = edits + 1
  /\ lock[p] = Null
  /\ active' = [active EXCEPT ![p] = ~@]
  /\ UNCHANGED <<stock, place, restocked, pc, lock, seen, reply, supplied>>

-----------------------------------------------------------------------------
CheckoutStep(a) ==
  \/ Lookup(a) \/ Begin(a)
  \/ LockRow(Buy(a))
  \/ BasketUnavailable(a) \/ _place_order(a) \/ IntegrityError(a)

ReturnStep(o) == LockRow(Return(o)) \/ _return_stock(o)

Next ==
  \/ \E a \in Attempts : CheckoutStep(a) \/ Refuse(a)
  \/ \E o \in Attempts :
       BeginReturn(o) \/ ReturnStep(o) \/ RollbackReturn(o) \/ Move(o)
  \/ \E p \in Products : EditStatus(p) \/ \E n \in Counts : EditStock(p, n)

Spec == Init /\ [][Next]_vars

(* A worker that took a request goes on with it; a waiter for a row gets   *)
(* it in the end, PostgreSQL queues them.  No client and no manager has to *)
(* do anything.                                                            *)
FairSpec ==
  /\ Spec
  /\ \A a \in Attempts :
       SF_vars(CheckoutStep(a) /\ pc[Buy(a)] # "new") /\ SF_vars(ReturnStep(a))

-----------------------------------------------------------------------------
(* Orders whose units are off the shelf. *)
Sold(o) == place[o] \notin {"none", "cancelled"} /\ ~restocked[o]

UnitsSold(p) == MapThenSumSet(LAMBDA o : Basket[o][p], {o \in Attempts : Sold(o)})

(* Nothing is sold that is not there: "two customers, one last packet".    *)
NoOversell == \A p \in Products : stock[p] >= 0

(* No unit appears or disappears: what is on the shelf and what orders     *)
(* have out add up to what the shelf was ever credited with, through every *)
(* checkout, cancellation, failed delivery, restock and correction, so     *)
(* that stock comes back exactly once.                                     *)
Conservation == \A p \in Products : stock[p] + UnitsSold(p) = supplied[p]

(* One key, one order, whether the retry came after the first attempt had  *)
(* committed or while it was in flight; and whoever is answered with an    *)
(* order gets the one his own key made.                                    *)
OneOrderPerKey ==
  /\ \A a, b \in Attempts : Placed(a) /\ Placed(b) /\ SameKey(a, b) => a = b
  /\ \A a \in Attempts : reply[a] \in Attempts =>
       Placed(reply[a]) /\ (reply[a] = a \/ SameKey(a, reply[a]))

(* At the moment an order commits every line of it is on offer and on the  *)
(* shelf, whatever was edited since its rows were read.                    *)
SellsOnlyWhatIsThere ==
  [][\A o \in Attempts : ~Placed(o) /\ place'[o] # "none" =>
       \A p \in Lines(Buy(o)) : active[p] /\ stock[p] >= Basket[o][p]]_vars

(* Goods that are on the shelf are not with a rider: a return that has     *)
(* begun finishes on the order it looked at.                               *)
RestockedOnlyFailed == \A o \in Attempts : restocked[o] => place[o] = "failed"

(* t has to wait for a row: somebody else holds the next one it needs.     *)
Waits(t) == pc[t] = "locking" /\ Wanted(t) # {} /\ ~Free(First(t))

(* Of the transactions under way one at least need not wait, however many  *)
(* baskets overlap: rows are locked in the order of their keys by checkouts*)
(* and returns alike (`order_by("id")` in `read_basket`, `_return_stock`). *)
NobodyWaitsInACircle ==
  (\E t \in Txns : pc[t] = "locking") =>
    \E t \in Txns : pc[t] = "locking" /\ ~Waits(t)

(* Rows are locked in a fixed order, so transactions never wait for each   *)
(* other in a circle: every attempt that was begun is answered and every   *)
(* return ends.                                                            *)
EverybodyIsAnswered ==
  \A a \in Attempts :
    /\ (pc[Buy(a)] # "new") ~> (reply[a] # Null)
    /\ (pc[Return(a)] = "locking") ~> (pc[Return(a)] = "new")

=============================================================================
