----------------------------- MODULE Storefront -----------------------------
(***************************************************************************)
(* What a basket costs and whether the shop takes it: the pricing rules    *)
(* (api/pricing.py), the operational settings a manager PATCHes during a   *)
(* shift (api/views/settings.py), the opening hours (`StoreSettings`,      *)
(* api/models.py) and the two halves of a checkout that read them: the     *)
(* gate, before anything is locked, and the bill, under the lock           *)
(* (`_place_order`, api/checkout.py).                                      *)
(*                                                                         *)
(* An order is stamped when its transaction writes it and seen when that   *)
(* commits: `pending` holds the rows in between.                           *)
(*                                                                         *)
(* Money is counted in the smallest coin, so a price times a quantity needs*)
(* no rounding.  There is one product, always in stock: Checkout has the   *)
(* shelf, and its retries and its races.                                   *)
(***************************************************************************)
EXTENDS Integers, FiniteSetsExt, SequencesExt

CONSTANTS
  Orders,                \* checkouts that may be made
  Managers,
  Null,
  Prices,
  Baskets,               \* what a client may send: the quantity of each line
  Hours,                 \* times a manager may open or close at
  Day,                   \* clock ticks in a day
  MaxTime,               \* bound: the last tick
  MaxPatches,            \* bound: PATCHes sent
  MAX_QUANTITY_PER_ITEM, FREE_DELIVERY_ABOVE, HANDLING_FEE, MIN_ORDER_VALUE, DELIVERY_FEE_INSTANT

ASSUME StorefrontConstants ==
  /\ Prices \subseteq Nat /\ Baskets \subseteq Seq(Nat \ {0})
  /\ MAX_QUANTITY_PER_ITEM \in Nat
  /\ Day \in Nat \ {0} /\ MaxTime \in Nat /\ MaxPatches \in Nat
  /\ Hours \subseteq 0 .. Day - 1
  /\ FREE_DELIVERY_ABOVE \in Nat /\ HANDLING_FEE \in Nat
  /\ MIN_ORDER_VALUE \in Nat /\ DELIVERY_FEE_INSTANT \in Nat
  /\ Null \notin Nat

VARIABLES
  now,       \* timezone.now(), in ticks of the store's time zone
  price,     \* Product.price
  store,     \* the one row of store_settings
  patch,     \* the PATCH of each manager between its read and its save
  patches,   \* how many more are sent
  gate,      \* checkouts that passed the gate and hold no lock yet
  pending,   \* an order's row as an open transaction has written it
  orders     \* the committed rows of orders, Null until placed

storefrontVars == <<now, price, store, patch, patches, gate, pending, orders>>

-----------------------------------------------------------------------------
(* The bill. *)

(* `validate_items`: lines of one product are one line. *)
Merged(lines) == FoldSeq(+, 0, lines)

Acceptable(lines) == lines # <<>> /\ Merged(lines) <= MAX_QUANTITY_PER_ITEM

(* Tiers a client may name; Null when it names none.  One is on offer.     *)
Asked == {Null, "instant", "slow"}
delivery_tiers == [instant |-> DELIVERY_FEE_INSTANT]
resolve_tier(key) == IF key \in DOMAIN delivery_tiers THEN key ELSE "instant"

(* Mutant: a basket worth exactly the threshold still pays. *)
FeeAbove(items, key) ==
  IF items > FREE_DELIVERY_ABOVE THEN 0 ELSE delivery_tiers[resolve_tier(key)]

DeliveryFee(items, key) ==
  IF items >= FREE_DELIVERY_ABOVE THEN 0 ELSE delivery_tiers[resolve_tier(key)]

compute_charges(items, key) ==
  IF items <= 0
    THEN [items |-> 0, delivery |-> 0, handling |-> 0, grand |-> 0]
    ELSE [items    |-> items,
          delivery |-> DeliveryFee(items, key),
          handling |-> HANDLING_FEE,
          grand    |-> items + DeliveryFee(items, key) + HANDLING_FEE]

free_delivery_shortfall(items) ==
  IF items >= FREE_DELIVERY_ABOVE THEN 0 ELSE FREE_DELIVERY_ABOVE - items

(* What the cart shows for a basket, at the price of the moment; an empty  *)
(* one is no error.                                                        *)
quote(lines, key) ==
  LET items == price * Merged(lines)
  IN  [charges       |-> compute_charges(items, resolve_tier(key)),
       shortfall     |-> free_delivery_shortfall(items),
       meets_minimum |-> lines # <<>> /\ items >= MIN_ORDER_VALUE]

-----------------------------------------------------------------------------
(* Is the shop open? *)

hour == now % Day

(* Mutant: one range for every shop, empty for one that closes past        *)
(* midnight.                                                               *)
WithinRange ==
  \/ store.opens_at = store.closes_at
  \/ store.opens_at <= hour /\ hour < store.closes_at

within_hours ==
  \/ store.opens_at = store.closes_at
  \/ /\ store.opens_at < store.closes_at
     /\ store.opens_at <= hour /\ hour < store.closes_at
  \/ /\ store.opens_at > store.closes_at
     /\ store.opens_at <= hour \/ hour < store.closes_at

is_open == store.is_accepting_orders /\ within_hours

-----------------------------------------------------------------------------
(* PATCH /api/settings. *)

Settings == [is_accepting_orders : BOOLEAN, opens_at : Hours, closes_at : Hours]

(* A PATCH may send any of the columns. *)
Touchable == (SUBSET {"is_accepting_orders", "opens_at", "closes_at"}) \ {{}}

(* The row as read, with the columns that were sent set on it. *)
PatchRead(m, touched, row) ==
  /\ patch[m] = Null /\ patches > 0
  /\ \A c \in DOMAIN store \ touched : row[c] = store[c]
  /\ patches' = patches - 1
  /\ patch' = [patch EXCEPT ![m] = [touched |-> touched, row |-> row]]
  /\ UNCHANGED <<now, price, store, gate, pending, orders>>

(* Mutant: saves the whole row as it was read. *)
SavedWhole(m) == patch[m].row

(* `update_fields` names only the columns the caller sent. *)
Saved(m) ==
  [c \in DOMAIN store |-> IF c \in patch[m].touched THEN patch[m].row[c] ELSE store[c]]

PatchSave(m) ==
  /\ patch[m] # Null
  /\ store' = Saved(m)
  /\ patch' = [patch EXCEPT ![m] = Null]
  /\ UNCHANGED <<now, price, patches, gate, pending, orders>>

-----------------------------------------------------------------------------
(* Placing an order locks the product until the transaction ends.          *)
ShelfFree == \A o \in Orders : orders[o] = Null => pending[o] = Null

(* A manager edits the product, under its lock. *)
EditPrice(p) ==
  /\ p # price /\ ShelfFree
  /\ price' = p
  /\ UNCHANGED <<now, store, patch, patches, gate, pending, orders>>

(* Checkout up to the lock: the shop must be open now. *)
PassGate(o) ==
  /\ orders[o] = Null /\ pending[o] = Null /\ o \notin gate
  /\ is_open
  /\ gate' = gate \cup {o}
  /\ UNCHANGED <<now, price, store, patch, patches, pending, orders>>

(* Under the lock: `read_basket`, the minimum, the snapshot, the row with  *)
(* its `created_at`.  `lines` is what was sent, for the properties.        *)
Row(lines, key) ==
  [status |-> "open", created |-> now, paid |-> Null, amount |-> Null,
   late |-> Null, boy |-> Null, collected_by |-> Null,
   lines |-> lines, quantity |-> Merged(lines), price |-> price,
   delivery_type |-> resolve_tier(key),
   charges |-> compute_charges(price * Merged(lines), key)]

_place_order(o, lines, key) ==
  /\ o \in gate /\ ShelfFree
  /\ Acceptable(lines)
  /\ price * Merged(lines) >= MIN_ORDER_VALUE
  /\ pending' = [pending EXCEPT ![o] = Row(lines, key)]
  /\ gate' = gate \ {o}
  /\ UNCHANGED <<now, price, store, patch, patches, orders>>

(* Too little in the basket, a lost connection: nothing is written. *)
Refuse(o) ==
  /\ o \in gate
  /\ gate' = gate \ {o}
  /\ UNCHANGED <<now, price, store, patch, patches, pending, orders>>

(* The transaction that wrote the row ends: after the items, the stock and *)
(* the audit row, and any wait for a lock or for a key another retry holds.*)
Commit(o) ==
  /\ pending[o] # Null
  /\ orders' = [orders EXCEPT ![o] = pending[o]]
  /\ pending' = [pending EXCEPT ![o] = Null]
  /\ UNCHANGED <<now, price, store, patch, patches, gate>>

Rollback(o) ==
  /\ pending[o] # Null
  /\ pending' = [pending EXCEPT ![o] = Null]
  /\ UNCHANGED <<now, price, store, patch, patches, gate, orders>>

Tick ==
  /\ now < MaxTime
  /\ now' = now + 1
  /\ UNCHANGED <<price, store, patch, patches, gate, pending, orders>>

StorefrontInit ==
  /\ now = 0
  /\ price \in Prices
  /\ store \in {s \in Settings : s.is_accepting_orders}
  /\ patch = [m \in Managers |-> Null]
  /\ patches \in 0 .. MaxPatches
  /\ gate = {}
  /\ pending = [o \in Orders |-> Null]
  /\ orders = [o \in Orders |-> Null]

StorefrontNext ==
  \/ Tick
  \/ \E m \in Managers, touched \in Touchable, row \in Settings :
       PatchRead(m, touched, row)
  \/ \E m \in Managers : PatchSave(m)
  \/ \E p \in Prices : EditPrice(p)
  \/ \E o \in Orders : PassGate(o) \/ Refuse(o) \/ Commit(o) \/ Rollback(o)
  \/ \E o \in Orders, lines \in Baskets, key \in Asked :
       _place_order(o, lines, key)

-----------------------------------------------------------------------------
(* The cart and the bill never disagree (`BasketQuoteView`): until the     *)
(* product is priced anew, the cart still shows for the lines of an order  *)
(* what the order was billed, whichever speed a stale client asks for; it  *)
(* pays for delivery exactly when the cart says that something is missing  *)
(* for free delivery (or, where no minimum is asked and the goods cost     *)
(* nothing, never), and adding just that would have made it free.          *)
BillKeepsItsWord ==
  \A o \in Orders : orders[o] # Null =>
    LET row == orders[o]
        bill == row.charges
        missing == free_delivery_shortfall(bill.items)
    IN  /\ bill.items = FoldSeq(LAMBDA q, sum : q * row.price + sum, 0, row.lines)
        /\ row.price = price => \A key \in Asked :
             LET shown == quote(row.lines, key)
             IN  shown.charges = bill /\ shown.shortfall = missing /\ shown.meets_minimum
        /\ bill.delivery = (IF missing > 0 /\ bill.items > 0 THEN DELIVERY_FEE_INSTANT ELSE 0)
        /\ compute_charges(bill.items + missing, row.delivery_type).delivery = 0
        /\ bill.grand = bill.items + bill.delivery + bill.handling

(* A shop somebody deliberately shut opens again only because somebody says*)
(* so: no PATCH of the hours, however stale the row it read, brings the    *)
(* switch back (`StoreSettingsView.patch`).                                *)
PauseHolds ==
  [][~store.is_accepting_orders /\ store'.is_accepting_orders =>
       \E m \in Managers :
         /\ patch[m] # Null /\ patch'[m] = Null
         /\ "is_accepting_orders" \in patch[m].touched
         /\ patch[m].row.is_accepting_orders]_storefrontVars

(* The shop counts as open from the moment it opens until it has been open *)
(* for as long as its hours are, around the clock where they are empty:    *)
(* also a shop that closes after midnight (`StoreSettings.within_hours`).  *)
OpenInItsHours ==
  within_hours <=>
    \/ store.opens_at = store.closes_at
    \/ (hour - store.opens_at) % Day < (store.closes_at - store.opens_at) % Day
=============================================================================
