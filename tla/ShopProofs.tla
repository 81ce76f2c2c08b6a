----------------------------- MODULE ShopProofs -----------------------------
(***************************************************************************)
(* Theorems of the shop's two faces: what it sells and what its books say  *)
(* (Books, on the Storefront), and what it shows (Catalogue).              *)
(***************************************************************************)
EXTENDS Books, Catalogue, Sums, SequenceTheorems, TLAPS

(* The larger and the smaller of two. *)
LEMMA MaxMin ==
  ASSUME NEW a \in Int, NEW b \in Int
  PROVE  /\ Max({a, b}) = IF a >= b THEN a ELSE b
         /\ Min({a, b}) = IF a <= b THEN a ELSE b
<1>1. \E x \in {a, b} : \A y \in {a, b} : x >= y
  OBVIOUS
<1>2. Max({a, b}) \in {a, b} /\ \A y \in {a, b} : Max({a, b}) >= y
  BY <1>1 DEF Max
<1>3. \E x \in {a, b} : \A y \in {a, b} : x =< y
  OBVIOUS
<1>4. Min({a, b}) \in {a, b} /\ \A y \in {a, b} : Min({a, b}) =< y
  BY <1>3 DEF Min
<1> QED BY <1>2, <1>4

LEMMA DivFacts ==
  ASSUME NEW a \in Int, NEW b \in Nat \ {0}
  PROVE  a \div b \in Int /\ (a \div b) * b <= a /\ a < (a \div b) * b + b
OBVIOUS

-----------------------------------------------------------------------------
(* What holds of one row: when it was placed and paid, and what it cost.   *)
Dated(row) ==
  /\ row.created <= now
  /\ row.paid # Null => row.created <= row.paid /\ row.paid <= now
  /\ row.status = "Delivered" <=> row.paid # Null
  /\ row.status = "Delivered" <=> row.amount # Null
  /\ row.status = "Delivered" /\ row.boy = Null => Erased

Billed(row) ==
  /\ row.lines # <<>> /\ row.quantity = Merged(row.lines)
  /\ row.price * row.quantity >= MIN_ORDER_VALUE
  /\ row.charges = compute_charges(row.price * row.quantity, "instant")

(* A row that waits for its commit is a new order's, or the delivery of one*)
(* that is on record.                                                      *)
Continues(o) ==
  IF orders[o] = Null
    THEN pending[o].status = "open"
    ELSE /\ orders[o].status = "open" /\ pending[o].status = "Delivered"
         /\ pending[o].created = orders[o].created
         /\ pending[o].charges = orders[o].charges

Sound(o) ==
  /\ orders[o] # Null =>
       orders[o] \in PlacedRows /\ Dated(orders[o]) /\ Billed(orders[o])
  /\ pending[o] # Null =>
       /\ pending[o] \in PlacedRows /\ Dated(pending[o]) /\ Billed(pending[o])
       /\ Continues(o)

Placed == {o \in Orders : orders[o] # Null}

Edited == [touched : Touchable, row : Settings]

(* A report is a record, whatever has been read. *)
ReportShape(r) ==
  r = [kind |-> r.kind, window |-> r.window, settled |-> r.settled, read |-> r.read]

RowsInv ==
  /\ gate \subseteq {o \in Orders : orders[o] = Null /\ pending[o] = Null}
  /\ orders \in [Orders -> PlacedRows \cup {Null}]
  /\ pending \in [Orders -> PlacedRows \cup {Null}]
  /\ \A o \in Orders : Sound(o)
  /\ IsFiniteSet(Placed)

ShopInv ==
  /\ now \in 0 .. MaxTime
  /\ price \in Prices
  /\ store \in Settings
  /\ patch \in [Managers -> Edited \cup {Null}]
  /\ patches \in 0 .. MaxPatches
  /\ roster \in [Riders -> {"on", "checked", "gone"}]
  /\ report # Null => /\ report.kind \in Kinds
                      /\ report.window \in Int \X Int
                      /\ report.window[1] <= report.window[2]
                      /\ ReportShape(report)

BooksInv == ShopInv /\ RowsInv

-----------------------------------------------------------------------------
(* There is one speed, whatever a client asks for.                         *)
LEMMA TierIsInstant == \A key : resolve_tier(key) = "instant"
BY DEF resolve_tier, delivery_tiers

(* A bill is made of amounts, and its speed is the instant one.            *)
LEMMA ChargesType ==
  ASSUME NEW n \in Nat, NEW key
  PROVE  /\ compute_charges(n, key) \in Charges
         /\ compute_charges(n, key) = compute_charges(n, "instant")
         /\ compute_charges(n, key).items = n
BY TierIsInstant, StorefrontConstants DEF compute_charges, DeliveryFee, Charges, delivery_tiers

(* The units of a basket. *)
LEMMA MergedIsTotal ==
  ASSUME NEW lines \in Seq(Nat \ {0})
  PROVE  /\ Merged(lines) = Total(lines, DOMAIN lines)
         /\ IsFiniteSet(DOMAIN lines)
         /\ Merged(lines) \in Nat
<1>1. Merged(lines) = Total(lines, DOMAIN lines)
  BY DEF Merged, FoldSeq, FoldFunction, FoldFunctionOnSet, Total, MapThenSumSet
<1>2. IsFiniteSet(DOMAIN lines)
  BY FS_Interval
<1>3. \A i \in DOMAIN lines : lines[i] \in Nat
  OBVIOUS
<1> QED BY <1>1, <1>2, <1>3, TotalType

(* A basket that is not empty holds something.                             *)
LEMMA MergedPositive ==
  ASSUME NEW lines \in Seq(Nat \ {0}), lines # <<>>
  PROVE  Merged(lines) \in Nat \ {0}
<1> DEFINE D == DOMAIN lines
<1>1. 1 \in D /\ IsFiniteSet(D) /\ (\A i \in D : lines[i] \in Nat \ {0})
  BY MergedIsTotal
<1>2. Total(lines, D) = lines[1] + Total(lines, D \ {1})
  BY <1>1, TotalRemove
<1>3. IsFiniteSet(D \ {1}) /\ \A i \in D \ {1} : lines[i] \in Nat
  BY <1>1, FS_Subset
<1>4. Total(lines, D \ {1}) \in Nat
  BY <1>3, TotalType
<1> QED BY <1>1, <1>2, <1>4, MergedIsTotal

(* A row just placed has its shape, its dates and its bill.                *)
LEMMA RowIsGood ==
  ASSUME BooksInv, NEW lines \in Baskets, NEW key \in Asked, Acceptable(lines),
         price * Merged(lines) >= MIN_ORDER_VALUE
  PROVE  /\ Row(lines, key) \in PlacedRows
         /\ Dated(Row(lines, key)) /\ Billed(Row(lines, key))
<1>1. now \in Nat /\ price \in Nat /\ lines \in Seq(Nat \ {0}) /\ Null \notin Nat
  BY StorefrontConstants DEF BooksInv, ShopInv
<1>2. Merged(lines) \in Nat
  BY <1>1, MergedIsTotal
<1>3. price * Merged(lines) \in Nat
  BY <1>1, <1>2
<1>4. /\ compute_charges(price * Merged(lines), key) \in Charges
      /\ compute_charges(price * Merged(lines), key) = compute_charges(price * Merged(lines), "instant")
  BY <1>3, ChargesType
<1>5. resolve_tier(key) = "instant"
  BY TierIsInstant
<1>6. Row(lines, key) =
        [status |-> "open", created |-> now, paid |-> Null, amount |-> Null,
         late |-> Null, boy |-> Null, collected_by |-> Null,
         lines |-> lines, quantity |-> Merged(lines), price |-> price,
         delivery_type |-> "instant",
         charges |-> compute_charges(price * Merged(lines), "instant")]
  BY <1>4, <1>5 DEF Row
<1>7. Row(lines, key) \in PlacedRows
  BY <1>1, <1>2, <1>4, <1>6 DEF PlacedRows
<1>8. Dated(Row(lines, key))
  BY <1>1, <1>6 DEF Dated
<1>9. Billed(Row(lines, key))
  BY <1>1, <1>6 DEF Billed, Acceptable
<1> QED BY <1>7, <1>8, <1>9

(* Time passes and a row stays good. *)
LEMMA RowStaysGood ==
  ASSUME NEW row \in PlacedRows, Dated(row), Billed(row),
         now \in Nat, now' \in Nat, now <= now', Erased => Erased'
  PROVE  Dated(row)' /\ Billed(row)'
<1>1. Billed(row)'
  BY DEF Billed
<1>2. row.created \in Nat /\ row.paid \in Nat \cup {Null}
  BY DEF PlacedRows
<1>3. Dated(row)'
  BY <1>2 DEF Dated
<1> QED BY <1>1, <1>3

(* And an order that a step leaves alone stays sound. *)
LEMMA SoundStays ==
  ASSUME NEW o \in Orders, Sound(o), orders'[o] = orders[o], pending'[o] = pending[o],
         now \in Nat, now' \in Nat, now <= now', Erased => Erased'
  PROVE  Sound(o)'
<1>1. ASSUME NEW row \in PlacedRows, Dated(row), Billed(row) PROVE Dated(row)' /\ Billed(row)'
  BY <1>1, RowStaysGood
<1>2. orders[o] # Null => Dated(orders[o])' /\ Billed(orders[o])'
  <2> SUFFICES ASSUME orders[o] # Null PROVE Dated(orders[o])' /\ Billed(orders[o])'
    OBVIOUS
  <2>1. PICK row \in PlacedRows : row = orders[o] /\ Dated(row) /\ Billed(row)
    BY DEF Sound
  <2> QED BY <1>1, <2>1 DEF Dated, Billed
<1>3. pending[o] # Null => Dated(pending[o])' /\ Billed(pending[o])'
  <2> SUFFICES ASSUME pending[o] # Null PROVE Dated(pending[o])' /\ Billed(pending[o])'
    OBVIOUS
  <2>1. PICK row \in PlacedRows : row = pending[o] /\ Dated(row) /\ Billed(row)
    BY DEF Sound
  <2> QED BY <1>1, <2>1 DEF Dated, Billed
<1>4. pending[o] # Null => Continues(o)'
  BY DEF Sound, Continues
<1> QED BY <1>2, <1>3, <1>4 DEF Sound

LEMMA WindowsAreOrdered ==
  ASSUME BooksInv, NEW w \in Windows
  PROVE  w \in Int \X Int /\ w[1] <= w[2]
<1>1. today \in Int /\ Days \subseteq Int
  BY StorefrontConstants DEF today, BooksInv, ShopInv, Days
<1>2. PICK from \in Days \cup {Null}, to \in Days \cup {Null} : w = read_window(from, to)
  BY DEF Windows
<1> DEFINE last  == IF to = Null THEN today ELSE to
           first == IF from = Null THEN last - (DEFAULT_WINDOW_DAYS - 1) ELSE from
           lo    == Min({first, last})
           hi    == Max({first, last})
<1>3. last \in Int /\ first \in Int
  <2>1. last \in Int
    BY <1>1
  <2>2. DEFAULT_WINDOW_DAYS \in Nat /\ (from # Null => from \in Int)
    BY <1>1, BooksConstants
  <2> HIDE DEF last
  <2> QED BY <2>1, <2>2
<1>4. lo \in Int /\ hi \in Int /\ lo <= hi
  <2> HIDE DEF last, first
  <2> QED BY <1>3, MaxMin
<1>5. hi - MAX_WINDOW_DAYS \in Int /\ hi - MAX_WINDOW_DAYS <= hi
  BY <1>4, BooksConstants
<1>6. w = <<Max({lo, hi - MAX_WINDOW_DAYS}), hi>>
  BY <1>2 DEF read_window
<1>7. Max({lo, hi - MAX_WINDOW_DAYS}) \in Int /\ Max({lo, hi - MAX_WINDOW_DAYS}) <= hi
  <2> HIDE DEF lo, hi
  <2> QED BY <1>4, <1>5, MaxMin
<1> QED BY <1>4, <1>6, <1>7

(* A rider that is gone stays gone. *)
LEMMA ErasedStays ==
  ASSUME ShopInv, [Next]_vars, Erased
  PROVE  Erased'
<1>1. PICK r \in Riders : roster[r] = "gone"
  BY DEF Erased
<1>2. roster'[r] = "gone"
  <2>1. CASE roster' = roster
    BY <1>1, <2>1
  <2>2. CASE roster' # roster
    <3>1. PICK q \in Riders :
            \/ roster[q] = "on" /\ roster' = [roster EXCEPT ![q] = "checked"]
            \/ roster' = [roster EXCEPT ![q] = "gone"]
      BY <2>2 DEF Next, vars, Deliver, Fail, Cancel, End, DeleteCheck, Erase, Ask, Statement, Show
    <3> QED BY <1>1, <3>1 DEF ShopInv
  <2> QED BY <2>1, <2>2
<1> QED BY <1>2 DEF Erased

(* The rows do not move: time and the shop go on. *)
LEMMA RowsUnread ==
  ASSUME BooksInv, orders' = orders, pending' = pending, Erased => Erased',
         now' \in Nat, now <= now',
         gate' \subseteq {o \in Orders : orders[o] = Null /\ pending[o] = Null}
  PROVE  RowsInv'
<1>1. now \in Nat
  BY DEF BooksInv, ShopInv
<1>2. \A o \in Orders : Sound(o)'
  BY <1>1, SoundStays DEF BooksInv, RowsInv
<1>3. Placed' = Placed
  BY DEF Placed
<1> QED BY <1>2, <1>3 DEF BooksInv, RowsInv

(* One order moves. *)
LEMMA OneRow ==
  ASSUME BooksInv, NEW o \in Orders,
         UNCHANGED <<now, price, store, patch, patches, roster, report>>,
         gate' \subseteq gate \ {o},
         orders' \in [Orders -> PlacedRows \cup {Null}],
         pending' \in [Orders -> PlacedRows \cup {Null}],
         \A p \in Orders \ {o} : orders'[p] = orders[p] /\ pending'[p] = pending[p],
         Sound(o)'
  PROVE  BooksInv'
<1>1. now \in Nat
  BY DEF BooksInv, ShopInv
<1>2. Erased' = Erased
  BY DEF Erased
<1>3. \A p \in Orders \ {o} : Sound(p)'
  BY <1>1, <1>2, SoundStays DEF BooksInv, RowsInv
<1>4. IsFiniteSet(Placed')
  <2>1. IsFiniteSet(Placed \cup {o})
    BY FS_AddElement DEF BooksInv, RowsInv
  <2>2. Placed' \subseteq Placed \cup {o}
    BY DEF Placed
  <2> QED BY <2>1, <2>2, FS_Subset
<1>5. gate' \subseteq {p \in Orders : orders'[p] = Null /\ pending'[p] = Null}
  BY DEF BooksInv, RowsInv
<1>6. RowsInv'
  BY <1>3, <1>4, <1>5 DEF RowsInv
<1> QED BY <1>6 DEF BooksInv, ShopInv

(* An open order, whose row nobody holds. *)
LEMMA EndableRow ==
  ASSUME BooksInv, NEW o \in Orders, Endable(o)
  PROVE  /\ orders[o] \in PlacedRows /\ Dated(orders[o]) /\ Billed(orders[o])
         /\ orders[o] # Null /\ pending[o] = Null /\ orders[o].status = "open"
         /\ orders[o].paid = Null /\ orders[o].amount = Null
         /\ o \notin gate
<1>1. /\ orders[o] \in PlacedRows /\ Dated(orders[o]) /\ Billed(orders[o])
      /\ orders[o] # Null /\ pending[o] = Null /\ orders[o].status = "open"
  BY DEF Endable, BooksInv, RowsInv, Sound
<1>2. o \notin gate
  BY <1>1 DEF BooksInv, RowsInv
<1> QED BY <1>1, <1>2 DEF Dated

(* What a delivery writes. *)
DeliveredRow(row, r, door) ==
  [row EXCEPT !.status = "Delivered", !.paid = now, !.boy = r, !.late = door[2],
     !.amount = Max({row.charges.grand - door[1], 0}),
     !.collected_by = IF door[3] THEN r ELSE Null]

LEMMA DeliverKeeps ==
  ASSUME BooksInv, NEW o \in Orders, Deliver(o)
  PROVE  BooksInv'
<1>1. /\ Endable(o)
      /\ UNCHANGED <<now, price, store, patch, patches, gate, orders, roster, report>>
  BY DEF Deliver
<1>2. PICK r \in Carriers, door \in Doors :
        pending' = [pending EXCEPT ![o] = DeliveredRow(orders[o], r, door)]
  BY DEF Deliver, DeliveredRow
<1>3. /\ orders[o] \in PlacedRows /\ Dated(orders[o]) /\ Billed(orders[o])
      /\ orders[o] # Null /\ orders[o].status = "open" /\ orders[o].paid = Null
      /\ o \notin gate
  BY <1>1, EndableRow
<1> DEFINE taken == Max({orders[o].charges.grand - door[1], 0})
           new == DeliveredRow(orders[o], r, door)
<1>4. taken \in Nat
  <2>1. orders[o].charges.grand - door[1] \in Int
    BY <1>3, BooksConstants DEF PlacedRows, Charges
  <2> QED BY <2>1, MaxMin
<1>5. /\ now \in Nat /\ door[2] \in BOOLEAN /\ now # Null /\ taken # Null
      /\ r \in Riders \cup {Null} /\ (r = Null => Erased)
  BY <1>4, BooksConstants, StorefrontConstants DEF BooksInv, ShopInv, Carriers
<1>6. new = [orders[o] EXCEPT !.status = "Delivered", !.paid = now, !.boy = r, !.late = door[2],
               !.amount = taken, !.collected_by = IF door[3] THEN r ELSE Null]
  BY DEF DeliveredRow
<1> HIDE DEF taken, new
<1>7. /\ new.created = orders[o].created /\ new.paid = now /\ new.status = "Delivered"
      /\ new.amount = taken /\ new.boy = r
      /\ new.lines = orders[o].lines /\ new.quantity = orders[o].quantity
      /\ new.price = orders[o].price /\ new.charges = orders[o].charges
  BY <1>3, <1>6 DEF PlacedRows
<1>8. new \in PlacedRows
  <2>1. (IF door[3] THEN r ELSE Null) \in Riders \cup {Null}
    BY <1>5
  <2> DEFINE b == IF door[3] THEN r ELSE Null
             l == door[2]
  <2>2. b \in Riders \cup {Null} /\ l \in BOOLEAN
    BY <1>5, <2>1
  <2>3. new = [orders[o] EXCEPT !.status = "Delivered", !.paid = now, !.boy = r, !.late = l,
                 !.amount = taken, !.collected_by = b]
    BY <1>6
  <2> HIDE DEF b, l
  <2> QED BY <1>3, <1>4, <1>5, <2>2, <2>3 DEF PlacedRows
<1>9. Dated(new)
  BY <1>3, <1>5, <1>7 DEF Dated, PlacedRows
<1>10. Billed(new)
  BY <1>3, <1>7 DEF Billed
<1>11. orders' = orders /\ pending'[o] = new /\ \A p \in Orders \ {o} : pending'[p] = pending[p]
  BY <1>1, <1>2 DEF new, BooksInv, RowsInv
<1>12. pending' \in [Orders -> PlacedRows \cup {Null}]
  BY <1>2, <1>8 DEF new, BooksInv, RowsInv
<1>13. Sound(o)'
  <2>1. now' = now /\ Erased' = Erased
    BY <1>1 DEF Erased
  <2>2. ASSUME NEW row \in PlacedRows, Dated(row), Billed(row) PROVE Dated(row)' /\ Billed(row)'
    BY <1>5, <2>1, <2>2, RowStaysGood
  <2>3. Dated(orders[o])' /\ Billed(orders[o])'
    <3>1. PICK row \in PlacedRows : row = orders[o] /\ Dated(row) /\ Billed(row)
      BY <1>3
    <3> QED BY <1>11, <2>2, <3>1 DEF Dated, Billed
  <2>4. Dated(pending[o])' /\ Billed(pending[o])'
    <3>1. PICK row \in PlacedRows : row = new /\ Dated(row) /\ Billed(row)
      BY <1>8, <1>9, <1>10
    <3> QED BY <1>11, <2>2, <3>1 DEF Dated, Billed
  <2>5. Continues(o)'
    BY <1>3, <1>7, <1>11 DEF Continues
  <2> QED BY <1>3, <1>8, <1>11, <2>3, <2>4, <2>5 DEF Sound
<1> QED BY <1>1, <1>3, <1>11, <1>12, <1>13, OneRow DEF BooksInv, RowsInv

(* The ends without a payment. *)
LEMMA EndKeeps ==
  ASSUME BooksInv, NEW o \in Orders, NEW to \in {"Failed", "Cancelled"},
         NEW r \in Riders \cup {Null}, End(o, to, r)
  PROVE  BooksInv'
<1>1. /\ Endable(o) /\ orders' = [orders EXCEPT ![o].status = to, ![o].boy = r]
      /\ UNCHANGED <<now, price, store, patch, patches, gate, pending, roster, report>>
  BY DEF End
<1> DEFINE new == [orders[o] EXCEPT !.status = to, !.boy = r]
<1>2. /\ orders[o] \in PlacedRows /\ Dated(orders[o]) /\ Billed(orders[o])
      /\ orders[o].paid = Null /\ orders[o].amount = Null
      /\ orders[o] # Null /\ pending[o] = Null /\ o \notin gate
  BY <1>1, EndableRow
<1>3. new \in PlacedRows
  BY <1>2 DEF PlacedRows
<1>4. Dated(new) /\ Billed(new)
  BY <1>2 DEF Dated, Billed, PlacedRows
<1>5. orders' = [orders EXCEPT ![o] = new]
  BY <1>1 DEF BooksInv, RowsInv
<1> HIDE DEF new
<1>6. orders'[o] = new /\ \A p \in Orders \ {o} : orders'[p] = orders[p]
  BY <1>5 DEF BooksInv, RowsInv
<1>7. orders' \in [Orders -> PlacedRows \cup {Null}]
  BY <1>3, <1>5 DEF BooksInv, RowsInv
<1>8. Sound(o)'
  <2>1. now' = now /\ Erased' = Erased /\ now \in Nat
    BY <1>1 DEF Erased, BooksInv, ShopInv
  <2>2. Dated(orders[o])' /\ Billed(orders[o])'
    <3>1. PICK row \in PlacedRows : row = new /\ Dated(row) /\ Billed(row)
      BY <1>3, <1>4
    <3>2. Dated(row)' /\ Billed(row)'
      BY <2>1, <3>1, RowStaysGood
    <3> QED BY <1>6, <3>1, <3>2 DEF Dated, Billed
  <2> QED BY <1>1, <1>2, <1>3, <1>6, <2>2 DEF Sound
<1> QED BY <1>1, <1>2, <1>6, <1>7, <1>8, OneRow DEF BooksInv, RowsInv

LEMMA FailKeeps ==
  ASSUME BooksInv, NEW o \in Orders, Fail(o)
  PROVE  BooksInv'
<1>1. PICK r \in Carriers : End(o, "Failed", r)
  BY DEF Fail
<1>2. r \in Riders \cup {Null}
  BY DEF Carriers
<1> QED BY <1>1, <1>2, EndKeeps

LEMMA CancelKeeps ==
  ASSUME BooksInv, NEW o \in Orders, Cancel(o)
  PROVE  BooksInv'
<1>1. End(o, "Cancelled", orders[o].boy) /\ Endable(o)
  BY DEF Cancel, End
<1>2. orders[o].boy \in Riders \cup {Null}
  BY <1>1, EndableRow DEF PlacedRows
<1> QED BY <1>1, <1>2, EndKeeps

LEMMA PlaceKeeps ==
  ASSUME BooksInv, NEW o \in Orders, NEW lines \in Baskets, NEW key \in Asked,
         _place_order(o, lines, key), roster' = roster, report' = report
  PROVE  BooksInv'
<1> DEFINE new == Row(lines, key)
<1>1. /\ o \in gate /\ Acceptable(lines) /\ price * Merged(lines) >= MIN_ORDER_VALUE
      /\ pending' = [pending EXCEPT ![o] = new]
      /\ gate' = gate \ {o}
      /\ UNCHANGED <<now, price, store, patch, patches, orders>>
  BY DEF _place_order
<1>2. new \in PlacedRows /\ Dated(new) /\ Billed(new)
  BY <1>1, RowIsGood
<1>3. new.status = "open"
  BY DEF Row
<1> HIDE DEF new
<1>4. /\ pending' \in [Orders -> PlacedRows \cup {Null}] /\ pending'[o] = new
      /\ \A p \in Orders \ {o} : pending'[p] = pending[p]
      /\ orders[o] = Null /\ orders' = orders
  BY <1>1, <1>2 DEF BooksInv, RowsInv
<1>5. Sound(o)'
  <2>1. now' = now /\ Erased' = Erased /\ now \in Nat
    BY <1>1 DEF Erased, BooksInv, ShopInv
  <2>2. PICK row \in PlacedRows : row = new /\ Dated(row) /\ Billed(row)
    BY <1>2
  <2>3. Dated(row)' /\ Billed(row)'
    BY <2>1, <2>2, RowStaysGood
  <2>4. Dated(pending[o])' /\ Billed(pending[o])'
    BY <1>4, <2>2, <2>3 DEF Dated, Billed
  <2>5. Continues(o)'
    BY <1>3, <1>4 DEF Continues
  <2> QED BY <1>2, <1>4, <2>4, <2>5 DEF Sound
<1> QED BY <1>1, <1>4, <1>5, OneRow DEF BooksInv, RowsInv

LEMMA CommitKeeps ==
  ASSUME BooksInv, NEW o \in Orders, Commit(o), roster' = roster, report' = report
  PROVE  BooksInv'
<1>1. /\ pending[o] # Null /\ orders' = [orders EXCEPT ![o] = pending[o]]
      /\ pending' = [pending EXCEPT ![o] = Null]
      /\ UNCHANGED <<now, price, store, patch, patches, gate>>
  BY DEF Commit
<1>2. /\ pending[o] \in PlacedRows /\ Dated(pending[o]) /\ Billed(pending[o])
      /\ o \notin gate
  BY <1>1 DEF BooksInv, RowsInv, Sound
<1>3. /\ orders' \in [Orders -> PlacedRows \cup {Null}] /\ pending' \in [Orders -> PlacedRows \cup {Null}]
      /\ orders'[o] = pending[o] /\ pending'[o] = Null
      /\ \A p \in Orders \ {o} : orders'[p] = orders[p] /\ pending'[p] = pending[p]
  BY <1>1, <1>2 DEF BooksInv, RowsInv
<1>4. Sound(o)'
  <2>1. now' = now /\ Erased' = Erased /\ now \in Nat
    BY <1>1 DEF Erased, BooksInv, ShopInv
  <2>2. PICK row \in PlacedRows : row = pending[o] /\ Dated(row) /\ Billed(row)
    BY <1>2
  <2>3. Dated(row)' /\ Billed(row)'
    BY <2>1, <2>2, RowStaysGood
  <2> QED BY <1>3, <2>2, <2>3 DEF Sound, Dated, Billed
<1> QED BY <1>1, <1>2, <1>3, <1>4, OneRow

LEMMA RollbackKeeps ==
  ASSUME BooksInv, NEW o \in Orders, Rollback(o), roster' = roster, report' = report
  PROVE  BooksInv'
<1>1. /\ pending[o] # Null /\ pending' = [pending EXCEPT ![o] = Null]
      /\ UNCHANGED <<now, price, store, patch, patches, gate, orders>>
  BY DEF Rollback
<1>2. /\ o \notin gate /\ pending' \in [Orders -> PlacedRows \cup {Null}] /\ pending'[o] = Null
      /\ \A p \in Orders \ {o} : pending'[p] = pending[p]
  BY <1>1 DEF BooksInv, RowsInv
<1>3. Sound(o)'
  <2>1. now' = now /\ Erased' = Erased /\ now \in Nat
    BY <1>1 DEF Erased, BooksInv, ShopInv
  <2>2. CASE orders[o] = Null
    BY <1>1, <1>2, <2>2 DEF Sound
  <2>3. CASE orders[o] # Null
    <3>1. PICK row \in PlacedRows : row = orders[o] /\ Dated(row) /\ Billed(row)
      BY <2>3 DEF BooksInv, RowsInv, Sound
    <3>2. Dated(row)' /\ Billed(row)'
      BY <2>1, <3>1, RowStaysGood
    <3> QED BY <1>1, <1>2, <3>1, <3>2 DEF Sound, Dated, Billed
  <2> QED BY <2>2, <2>3
<1> QED BY <1>1, <1>2, <1>3, OneRow DEF BooksInv, RowsInv

(* An order that loses its rider keeps what the reports add up. *)
LEMMA ForgetKeeps ==
  ASSUME NEW row \in PlacedRows, NEW r \in Riders
  PROVE  /\ Forget(row, r) \in PlacedRows /\ Forget(row, r) # Null
         /\ Forget(row, r).status = row.status /\ Forget(row, r).created = row.created
         /\ Forget(row, r).paid = row.paid /\ Forget(row, r).amount = row.amount
         /\ Forget(row, r).charges = row.charges /\ Forget(row, r).lines = row.lines
         /\ Forget(row, r).quantity = row.quantity /\ Forget(row, r).price = row.price
<1> DEFINE b == IF row.boy = r THEN Null ELSE row.boy
           c == IF row.collected_by = r THEN Null ELSE row.collected_by
           new == [row EXCEPT !.boy = b, !.collected_by = c]
<1>1. b \in Riders \cup {Null} /\ c \in Riders \cup {Null}
  BY DEF PlacedRows
<1>2. Forget(row, r) = new
  BY DEF Forget
<1> HIDE DEF b, c
<1>3. /\ new \in PlacedRows
      /\ new.status = row.status /\ new.created = row.created
      /\ new.paid = row.paid /\ new.amount = row.amount
      /\ new.charges = row.charges /\ new.lines = row.lines
      /\ new.quantity = row.quantity /\ new.price = row.price
  BY <1>1 DEF PlacedRows
<1> QED BY <1>2, <1>3, NullIsNoRow

LEMMA EraseKeeps ==
  ASSUME BooksInv, NEW r \in Riders, Erase(r)
  PROVE  BooksInv'
<1>1. /\ \A o \in Orders : pending[o] # Null => pending[o].boy # r
      /\ orders' = [o \in Orders |-> IF orders[o] = Null THEN Null ELSE Forget(orders[o], r)]
      /\ roster' = [roster EXCEPT ![r] = "gone"]
      /\ UNCHANGED <<now, price, store, patch, patches, gate, pending, report>>
  BY DEF Erase
<1>2. roster'[r] = "gone" /\ Erased'
  BY <1>1 DEF BooksInv, ShopInv, Erased
<1>3. ASSUME NEW o \in Orders, orders[o] # Null
      PROVE  /\ orders[o] \in PlacedRows /\ Dated(orders[o]) /\ Billed(orders[o])
             /\ orders'[o] = Forget(orders[o], r) /\ orders'[o] \in PlacedRows /\ orders'[o] # Null
             /\ orders'[o].status = orders[o].status /\ orders'[o].created = orders[o].created
             /\ orders'[o].paid = orders[o].paid /\ orders'[o].amount = orders[o].amount
             /\ orders'[o].charges = orders[o].charges /\ orders'[o].lines = orders[o].lines
             /\ orders'[o].quantity = orders[o].quantity /\ orders'[o].price = orders[o].price
  <2>1. orders[o] \in PlacedRows /\ Dated(orders[o]) /\ Billed(orders[o])
    BY <1>3 DEF BooksInv, RowsInv, Sound
  <2>2. orders'[o] = Forget(orders[o], r)
    BY <1>1, <1>3
  <2> QED BY <2>1, <2>2, ForgetKeeps
<1>4. \A o \in Orders : orders[o] = Null => orders'[o] = Null
  BY <1>1
<1>5. ASSUME NEW o \in Orders PROVE Sound(o)'
  <2>1. orders'[o] # Null => orders'[o] \in PlacedRows /\ Dated(orders[o])' /\ Billed(orders[o])'
    <3> SUFFICES ASSUME orders'[o] # Null
                 PROVE  orders'[o] \in PlacedRows /\ Dated(orders[o])' /\ Billed(orders[o])'
      OBVIOUS
    <3>1. orders[o] # Null
      BY <1>4
    <3> QED BY <1>1, <1>2, <1>3, <3>1 DEF Dated, Billed
  <2>2. pending[o] # Null => /\ pending'[o] \in PlacedRows /\ Dated(pending[o])' /\ Billed(pending[o])'
                             /\ Continues(o)'
    <3> SUFFICES ASSUME pending[o] # Null
                 PROVE  /\ pending'[o] \in PlacedRows /\ Dated(pending[o])' /\ Billed(pending[o])'
                        /\ Continues(o)'
      OBVIOUS
    <3>1. /\ pending[o] \in PlacedRows /\ Dated(pending[o]) /\ Billed(pending[o]) /\ Continues(o)
      BY DEF BooksInv, RowsInv, Sound
    <3>2. Dated(pending[o])' /\ Billed(pending[o])'
      BY <1>1, <1>2, <3>1 DEF Dated, Billed
    <3>3. Continues(o)'
      BY <1>1, <1>3, <1>4, <3>1 DEF Continues
    <3> QED BY <1>1, <3>1, <3>2, <3>3
  <2> QED BY <1>1, <2>1, <2>2 DEF Sound
<1>6. orders' \in [Orders -> PlacedRows \cup {Null}]
  BY <1>1, <1>3, <1>4
<1>7. Placed' \subseteq Placed
  BY <1>4 DEF Placed
<1>8. IsFiniteSet(Placed')
  BY <1>7, FS_Subset DEF BooksInv, RowsInv
<1>9. gate' \subseteq {o \in Orders : orders'[o] = Null /\ pending'[o] = Null}
  BY <1>1, <1>4 DEF BooksInv, RowsInv
<1>10. RowsInv'
  BY <1>1, <1>5, <1>6, <1>8, <1>9 DEF BooksInv, RowsInv
<1>11. ShopInv'
  BY <1>1 DEF BooksInv, ShopInv
<1> QED BY <1>10, <1>11 DEF BooksInv

(* An edit keeps the row in its type. *)
LEMMA SavedType ==
  ASSUME ShopInv, NEW m \in Managers, patch[m] # Null
  PROVE  Saved(m) \in Settings
<1>1. patch[m].row \in Settings /\ store \in Settings
  BY DEF ShopInv, Edited
<1> QED BY <1>1 DEF Saved, Settings

LEMMA BooksInit == ASSUME Init PROVE BooksInv
<1>1. Placed = {}
  BY DEF Init, StorefrontInit, Placed
<1>2. IsFiniteSet(Placed)
  BY <1>1, FS_EmptySet
<1> QED BY <1>1, <1>2, StorefrontConstants
        DEF Init, StorefrontInit, BooksInv, ShopInv, RowsInv, Sound

(* What the shop does besides orders. *)
LEMMA ShopKeeps ==
  ASSUME BooksInv, orders' = orders, pending' = pending, Erased => Erased', ShopInv', now <= now',
         gate' \subseteq {o \in Orders : orders[o] = Null /\ pending[o] = Null}
  PROVE  BooksInv'
<1>1. now' \in Nat
  BY DEF ShopInv
<1> QED BY <1>1, RowsUnread DEF BooksInv

(* No step breaks the invariant: one case per action.                      *)
LEMMA BooksStep ==
  ASSUME BooksInv, [Next]_vars
  PROVE  BooksInv'
<1>0. /\ ShopInv /\ now \in Nat /\ now <= now /\ (Erased => Erased')
      /\ gate \subseteq {o \in Orders : orders[o] = Null /\ pending[o] = Null}
  BY ErasedStays DEF BooksInv, ShopInv, RowsInv
<1>1. ASSUME UNCHANGED <<now, orders, pending, gate>>, ShopInv' PROVE BooksInv'
  BY <1>0, <1>1, ShopKeeps
<1>2. CASE UNCHANGED vars
  BY <1>0, <1>1, <1>2 DEF vars, storefrontVars, ShopInv
<1>3. CASE Tick /\ UNCHANGED <<roster, report>>
  <2>1. /\ now' = now + 1 /\ now < MaxTime
        /\ UNCHANGED <<price, store, patch, patches, gate, pending, orders, roster, report>>
    BY <1>3 DEF Tick
  <2>2. now <= now' /\ ShopInv'
    BY <1>0, <2>1, StorefrontConstants DEF ShopInv
  <2> QED BY <1>0, <2>1, <2>2, ShopKeeps
<1>4. ASSUME NEW m \in Managers, NEW touched \in Touchable, NEW row \in Settings,
             PatchRead(m, touched, row), UNCHANGED <<roster, report>>
      PROVE  BooksInv'
  <2>1. [touched |-> touched, row |-> row] \in Edited
    BY DEF Edited
  <2>2. patch' \in [Managers -> Edited \cup {Null}] /\ patches' \in 0 .. MaxPatches
    BY <1>0, <1>4, <2>1, StorefrontConstants DEF PatchRead, ShopInv
  <2>3. ShopInv'
    BY <1>0, <1>4, <2>2 DEF PatchRead, ShopInv
  <2> QED BY <1>1, <1>4, <2>3 DEF PatchRead
<1>5. ASSUME NEW m \in Managers, PatchSave(m), UNCHANGED <<roster, report>> PROVE BooksInv'
  <2>1. Saved(m) \in Settings
    BY <1>0, <1>5, SavedType DEF PatchSave
  <2>2. ShopInv'
    BY <1>0, <1>5, <2>1 DEF PatchSave, ShopInv
  <2> QED BY <1>1, <1>5, <2>2 DEF PatchSave
<1>6. ASSUME NEW p \in Prices, EditPrice(p), UNCHANGED <<roster, report>> PROVE BooksInv'
  BY <1>0, <1>1, <1>6 DEF EditPrice, ShopInv
<1>7. ASSUME NEW o \in Orders, PassGate(o) \/ Refuse(o), UNCHANGED <<roster, report>> PROVE BooksInv'
  <2>1. /\ UNCHANGED <<now, price, store, patch, patches, pending, orders>>
        /\ gate' \subseteq {p \in Orders : orders[p] = Null /\ pending[p] = Null}
    BY <1>0, <1>7 DEF PassGate, Refuse
  <2>2. ShopInv'
    BY <1>0, <1>7, <2>1 DEF ShopInv
  <2> QED BY <1>0, <2>1, <2>2, ShopKeeps
<1>8. ASSUME NEW o \in Orders, Commit(o) \/ Rollback(o), UNCHANGED <<roster, report>> PROVE BooksInv'
  BY <1>8, CommitKeeps, RollbackKeeps
<1>9. ASSUME NEW o \in Orders, NEW lines \in Baskets, NEW key \in Asked,
             _place_order(o, lines, key), UNCHANGED <<roster, report>>
      PROVE  BooksInv'
  BY <1>9, PlaceKeeps
<1>10. ASSUME NEW o \in Orders, Deliver(o) \/ Fail(o) \/ Cancel(o) PROVE BooksInv'
  BY <1>10, DeliverKeeps, FailKeeps, CancelKeeps
<1>11. ASSUME NEW r \in Riders, DeleteCheck(r) PROVE BooksInv'
  <2>1. UNCHANGED storefrontVars /\ report' = report /\ roster' = [roster EXCEPT ![r] = "checked"]
    BY <1>11 DEF DeleteCheck
  <2>2. ShopInv'
    BY <1>0, <2>1 DEF ShopInv, storefrontVars
  <2> QED BY <1>1, <2>1, <2>2 DEF storefrontVars
<1>12. ASSUME NEW r \in Riders, Erase(r) PROVE BooksInv'
  BY <1>12, EraseKeeps
<1>13. ASSUME UNCHANGED <<storefrontVars, roster>>,
              report' # Null => /\ report'.kind \in Kinds /\ report'.window \in Int \X Int
                                /\ report'.window[1] <= report'.window[2]
                                /\ ReportShape(report')
       PROVE  BooksInv'
  BY <1>0, <1>1, <1>13 DEF ShopInv, storefrontVars
<1>14. ASSUME NEW kind \in Kinds, NEW w \in Windows, Ask(kind, w) PROVE BooksInv'
  <2>1. w \in Int \X Int /\ w[1] <= w[2]
    BY WindowsAreOrdered
  <2> QED BY <1>13, <1>14, <2>1 DEF Ask, ReportShape
<1>15. CASE Statement
  <2>1. report # Null /\ UNCHANGED <<storefrontVars, roster>>
    BY <1>15 DEF Statement
  <2>2. /\ report'.kind = report.kind /\ report'.window = report.window
        /\ ReportShape(report')
    BY <1>0, <1>15 DEF Statement, ReportShape, ShopInv
  <2> QED BY <1>0, <1>13, <2>1, <2>2 DEF ShopInv
<1>16. CASE Show
  BY <1>13, <1>16 DEF Show
<1>17. CASE StorefrontNext /\ UNCHANGED <<roster, report>>
  BY <1>3, <1>4, <1>5, <1>6, <1>7, <1>8, <1>9, <1>17 DEF StorefrontNext
<1> QED BY <1>2, <1>10, <1>11, <1>12, <1>14, <1>15, <1>16, <1>17 DEF Next

(* Rows, reports and settings are what they should be, each order's dates  *)
(* are in their order (placed, then paid, never after now), and its bill is*)
(* the bill of what it holds (`_place_order`, the riders' and managers'    *)
(* deliveries).                                                            *)
THEOREM BooksInvariance == Spec => []BooksInv
BY BooksInit, BooksStep, PTL DEF Spec

(* Every variable of the shop and of its books keeps its type.             *)
THEOREM BooksTypeCorrect == Spec => []TypeOK
<1>1. BooksInv => TypeOK
  BY StorefrontConstants DEF BooksInv, ShopInv, RowsInv, Sound, TypeOK, GoodRow, Dated, PlacedRows, Edited
<1> QED BY <1>1, BooksInvariance, PTL

-----------------------------------------------------------------------------
(* The switch. *)

(* A shop that somebody paused opens again only by a PATCH that says so,   *)
(* however stale the row another PATCH had read (`StoreSettingsView.patch` *)
(* saves only the fields it was given).                                    *)
THEOREM PausesHold == Spec => PauseHolds
<1>1. ASSUME BooksInv, [Next]_vars, ~store.is_accepting_orders, store'.is_accepting_orders
      PROVE  \E m \in Managers :
               /\ patch[m] # Null /\ patch'[m] = Null
               /\ "is_accepting_orders" \in patch[m].touched
               /\ patch[m].row.is_accepting_orders
  <2>1. store' # store
    BY <1>1
  <2>2. PICK m \in Managers : PatchSave(m)
    BY <1>1, <2>1 DEF Next, StorefrontNext, vars, storefrontVars, Tick, PatchRead, EditPrice, PassGate,
       Refuse, _place_order, Commit, Rollback, Deliver, Fail, Cancel, End, DeleteCheck, Erase, Ask,
       Statement, Show
  <2>3. patch[m] # Null /\ patch' = [patch EXCEPT ![m] = Null] /\ store' = Saved(m)
    BY <2>2 DEF PatchSave
  <2>4. patch'[m] = Null
    BY <1>1, <2>3 DEF BooksInv, ShopInv
  <2>5. "is_accepting_orders" \in DOMAIN store
    BY <1>1 DEF BooksInv, ShopInv, Settings
  <2>6. store'.is_accepting_orders = IF "is_accepting_orders" \in patch[m].touched
                                       THEN patch[m].row.is_accepting_orders
                                       ELSE store.is_accepting_orders
    BY <2>3, <2>5 DEF Saved
  <2> QED BY <1>1, <2>3, <2>4, <2>6
<1>2. BooksInv /\ [Next]_vars =>
        [~store.is_accepting_orders /\ store'.is_accepting_orders =>
           \E m \in Managers :
             /\ patch[m] # Null /\ patch'[m] = Null
             /\ "is_accepting_orders" \in patch[m].touched
             /\ patch[m].row.is_accepting_orders]_storefrontVars
  BY <1>1
<1> QED BY <1>2, BooksInvariance, PTL DEF Spec, PauseHolds

(* The shop is open from its opening time for as long as its hours are, on *)
(* whichever side of midnight they end (`StoreSettings.within_hours`).     *)
THEOREM HoursAreKept == Spec => []OpenInItsHours
<1>1. BooksInv => OpenInItsHours
  <2> SUFFICES ASSUME BooksInv PROVE OpenInItsHours
    OBVIOUS
  <2>1. Day \in Nat \ {0} /\ now \in Nat
    BY StorefrontConstants DEF BooksInv, ShopInv
  <2>2. store.opens_at \in 0 .. Day - 1 /\ store.closes_at \in 0 .. Day - 1
    BY StorefrontConstants DEF BooksInv, ShopInv, Settings
  <2>3. hour \in 0 .. Day - 1
    BY <2>1 DEF hour
  <2>4. ASSUME NEW a \in 0 .. Day - 1, NEW b \in 0 .. Day - 1
        PROVE  (a - b) % Day = IF a >= b THEN a - b ELSE a - b + Day
    BY <2>1
  <2>5. (hour - store.opens_at) % Day =
          IF hour >= store.opens_at THEN hour - store.opens_at ELSE hour - store.opens_at + Day
    BY <2>2, <2>3, <2>4
  <2>6. (store.closes_at - store.opens_at) % Day =
          IF store.closes_at >= store.opens_at THEN store.closes_at - store.opens_at
                                               ELSE store.closes_at - store.opens_at + Day
    BY <2>2, <2>4
  <2> QED BY <2>1, <2>2, <2>3, <2>5, <2>6 DEF OpenInItsHours, within_hours
<1> QED BY <1>1, BooksInvariance, PTL

-----------------------------------------------------------------------------
(* The figures as sums of functions of the orders. *)
Grand == [o \in Orders |-> orders[o].charges.grand]
Goods == [o \in Orders |-> orders[o].charges.items]
Amount == [o \in Orders |-> orders[o].amount]
Lines == [o \in Orders |-> Line(o)]

(* The sums of the reports, as totals of functions.                        *)
LEMMA RevenueIsTotal ==
  ASSUME NEW S \in SUBSET Orders
  PROVE  Revenue(S) = Total(Grand, S)
BY DEF Revenue, Sum, Grand, Total, MapThenSumSet, MapThenFoldSet

LEMMA AmountIsTotal ==
  ASSUME NEW S \in SUBSET Orders
  PROVE  Sum(LAMBDA o : orders[o].amount, S) = Total(Amount, S)
BY DEF Sum, Amount, Total, MapThenSumSet, MapThenFoldSet

LEMMA GoodsIsTotal ==
  ASSUME NEW S \in SUBSET Orders
  PROVE  Sum(LAMBDA o : orders[o].charges.items, S) = Total(Goods, S)
BY DEF Sum, Goods, Total, MapThenSumSet, MapThenFoldSet

LEMMA LinesIsTotal ==
  ASSUME NEW S \in SUBSET Orders
  PROVE  Sum(Line, S) = Total(Lines, S)
BY DEF Sum, Lines, Total, MapThenSumSet, MapThenFoldSet

(* A bill, from its row. *)
LEMMA BillOf ==
  ASSUME BooksInv, NEW o \in Placed
  PROVE  /\ orders[o].charges \in Charges
         /\ orders[o].price * orders[o].quantity \in Nat
         /\ orders[o].charges.items = orders[o].price * orders[o].quantity
<1>1. orders[o] \in PlacedRows /\ Billed(orders[o])
  BY DEF BooksInv, ShopInv, RowsInv, Sound, Placed
<1>2. orders[o].price \in Nat /\ orders[o].quantity \in Nat /\ orders[o].charges \in Charges
  BY <1>1 DEF PlacedRows
<1>3. orders[o].price * orders[o].quantity \in Nat
  BY <1>2
<1> QED BY <1>1, <1>2, <1>3, ChargesType DEF Billed

(* However the product is priced today, the best sellers of a period earned*)
(* what their customers were charged for goods (`TopProductsView` adds up  *)
(* the lines of the orders, not the live prices).                          *)
THEOREM PricesAreHistory == Spec => []HistoryKeepsItsPrice
<1>1. BooksInv => HistoryKeepsItsPrice
  <2> SUFFICES ASSUME BooksInv PROVE HistoryKeepsItsPrice
    OBVIOUS
  <2> DEFINE S == counted_orders(<<0, today>>)
  <2>1. S \in SUBSET Orders /\ S \in SUBSET Placed
    BY DEF counted_orders, all_orders, Placed
  <2>2. IsFiniteSet(S)
    BY <2>1, FS_Subset DEF BooksInv, RowsInv
  <2> HIDE DEF S
  <2>3. \A o \in S : Lines[o] = Goods[o]
    BY <2>1, BillOf DEF Lines, Goods, Line
  <2>4. Total(Lines, S) = Total(Goods, S)
    BY <2>2, <2>3, TotalEqual
  <2>5. Sum(Line, S) = Sum(LAMBDA o : orders[o].charges.items, S)
    BY <2>1, <2>4, LinesIsTotal, GoodsIsTotal
  <2> QED BY <2>5 DEF HistoryKeepsItsPrice, TopProducts, S
<1> QED BY <1>1, BooksInvariance, PTL

-----------------------------------------------------------------------------
(* Once every order of a day has ended, the sales of that day in the       *)
(* revenue series are what was asked for at its doors: a refused delivery  *)
(* is no revenue (`counted_orders`).                                       *)
THEOREM SalesAreCollectable == Spec => []BookedIsCollectable
<1>1. BooksInv => BookedIsCollectable
  <2> SUFFICES ASSUME BooksInv, NEW d \in 0 .. today,
                      \A o \in all_orders(<<d, d>>) : orders[o].status # "open"
               PROVE  RevenueSeries(<<0, today>>)[d].revenue =
                        Revenue({o \in all_orders(<<d, d>>) : orders[o].paid # Null})
    BY DEF BookedIsCollectable
  <2>1. <<0, today>>[1] = 0 /\ <<0, today>>[2] = today
    OBVIOUS
  <2>2. RevenueSeries(<<0, today>>)[d].revenue = Revenue(counted_orders(<<d, d>>))
    BY <2>1 DEF RevenueSeries
  <2>3. ASSUME NEW o \in all_orders(<<d, d>>)
        PROVE  orders[o].status \notin {"Cancelled", "Failed"} <=> orders[o].paid # Null
    <3>1. o \in Placed /\ orders[o].status # "open"
      BY DEF all_orders, Placed
    <3>2. orders[o].status \in {"open", "Delivered", "Cancelled", "Failed"} /\ Dated(orders[o])
      BY <3>1 DEF BooksInv, RowsInv, Sound, Placed, PlacedRows
    <3> QED BY <3>1, <3>2 DEF Dated
  <2>4. counted_orders(<<d, d>>) = {o \in all_orders(<<d, d>>) : orders[o].paid # Null}
    BY <2>3 DEF counted_orders
  <2> QED BY <2>2, <2>4
<1> QED BY <1>1, BooksInvariance, PTL

-----------------------------------------------------------------------------
(* What a fold over the lines of a basket comes to. *)
LEMMA GoodsOfLines ==
  ASSUME NEW lines \in Seq(Nat \ {0}), NEW p \in Nat
  PROVE  FoldSeq(LAMBDA q, sum : q * p + sum, 0, lines) = p * Merged(lines)
<1> DEFINE D == DOMAIN lines
           f == [i \in D |-> lines[i] * p]
<1>1. FoldSeq(LAMBDA q, sum : q * p + sum, 0, lines) = Total(f, D)
  BY DEF FoldSeq, FoldFunction, FoldFunctionOnSet, Total, MapThenSumSet, MapThenFoldSet
<1>2. IsFiniteSet(D) /\ Merged(lines) = Total(lines, D) /\ Merged(lines) \in Nat
  BY MergedIsTotal
<1>3. \A i \in D : lines[i] \in Int /\ f[i] = lines[i] * p
  OBVIOUS
<1> HIDE DEF D, f
<1>4. Total(f, D) = Total(lines, D) * p
  BY <1>2, <1>3, TotalScale
<1>5. Merged(lines) * p = p * Merged(lines)
  BY <1>2
<1> QED BY <1>1, <1>2, <1>4, <1>5

(* What the cart shows for an amount is consistent with its bill.          *)
LEMMA BillAddsUp ==
  ASSUME NEW n \in Nat
  PROVE  LET bill == compute_charges(n, "instant")
             missing == free_delivery_shortfall(n)
         IN  /\ bill.items = n
             /\ bill.delivery = IF missing > 0 /\ n > 0 THEN DELIVERY_FEE_INSTANT ELSE 0
             /\ bill.grand = bill.items + bill.delivery + bill.handling
             /\ missing \in Nat
             /\ \A key : compute_charges(n + missing, key).delivery = 0
BY TierIsInstant, StorefrontConstants
   DEF compute_charges, DeliveryFee, delivery_tiers, free_delivery_shortfall

(* The cart and the bill never disagree, until the product is priced anew: *)
(* what `BasketQuoteView` shows for the lines of an order is what          *)
(* `_place_order` billed, with its free-delivery shortfall.                *)
THEOREM BillsKeepTheirWord == Spec => []BillKeepsItsWord
<1>1. BooksInv => BillKeepsItsWord
  <2> SUFFICES ASSUME BooksInv, NEW o \in Orders, orders[o] # Null
               PROVE  LET row == orders[o]
                          bill == row.charges
                          missing == free_delivery_shortfall(bill.items)
                      IN  /\ bill.items = FoldSeq(LAMBDA q, sum : q * row.price + sum, 0, row.lines)
                          /\ row.price = price => \A key \in Asked :
                               LET offer == quote(row.lines, key)
                               IN  offer.charges = bill /\ offer.shortfall = missing /\ offer.meets_minimum
                          /\ bill.delivery = (IF missing > 0 /\ bill.items > 0 THEN DELIVERY_FEE_INSTANT ELSE 0)
                          /\ compute_charges(bill.items + missing, row.delivery_type).delivery = 0
                          /\ bill.grand = bill.items + bill.delivery + bill.handling
    BY DEF BillKeepsItsWord
  <2> DEFINE row == orders[o]
             n == row.price * row.quantity
  <2>1. row \in PlacedRows /\ Billed(row)
    BY DEF BooksInv, RowsInv, Sound
  <2>2. /\ row.lines \in Seq(Nat \ {0}) /\ row.price \in Nat /\ row.quantity \in Nat
        /\ row.lines # <<>> /\ row.quantity = Merged(row.lines) /\ n >= MIN_ORDER_VALUE
        /\ row.charges = compute_charges(n, "instant")
    BY <2>1, StorefrontConstants DEF PlacedRows, Billed
  <2>3. n \in Nat
    BY <2>2
  <2>4. row.charges.items = n
    BY <2>2, <2>3, ChargesType
  <2>5. FoldSeq(LAMBDA q, sum : q * row.price + sum, 0, row.lines) = n
    BY <2>2, GoodsOfLines
  <2>6. ASSUME row.price = price, NEW key \in Asked
        PROVE  /\ quote(row.lines, key).charges = row.charges
               /\ quote(row.lines, key).shortfall = free_delivery_shortfall(n)
               /\ quote(row.lines, key).meets_minimum
    <3>1. price * Merged(row.lines) = n
      BY <2>2, <2>6
    <3>2. compute_charges(n, resolve_tier(key)) = row.charges
      BY <2>2, TierIsInstant
    <3> QED BY <3>1, <3>2, <2>2 DEF quote
  <2> HIDE DEF row, n
  <2>7. /\ row.charges.delivery = (IF free_delivery_shortfall(n) > 0 /\ n > 0 THEN DELIVERY_FEE_INSTANT ELSE 0)
        /\ row.charges.grand = row.charges.items + row.charges.delivery + row.charges.handling
        /\ compute_charges(n + free_delivery_shortfall(n), row.delivery_type).delivery = 0
    BY <2>2, <2>3, BillAddsUp
  <2> QED BY <2>4, <2>5, <2>6, <2>7 DEF row
<1> QED BY <1>1, BooksInvariance, PTL

-----------------------------------------------------------------------------
(* What a step can do to an order: it is committed, it ends, or it loses a *)
(* rider who is deleted.                                                   *)
Arrives(o) ==
  /\ orders[o] = Null /\ orders'[o] # Null
  /\ pending[o] # Null /\ orders'[o].created = Stamp(pending[o])
  /\ orders'[o].paid = Null

Finishes(o) ==
  /\ orders[o] # Null /\ orders'[o] # Null
  /\ orders[o].status = "open" /\ orders[o].paid = Null
  /\ orders'[o].status # "open"
  /\ orders'[o].created = orders[o].created /\ orders'[o].charges = orders[o].charges
  /\ orders'[o].paid # Null => pending[o] # Null /\ orders'[o].paid = Stamp(pending[o])

Forgets(o) ==
  /\ orders[o] # Null /\ orders'[o] # Null /\ Erased'
  /\ orders'[o].status = orders[o].status /\ orders'[o].created = orders[o].created
  /\ orders'[o].paid = orders[o].paid /\ orders'[o].amount = orders[o].amount
  /\ orders'[o].charges = orders[o].charges

Moves(o) == Arrives(o) \/ Finishes(o) \/ Forgets(o)

LEMMA OrderStep ==
  ASSUME BooksInv, [Next]_vars, NEW o \in Orders, orders'[o] # orders[o]
  PROVE  Moves(o)
<1>1. ASSUME NEW p \in Orders, Commit(p) PROVE Moves(o)
  <2>1. pending[p] # Null /\ orders' = [orders EXCEPT ![p] = pending[p]]
    BY <1>1 DEF Commit
  <2>2. p = o /\ orders'[o] = pending[o] /\ pending[o] # Null
    BY <2>1 DEF BooksInv, RowsInv
  <2>3. /\ pending[o] \in PlacedRows /\ Dated(pending[o]) /\ Continues(o)
        /\ orders[o] # Null => Dated(orders[o])
    BY <2>2 DEF BooksInv, RowsInv, Sound
  <2>4. CASE orders[o] = Null
    BY <2>2, <2>3, <2>4 DEF Continues, Dated, Stamp, Arrives, Moves
  <2>5. CASE orders[o] # Null
    BY <2>2, <2>3, <2>5 DEF Continues, Dated, Stamp, Finishes, Moves
  <2> QED BY <2>4, <2>5
<1>2. ASSUME NEW p \in Orders, NEW to \in {"Failed", "Cancelled"}, NEW boy \in Riders \cup {Null},
             End(p, to, boy)
      PROVE  Moves(o)
  <2>1. Endable(p) /\ orders' = [orders EXCEPT ![p].status = to, ![p].boy = boy]
    BY <1>2 DEF End
  <2>2. p = o
    BY <2>1 DEF BooksInv, RowsInv
  <2>3. /\ orders[o] \in PlacedRows /\ orders[o] # Null
        /\ orders[o].status = "open" /\ orders[o].paid = Null
    BY <2>1, <2>2, EndableRow
  <2> DEFINE new == [orders[o] EXCEPT !.status = to, !.boy = boy]
  <2>4. orders'[o] = new
    BY <2>1, <2>2 DEF BooksInv, RowsInv
  <2>5. new.status = to /\ new.created = orders[o].created /\ new.paid = orders[o].paid
        /\ new.charges = orders[o].charges /\ new \in PlacedRows
    BY <2>3 DEF PlacedRows
  <2>6. orders'[o] # Null
    BY <2>4, <2>5, NullIsNoRow
  <2> HIDE DEF new
  <2> QED BY <2>3, <2>4, <2>5, <2>6 DEF Finishes, Moves
<1>3. ASSUME NEW r \in Riders, Erase(r) PROVE Moves(o)
  <2>1. /\ orders' = [p \in Orders |-> IF orders[p] = Null THEN Null ELSE Forget(orders[p], r)]
        /\ roster' = [roster EXCEPT ![r] = "gone"]
    BY <1>3 DEF Erase
  <2>2. orders[o] # Null /\ orders'[o] = Forget(orders[o], r) /\ Erased'
    BY <2>1 DEF BooksInv, ShopInv, Erased
  <2>3. orders[o] \in PlacedRows
    BY <2>2 DEF BooksInv, RowsInv, Sound
  <2> QED BY <2>2, <2>3, ForgetKeeps DEF Forgets, Moves
<1>4. ASSUME NEW p \in Orders, Fail(p) \/ Cancel(p) PROVE Moves(o)
  <2>1. CASE Fail(p)
    BY <1>2, <2>1 DEF Fail, Carriers
  <2>2. CASE Cancel(p)
    <3>1. orders[p].boy \in Riders \cup {Null} /\ End(p, "Cancelled", orders[p].boy)
      BY <2>2, EndableRow DEF Cancel, End, PlacedRows
    <3> QED BY <1>2, <3>1
  <2> QED BY <1>4, <2>1, <2>2
<1> QED
  BY <1>1, <1>3, <1>4
  DEF Next, StorefrontNext, vars, storefrontVars, Tick, PatchRead, PatchSave, EditPrice, PassGate,
      Refuse, Rollback, _place_order, Deliver, DeleteCheck, Ask, Statement, Show

(* What a step can do to a row that waits: it is written, dated now, or it *)
(* waits no more.                                                          *)
LEMMA WaitingStep ==
  ASSUME BooksInv, [Next]_vars, NEW o \in Orders, pending'[o] # pending[o], pending'[o] # Null
  PROVE  Stamp(pending'[o]) = now
<1>0. now # Null
  BY StorefrontConstants DEF BooksInv, ShopInv
<1>1. ASSUME NEW p \in Orders, Commit(p) \/ Rollback(p) PROVE FALSE
  BY <1>1 DEF Commit, Rollback, BooksInv, RowsInv
<1>2. ASSUME NEW p \in Orders, NEW lines \in Baskets, NEW key \in Asked, _place_order(p, lines, key)
      PROVE  Stamp(pending'[o]) = now
  <2>1. pending'[o] = Row(lines, key)
    BY <1>2 DEF _place_order, BooksInv, RowsInv
  <2> QED BY <2>1 DEF Row, Stamp
<1>3. ASSUME NEW p \in Orders, Deliver(p)
      PROVE  Stamp(pending'[o]) = now
  <2>1. PICK r \in Carriers, door \in Doors :
          pending' = [pending EXCEPT ![p] = DeliveredRow(orders[p], r, door)]
    BY <1>3 DEF Deliver, DeliveredRow
  <2>2. p = o /\ pending'[o] = DeliveredRow(orders[o], r, door)
    BY <2>1 DEF BooksInv, RowsInv
  <2>3. orders[o] \in PlacedRows
    BY <1>3, <2>2, EndableRow DEF Deliver
  <2>4. DeliveredRow(orders[o], r, door).paid = now
    BY <2>3 DEF DeliveredRow, PlacedRows
  <2> QED BY <1>0, <2>2, <2>4 DEF Stamp
<1> QED
  BY <1>1, <1>2, <1>3
  DEF Next, StorefrontNext, vars, storefrontVars, Tick, PatchRead, PatchSave, EditPrice, PassGate,
      Refuse, Fail, Cancel, End, DeleteCheck, Erase, Ask, Statement, Show

(* The clock does not go back. *)
LEMMA ClockStep ==
  ASSUME BooksInv, [Next]_vars
  PROVE  now \in Nat /\ now' \in Nat /\ now <= now' /\ today \in Int /\ today' \in Int /\ today <= today'
<1>1. now \in Nat /\ now' \in Nat /\ now <= now'
  <2>1. now \in Nat
    BY DEF BooksInv, ShopInv, RowsInv, Sound, Placed
  <2>2. ASSUME now' # now PROVE now' = now + 1
    BY <2>2 DEF Next, StorefrontNext, vars, storefrontVars, Tick, PatchRead, PatchSave, EditPrice,
       PassGate, Refuse, _place_order, Commit, Rollback, Deliver, Fail, Cancel, End, DeleteCheck,
       Erase, Ask, Statement, Show
  <2>3. now' = now \/ now' = now + 1
    BY <2>2
  <2> QED BY <2>1, <2>3
<1>2. today \in Int /\ today' \in Int /\ today <= today'
  <2>1. Day \in Nat \ {0}
    BY StorefrontConstants
  <2>2. ASSUME NEW a \in Nat, NEW b \in Nat, a <= b PROVE a \div Day <= b \div Day
    <3> DEFINE x == a \div Day
               y == b \div Day
    <3>1. x \in Int /\ y \in Int /\ x * Day <= a /\ b < y * Day + Day
      BY <2>1, DivFacts
    <3> HIDE DEF x, y
    <3>2. x * Day < (y + 1) * Day
      BY <2>1, <2>2, <3>1
    <3>3. x < y + 1
      <4> SUFFICES ASSUME x >= y + 1 PROVE FALSE
        BY <3>1
      <4> QED BY <2>1, <3>1, <3>2
    <3> QED BY <3>1, <3>3 DEF x, y
  <2>3. now \div Day \in Int /\ now' \div Day \in Int
    BY <1>1, <2>1, DivFacts
  <2>4. now \div Day <= now' \div Day
    BY <1>1, <2>2
  <2> QED BY <2>3, <2>4 DEF today
<1> QED BY <1>1, <1>2

(* Today is in no window that is over. *)
LEMMA TodayIsLater ==
  ASSUME BooksInv, NEW w, w[2] \in Int, w[2] < today
  PROVE  ~In(now, w)
<1>1. Day \in Nat \ {0} /\ now \in Nat
  BY StorefrontConstants DEF BooksInv, ShopInv
<1>2. today \in Int /\ today * Day <= now
  BY <1>1, DivFacts DEF today
<1>3. (w[2] + 1) * Day <= today * Day
  BY <1>1, <1>2
<1> QED BY <1>1, <1>2, <1>3 DEF In

(* A window that is closed stays closed: what is written now is dated now. *)
LEMMA ClosedStays ==
  ASSUME BooksInv, [Next]_vars, NEW w, w[2] \in Int, Closed(w)
  PROVE  Closed(w)'
<1>1. today \in Int /\ today' \in Int /\ today <= today' /\ w[2] < today /\ ~In(now, w)
  BY ClockStep, TodayIsLater DEF Closed
<1>2. ASSUME NEW o \in Orders, pending'[o] # Null PROVE ~In(Stamp(pending'[o]), w)
  <2>1. CASE pending'[o] = pending[o]
    BY <1>2, <2>1 DEF Closed
  <2>2. CASE pending'[o] # pending[o]
    BY <1>1, <1>2, <2>2, WaitingStep
  <2> QED BY <2>1, <2>2
<1>3. \A o \in Orders : pending'[o] # Null => ~In(Stamp(pending[o]), w)'
  BY <1>2 DEF In, Stamp
<1> QED BY <1>1, <1>3 DEF Closed

(* What was collected in a closed window stays what it was. *)
LEMMA CollectedStays ==
  ASSUME BooksInv, [Next]_vars, NEW w, Closed(w)
  PROVE  /\ collected_orders(w)' = collected_orders(w)
         /\ \A o \in collected_orders(w) : orders'[o] = orders[o] \/ Forgets(o)
<1>1. \A o \in Orders : pending[o] # Null => ~In(Stamp(pending[o]), w)
  BY DEF Closed
<1>2. ASSUME NEW o \in Orders, orders'[o] # orders[o], ~Forgets(o)
      PROVE  o \notin collected_orders(w) /\ o \notin collected_orders(w)'
  <2>1. Arrives(o) \/ Finishes(o)
    BY <1>2, OrderStep DEF Moves
  <2>2. o \notin collected_orders(w)
    BY <2>1 DEF Arrives, Finishes, collected_orders
  <2>3. SUFFICES ASSUME orders'[o] # Null, orders'[o].paid # Null, In(orders'[o].paid, w) PROVE FALSE
    BY <2>2 DEF collected_orders, In
  <2> QED BY <1>1, <2>1, <2>3 DEF Arrives, Finishes
<1>3. ASSUME NEW o \in Orders, orders'[o] = orders[o] \/ Forgets(o)
      PROVE  o \in collected_orders(w) <=> o \in collected_orders(w)'
  <2>1. CASE orders'[o] = orders[o]
    BY <2>1 DEF collected_orders, In
  <2>2. CASE Forgets(o)
    BY <2>2 DEF Forgets, collected_orders, In
  <2> QED BY <1>3, <2>1, <2>2
<1>4. collected_orders(w) \subseteq Orders /\ collected_orders(w)' \subseteq Orders
  BY DEF collected_orders
<1> QED BY <1>2, <1>3, <1>4

(* An order of a closed window was placed before. *)
LEMMA WindowCloses ==
  ASSUME BooksInv, [Next]_vars, NEW w, Closed(w)
  PROVE  /\ all_orders(w)' = all_orders(w)
         /\ \A o \in all_orders(w) : orders'[o] = orders[o] \/ Finishes(o) \/ Forgets(o)
<1>1. \A o \in Orders : pending[o] # Null => ~In(Stamp(pending[o]), w)
  BY DEF Closed
<1>2. ASSUME NEW o \in Orders, orders'[o] = orders[o] \/ Finishes(o) \/ Forgets(o)
      PROVE  o \in all_orders(w)' <=> o \in all_orders(w)
  <2>1. CASE orders'[o] = orders[o]
    BY <2>1 DEF all_orders, In
  <2>2. CASE Finishes(o) \/ Forgets(o)
    <3>1. orders[o] # Null /\ orders'[o] # Null /\ orders'[o].created = orders[o].created
      BY <2>2 DEF Finishes, Forgets
    <3> QED BY <3>1 DEF all_orders, In
  <2> QED BY <1>2, <2>1, <2>2
<1>3. ASSUME NEW o \in Orders, Arrives(o)
      PROVE  o \notin all_orders(w) /\ o \notin all_orders(w)'
  BY <1>1, <1>3 DEF Arrives, all_orders, In
<1>4. \A o \in Orders : orders'[o] = orders[o] \/ Arrives(o) \/ Finishes(o) \/ Forgets(o)
  BY OrderStep DEF Moves
<1>5. all_orders(w) \subseteq Orders /\ all_orders(w)' \subseteq Orders
  BY DEF all_orders
<1> QED BY <1>2, <1>3, <1>4, <1>5

-----------------------------------------------------------------------------
(* The answers as functions of the rows they are read from: a table t maps *)
(* orders to rows. *)
Table(S) == [o \in S |-> orders[o]]

GrandOf(t) == [o \in DOMAIN t |-> t[o].charges.grand]
AmountOf(t) == [o \in DOMAIN t |-> t[o].amount]

BookOf(t, T) ==
  [orders    |-> Cardinality(T),
   expected  |-> Total(GrandOf(t), T),
   collected |-> Total(AmountOf(t), T),
   short     |-> Cardinality({o \in T : t[o].amount < t[o].charges.grand})]

DayBookOf(t, T) == [f \in {"orders", "expected", "collected"} |-> BookOf(t, T)[f]]

CashOf(t) ==
  <<BookOf(t, DOMAIN t),
    [r \in {t[o].collected_by : o \in DOMAIN t} |->
       BookOf(t, {o \in DOMAIN t : t[o].collected_by = r})],
    [d \in {t[o].paid \div Day : o \in DOMAIN t} |->
       DayBookOf(t, {o \in DOMAIN t : t[o].paid \div Day = d})]>>

CountedOf(t) == {o \in DOMAIN t : t[o].status \notin {"Cancelled", "Failed"}}
DeliveredOf(t) == {o \in CountedOf(t) : t[o].status = "Delivered"}

DeliveryLine(t, T) ==
  [delivered |-> Cardinality(T), late |-> Cardinality({o \in T : t[o].late = TRUE})]

DeliveryOf(t) ==
  LET S == DeliveredOf(t)
  IN  <<DeliveryLine(t, S),
        [r \in {t[o].boy : o \in S} \ {Null} |-> DeliveryLine(t, {o \in S : t[o].boy = r})]>>

FiguresOf(t) ==
  <<[revenue |-> Total(GrandOf(t), CountedOf(t)), orders |-> Cardinality(CountedOf(t))],
    Cardinality(DeliveredOf(t)),
    Cardinality({o \in DeliveredOf(t) : t[o].late = FALSE}),
    Cardinality(DOMAIN t),
    Cardinality({o \in DOMAIN t : t[o].status = "Cancelled"})>>

(* The reports are functions of the table of rows they read.               *)
LEMMA RevenueInTable ==
  ASSUME NEW S \in SUBSET Orders, NEW T \in SUBSET S
  PROVE  /\ Revenue(T) = Total(GrandOf(Table(S)), T)
         /\ Sum(LAMBDA o : orders[o].amount, T) = Total(AmountOf(Table(S)), T)
<1>1. /\ GrandOf(Table(S)) = [o \in S |-> orders[o].charges.grand]
      /\ AmountOf(Table(S)) = [o \in S |-> orders[o].amount]
  BY DEF Table, GrandOf, AmountOf
<1>2. Revenue(T) = Total([o \in S |-> orders[o].charges.grand], T)
  BY DEF Revenue, Sum, Total, MapThenSumSet, MapThenFoldSet
<1>3. Sum(LAMBDA o : orders[o].amount, T) = Total([o \in S |-> orders[o].amount], T)
  BY DEF Sum, Total, MapThenSumSet, MapThenFoldSet
<1> QED BY <1>1, <1>2, <1>3

LEMMA BookInTable ==
  ASSUME NEW S \in SUBSET Orders, NEW T \in SUBSET S
  PROVE  Book(T) = BookOf(Table(S), T) /\ DayBook(T) = DayBookOf(Table(S), T)
<1>1. {o \in T : orders[o].amount < orders[o].charges.grand}
        = {o \in T : Table(S)[o].amount < Table(S)[o].charges.grand}
  BY DEF Table
<1>2. Book(T) = BookOf(Table(S), T)
  BY <1>1, RevenueInTable DEF Book, BookOf
<1> QED BY <1>2 DEF DayBook, DayBookOf

LEMMA CashInTable ==
  ASSUME NEW w
  PROVE  Cash(w) = CashOf(Table(collected_orders(w)))
<1> DEFINE S == collected_orders(w)
           t == Table(S)
<1>1. S \in SUBSET Orders
  BY DEF collected_orders
<1>2. DOMAIN t = S /\ \A o \in S : t[o] = orders[o]
  BY DEF Table
<1>3. Cash(w) = <<Book(S),
                  [r \in Takers(S) |-> Book({o \in S : orders[o].collected_by = r})],
                  [d \in PaidOn(S) |-> DayBook({o \in S : orders[o].paid \div Day = d})]>>
  BY DEF Cash
<1> HIDE DEF S
<1>4. Book(S) = BookOf(t, DOMAIN t)
  BY <1>1, <1>2, BookInTable
<1>5. Takers(S) = {t[o].collected_by : o \in DOMAIN t} /\ PaidOn(S) = {t[o].paid \div Day : o \in DOMAIN t}
  BY <1>2 DEF Takers, PaidOn
<1>6. ASSUME NEW r
      PROVE  Book({o \in S : orders[o].collected_by = r}) = BookOf(t, {o \in DOMAIN t : t[o].collected_by = r})
  <2>1. {o \in S : orders[o].collected_by = r} = {o \in DOMAIN t : t[o].collected_by = r}
    BY <1>2
  <2>2. {o \in S : orders[o].collected_by = r} \in SUBSET S
    OBVIOUS
  <2> QED BY <1>1, <2>1, <2>2, BookInTable
<1>7. ASSUME NEW d
      PROVE  DayBook({o \in S : orders[o].paid \div Day = d}) = DayBookOf(t, {o \in DOMAIN t : t[o].paid \div Day = d})
  <2>1. {o \in S : orders[o].paid \div Day = d} = {o \in DOMAIN t : t[o].paid \div Day = d}
    BY <1>2
  <2>2. {o \in S : orders[o].paid \div Day = d} \in SUBSET S
    OBVIOUS
  <2> QED BY <1>1, <2>1, <2>2, BookInTable
<1> HIDE DEF t
<1>8. Cash(w) = CashOf(t)
  BY <1>3, <1>4, <1>5, <1>6, <1>7 DEF CashOf
<1> QED BY <1>8 DEF t, S

LEMMA CountedInTable ==
  ASSUME NEW w
  PROVE  LET t == Table(all_orders(w))
         IN  /\ counted_orders(w) = CountedOf(t) /\ Delivered(w) = DeliveredOf(t)
             /\ DOMAIN t = all_orders(w)
             /\ \A o \in all_orders(w) : t[o] = orders[o]
BY DEF counted_orders, CountedOf, Delivered, DeliveredOf, Table

LEMMA DeliveryInTable ==
  ASSUME NEW w
  PROVE  Delivery(w) = DeliveryOf(Table(all_orders(w)))
<1> DEFINE t == Table(all_orders(w))
           S == Delivered(w)
<1>1. S = DeliveredOf(t) /\ S \subseteq DOMAIN t /\ \A o \in S : t[o] = orders[o]
  BY CountedInTable DEF DeliveredOf, CountedOf
<1>2. Boys(S) = {t[o].boy : o \in S} \ {Null}
  BY <1>1 DEF Boys
<1>3. ASSUME NEW T \in SUBSET S
      PROVE  [delivered |-> Cardinality(T), late |-> Cardinality(Late(T))] = DeliveryLine(t, T)
  <2>1. Late(T) = {o \in T : t[o].late = TRUE}
    BY <1>1 DEF Late
  <2> QED BY <2>1 DEF DeliveryLine
<1>4. ASSUME NEW r
      PROVE  {o \in S : orders[o].boy = r} = {o \in S : t[o].boy = r}
  BY <1>1
<1> HIDE DEF t, S
<1>5. Delivery(w) = <<DeliveryLine(t, S), [r \in Boys(S) |-> DeliveryLine(t, {o \in S : t[o].boy = r})]>>
  BY <1>3, <1>4 DEF Delivery, S
<1> QED BY <1>1, <1>2, <1>5 DEF DeliveryOf, t

LEMMA FiguresInTable ==
  ASSUME NEW w
  PROVE  figures(w) = FiguresOf(Table(all_orders(w)))
<1> DEFINE t == Table(all_orders(w))
<1>1. /\ counted_orders(w) = CountedOf(t) /\ Delivered(w) = DeliveredOf(t)
      /\ DOMAIN t = all_orders(w)
      /\ \A o \in all_orders(w) : t[o] = orders[o]
  BY CountedInTable
<1>2. all_orders(w) \in SUBSET Orders /\ counted_orders(w) \in SUBSET all_orders(w)
      /\ Delivered(w) \in SUBSET all_orders(w)
  BY DEF all_orders, counted_orders, Delivered
<1>3. Revenue(counted_orders(w)) = Total(GrandOf(t), counted_orders(w))
  BY <1>2, RevenueInTable
<1>4. OnTime(Delivered(w)) = {o \in DeliveredOf(t) : t[o].late = FALSE}
  BY <1>1, <1>2 DEF OnTime
<1>5. {o \in all_orders(w) : orders[o].status = "Cancelled"} = {o \in DOMAIN t : t[o].status = "Cancelled"}
  BY <1>1
<1> HIDE DEF t
<1>6. figures(w) = FiguresOf(t)
  BY <1>1, <1>3, <1>4, <1>5 DEF figures, FiguresOf
<1> QED BY <1>6 DEF t

-----------------------------------------------------------------------------
(* The same, of the state after a step. *)
LEMMA TableNext ==
  ASSUME NEW w
  PROVE  /\ Table(collected_orders(w))' = [o \in collected_orders(w)' |-> orders'[o]]
         /\ Table(all_orders(w))' = [o \in all_orders(w)' |-> orders'[o]]
<1>1. (Table(collected_orders(w)) = [o \in collected_orders(w) |-> orders[o]])'
  <2>1. Table(collected_orders(w)) = [o \in collected_orders(w) |-> orders[o]]
    BY DEF Table
  <2> QED BY <2>1, PTL
<1>2. (Table(all_orders(w)) = [o \in all_orders(w) |-> orders[o]])'
  <2>1. Table(all_orders(w)) = [o \in all_orders(w) |-> orders[o]]
    BY DEF Table
  <2> QED BY <2>1, PTL
<1> QED BY <1>1, <1>2

LEMMA BookNext ==
  ASSUME NEW w
  PROVE  /\ Book(collected_orders(w)) = BookOf(Table(collected_orders(w)), DOMAIN Table(collected_orders(w)))
         /\ Book(collected_orders(w))' =
              BookOf(Table(collected_orders(w))', DOMAIN Table(collected_orders(w))')
<1>1. Book(collected_orders(w)) = BookOf(Table(collected_orders(w)), DOMAIN Table(collected_orders(w)))
  <2>1. DOMAIN Table(collected_orders(w)) = collected_orders(w) /\ collected_orders(w) \in SUBSET Orders
    BY DEF Table, collected_orders
  <2> QED BY <2>1, BookInTable
<1>2. (Book(collected_orders(w)) = BookOf(Table(collected_orders(w)), DOMAIN Table(collected_orders(w))))'
  BY <1>1, PTL
<1> QED BY <1>1, <1>2

LEMMA SalesNext ==
  ASSUME NEW w
  PROVE  /\ Revenue(counted_orders(w)) = Total(Grand, counted_orders(w))
         /\ Revenue(counted_orders(w))' = Total(Grand', counted_orders(w)')
<1>1. Revenue(counted_orders(w)) = Total(Grand, counted_orders(w))
  <2>1. counted_orders(w) \in SUBSET Orders
    BY DEF counted_orders, all_orders
  <2> QED BY <2>1, RevenueIsTotal
<1>2. (Revenue(counted_orders(w)) = Total(Grand, counted_orders(w)))'
  BY <1>1, PTL
<1> QED BY <1>1, <1>2

(* A table's totals are those of its amounts. *)
LEMMA SameBook ==
  ASSUME NEW t, NEW u, DOMAIN u = DOMAIN t,
         \A o \in DOMAIN t : u[o].amount = t[o].amount /\ u[o].charges = t[o].charges
  PROVE  BookOf(u, DOMAIN u) = BookOf(t, DOMAIN t)
<1>1. GrandOf(u) = GrandOf(t) /\ AmountOf(u) = AmountOf(t)
  BY DEF GrandOf, AmountOf
<1>2. {o \in DOMAIN u : u[o].amount < u[o].charges.grand} = {o \in DOMAIN t : t[o].amount < t[o].charges.grand}
  OBVIOUS
<1> QED BY <1>1, <1>2 DEF BookOf

(* A step leaves the till of a closed window alone, and adds no sale to it.*)
LEMMA ClosedStep ==
  ASSUME BooksInv, [Next]_vars, NEW w, Closed(w)
  PROVE  /\ Book(collected_orders(w))' = Book(collected_orders(w))
         /\ Revenue(counted_orders(w))' <= Revenue(counted_orders(w))
<1>1. Book(collected_orders(w))' = Book(collected_orders(w))
  <2> DEFINE t == Table(collected_orders(w))
             u == [o \in collected_orders(w) |-> orders'[o]]
  <2>1. collected_orders(w)' = collected_orders(w) /\ Table(collected_orders(w))' = u
    BY CollectedStays, TableNext
  <2>2. \A o \in collected_orders(w) :
          orders'[o].amount = orders[o].amount /\ orders'[o].charges = orders[o].charges
    BY CollectedStays DEF Forgets
  <2>3. DOMAIN t = collected_orders(w) /\ DOMAIN u = DOMAIN t
        /\ \A o \in DOMAIN t : t[o] = orders[o] /\ u[o] = orders'[o]
    BY DEF Table
  <2> HIDE DEF u
  <2>4. DOMAIN u = DOMAIN t /\ \A o \in DOMAIN t : u[o].amount = t[o].amount /\ u[o].charges = t[o].charges
    BY <2>2, <2>3
  <2>5. Book(collected_orders(w)) = BookOf(t, DOMAIN t) /\ Book(collected_orders(w))' = BookOf(u, DOMAIN u)
    BY <2>1, BookNext
  <2> HIDE DEF t
  <2>6. BookOf(u, DOMAIN u) = BookOf(t, DOMAIN t)
    BY <2>4, SameBook
  <2> QED BY <2>5, <2>6
<1> DEFINE S == counted_orders(w)
           T == counted_orders(w)'
<1>2. ASSUME NEW o \in T
      PROVE  o \in S /\ Grand'[o] = Grand[o]
  <2>1. o \in all_orders(w)' /\ orders'[o] # Null /\ o \in Orders
        /\ orders'[o].status \notin {"Cancelled", "Failed"}
    BY <1>2 DEF counted_orders, all_orders
  <2>2. o \in all_orders(w) /\ (orders'[o] = orders[o] \/ Finishes(o) \/ Forgets(o))
    BY <2>1, WindowCloses
  <2>3. orders'[o].charges = orders[o].charges /\ orders[o].status \notin {"Cancelled", "Failed"}
    BY <2>1, <2>2 DEF Finishes, Forgets
  <2> QED BY <2>1, <2>2, <2>3 DEF counted_orders, Grand
<1>3. S \in SUBSET Placed /\ Placed \in SUBSET Orders
  BY DEF counted_orders, all_orders, Placed
<1>4. IsFiniteSet(S)
  BY <1>3, FS_Subset DEF BooksInv, RowsInv
<1>5. \A o \in S : Grand[o] \in Nat
  BY <1>3, BillOf DEF Grand, Charges
<1>6. T \in SUBSET S
  BY <1>2
<1>7. IsFiniteSet(T)
  BY <1>4, <1>6, FS_Subset
<1>8. \A o \in T : Grand'[o] = Grand[o]
  BY <1>2
<1>9. Revenue(counted_orders(w)) = Total(Grand, S) /\ Revenue(counted_orders(w))' = Total(Grand', T)
  BY SalesNext
<1> HIDE DEF S, T
<1>10. Total(Grand', T) = Total(Grand, T)
  BY <1>7, <1>8, TotalEqual
<1>11. Total(Grand, T) <= Total(Grand, S)
  BY <1>4, <1>5, <1>6, TotalGrows
<1> QED BY <1>1, <1>9, <1>10, <1>11

(* Once the transactions that dated something on a day are over, no step,  *)
(* however late after midnight, changes the cash of that day, and its sales*)
(* only ever shrink: neither an order nor a payment enters it, and a rider *)
(* who is deleted takes no figure with him (`collected_orders`,            *)
(* `counted_orders`).                                                      *)
THEOREM BooksStayClosed == Spec => ClosedBooksStayClosed
<1>1. ASSUME BooksInv, [Next]_vars, NEW d \in Days, Closed(<<d, d>>)
      PROVE  /\ Book(collected_orders(<<d, d>>))' = Book(collected_orders(<<d, d>>))
             /\ Revenue(counted_orders(<<d, d>>))' <= Revenue(counted_orders(<<d, d>>))
  <2>1. <<d, d>>[2] = d /\ d \in Int
    BY DEF Days
  <2> DEFINE w == <<d, d>>
  <2>2. Closed(w) /\ w[2] \in Int
    BY <1>1, <2>1
  <2> HIDE DEF w
  <2>3. /\ Book(collected_orders(w))' = Book(collected_orders(w))
        /\ Revenue(counted_orders(w))' <= Revenue(counted_orders(w))
    BY <1>1, <2>2, ClosedStep
  <2> QED BY <2>3 DEF w
<1>2. BooksInv /\ [Next]_vars =>
        [orders' # orders => \A d \in Days : Closed(<<d, d>>) =>
           /\ Book(collected_orders(<<d, d>>))' = Book(collected_orders(<<d, d>>))
           /\ Revenue(counted_orders(<<d, d>>))' <= Revenue(counted_orders(<<d, d>>))]_vars
  BY <1>1
<1> QED BY <1>2, BooksInvariance, PTL DEF Spec, ClosedBooksStayClosed

-----------------------------------------------------------------------------
(* Settled reports: the answers stay true while they are given. *)
AnswersOf(kind, w) ==
  IF kind = "cash" THEN CashOf(Table(collected_orders(w)))
  ELSE IF kind = "delivery" THEN DeliveryOf(Table(all_orders(w)))
  ELSE FiguresOf(Table(all_orders(w))) \o FiguresOf(Table(all_orders(Before(w))))

LEMMA AnswersNext ==
  ASSUME NEW kind \in Kinds, NEW w
  PROVE  Answers(kind, w) = AnswersOf(kind, w) /\ Answers(kind, w)' = AnswersOf(kind, w)'
<1>1. Answers(kind, w) = AnswersOf(kind, w)
  <2>1. kind \in {"cash", "delivery", "summary"}
    BY BooksConstants
  <2>2. CASE kind = "cash"
    BY <2>2, CashInTable DEF Answers, AnswersOf
  <2>3. CASE kind = "delivery"
    BY <2>3, DeliveryInTable DEF Answers, AnswersOf
  <2>4. CASE kind = "summary"
    <3>1. Answers(kind, w) = figures(w) \o figures(Before(w))
      BY <2>4 DEF Answers, Summary
    <3> QED BY <2>4, <3>1, FiguresInTable DEF AnswersOf
  <2> QED BY <2>1, <2>2, <2>3, <2>4
<1>2. (Answers(kind, w) = AnswersOf(kind, w))'
  BY <1>1, PTL
<1> QED BY <1>1, <1>2

(* The rows of a closed window whose orders have all ended stay, unless a  *)
(* rider is deleted.                                                       *)
LEMMA RowsStay ==
  ASSUME BooksInv, [Next]_vars, NEW w, Closed(w), ~Erased',
         \A o \in all_orders(w) : orders[o].status # "open"
  PROVE  /\ all_orders(w)' = all_orders(w)
         /\ \A o \in all_orders(w) : orders'[o] = orders[o]
         /\ Table(all_orders(w))' = Table(all_orders(w))
<1>1. /\ all_orders(w)' = all_orders(w)
      /\ \A o \in all_orders(w) : orders'[o] = orders[o]
  BY WindowCloses DEF Finishes, Forgets
<1> QED BY <1>1, TableNext DEF Table

(* The window before ends the day before.                                  *)
LEMMA WindowBefore ==
  ASSUME NEW w \in Int \X Int
  PROVE  Before(w)[2] \in Int
BY DEF Before

(* What a settled report reads does not move: its rows have all ended, and *)
(* no new row falls into a window that is closed.                          *)
LEMMA SettledStays ==
  ASSUME BooksInv, [Next]_vars, NEW kind \in Kinds, NEW w \in Int \X Int, ~Erased',
         Settled(kind, w)
  PROVE  Settled(kind, w)' /\ Answers(kind, w)' = Answers(kind, w)
<1>1. w[2] \in Int /\ Closed(w)
  BY DEF Settled
<1>2. Closed(w)'
  BY <1>1, ClosedStays
<1>3. CASE kind = "cash"
  <2>1. /\ collected_orders(w)' = collected_orders(w)
        /\ \A o \in collected_orders(w) : orders'[o] = orders[o]
    BY <1>1, CollectedStays DEF Forgets
  <2>2. Table(collected_orders(w))' = Table(collected_orders(w))
    BY <2>1, TableNext DEF Table
  <2>3. AnswersOf(kind, w)' = AnswersOf(kind, w)
    BY <1>3, <2>2 DEF AnswersOf
  <2> QED BY <1>2, <1>3, <2>3, AnswersNext DEF Settled
<1>4. CASE kind # "cash"
  <2> DEFINE b == Before(w)
  <2>1. b[2] \in Int /\ Closed(b)
    BY <1>4, WindowBefore DEF Settled
  <2>2. /\ \A o \in all_orders(w) : orders[o].status # "open"
        /\ \A o \in all_orders(b) : orders[o].status # "open"
    BY <1>4 DEF Settled
  <2>3. /\ all_orders(w)' = all_orders(w) /\ \A o \in all_orders(w) : orders'[o] = orders[o]
        /\ Table(all_orders(w))' = Table(all_orders(w))
    BY <1>1, <2>2, RowsStay
  <2>4. (b = Before(w)) /\ (b = Before(w))'
    BY DEF Before
  <2> HIDE DEF b
  <2>5. /\ all_orders(b)' = all_orders(b) /\ \A o \in all_orders(b) : orders'[o] = orders[o]
        /\ Table(all_orders(b))' = Table(all_orders(b))
        /\ Closed(b)'
    BY <2>1, <2>2, RowsStay, ClosedStays
  <2>6. AnswersOf(kind, w)' = AnswersOf(kind, w)
    BY <1>4, <2>3, <2>4, <2>5 DEF AnswersOf
  <2>7. \A o \in all_orders(w)' \cup all_orders(b)' : orders'[o].status # "open"
    BY <2>2, <2>3, <2>5
  <2>8. Settled(kind, w)'
    BY <1>2, <2>4, <2>5, <2>7 DEF Settled
  <2> QED BY <2>6, <2>8, AnswersNext
<1> QED BY <1>3, <1>4

(* What has been read is what would be read now, as far as it goes.        *)
ReadOf(a, t) == \E n \in 0 .. Len(t) : a = SubSeq(t, 1, n)

SettledInv ==
  \A kind \in Kinds, w \in Int \X Int :
    report # Null /\ report.settled /\ ~Erased /\ report.kind = kind /\ report.window = w =>
      Settled(kind, w) /\ ReadOf(report.read, Answers(kind, w))

LEMMA FirstFive ==
  ASSUME NEW U, NEW f \in Seq(U), NEW g \in Seq(U), Len(f) = 5, Len(g) = 5
  PROVE  f \o g \in Seq(U) /\ Len(f \o g) = 10 /\ \A i \in 1 .. 5 : (f \o g)[i] = f[i]
BY ConcatProperties

(* Every report is a sequence of answers; the summary has ten.             *)
LEMMA AnswersAreSeq ==
  ASSUME NEW kind \in Kinds, NEW w
  PROVE  /\ \E V : Answers(kind, w) \in Seq(V)
         /\ kind = "summary" => /\ Len(Answers(kind, w)) = 10
                                /\ \A i \in 1 .. 5 : Answers(kind, w)[i] = figures(w)[i]
<1>1. kind \in {"cash", "delivery", "summary"}
  BY BooksConstants
<1>2. CASE kind = "cash"
  <2> DEFINE A == Cash(w)
  <2>1. A \in Seq({A[1], A[2], A[3]})
    BY DEF Cash
  <2> QED BY <1>2, <2>1 DEF Answers
<1>3. CASE kind = "delivery"
  <2> DEFINE A == Delivery(w)
  <2>1. A \in Seq({A[1], A[2]})
    BY DEF Delivery
  <2> QED BY <1>3, <2>1 DEF Answers
<1>4. CASE kind = "summary"
  <2> DEFINE V(f) == {f[1], f[2], f[3], f[4], f[5]}
  <2>1. ASSUME NEW v
        PROVE  figures(v) \in Seq(V(figures(v))) /\ Len(figures(v)) = 5
    BY DEF figures
  <2> DEFINE f == figures(w)
             g == figures(Before(w))
             U == V(f) \cup V(g)
  <2>2. f \in Seq(V(f)) /\ g \in Seq(V(g)) /\ Len(f) = 5 /\ Len(g) = 5
    BY <2>1
  <2> HIDE DEF f, g
  <2>3. f \in Seq(U) /\ g \in Seq(U)
    BY <2>2
  <2> HIDE DEF U
  <2>4. f \o g \in Seq(U) /\ Len(f \o g) = 10 /\ \A i \in 1 .. 5 : (f \o g)[i] = f[i]
    BY <2>2, <2>3, FirstFive
  <2>5. Answers(kind, w) = f \o g
    BY <1>4 DEF Answers, Summary, f, g
  <2> QED BY <2>4, <2>5 DEF f
<1> QED BY <1>1, <1>2, <1>3, <1>4

(* One more answer of the same moment keeps what was read a prefix.        *)
LEMMA ReadOn ==
  ASSUME NEW V, NEW t \in Seq(V), NEW a, ReadOf(a, t), Len(a) < Len(t)
  PROVE  ReadOf(Append(a, t[Len(a) + 1]), t)
<1>1. PICK n \in 0 .. Len(t) : a = SubSeq(t, 1, n)
  BY DEF ReadOf
<1>2. Len(a) = n /\ n + 1 \in 0 .. Len(t) /\ a \in Seq(V)
  BY <1>1
<1>3. Append(a, t[Len(a) + 1]) = SubSeq(t, 1, n + 1)
  BY <1>1, <1>2
<1> QED BY <1>2, <1>3 DEF ReadOf

(* Every step keeps a settled report true.                                 *)
LEMMA SettledStep ==
  ASSUME BooksInv, SettledInv, [Next]_vars
  PROVE  SettledInv'
<1> SUFFICES ASSUME NEW kind \in Kinds, NEW w \in Int \X Int,
                    report' # Null, report'.settled, ~Erased', report'.kind = kind, report'.window = w
             PROVE  Settled(kind, w)' /\ ReadOf(report'.read, Answers(kind, w)')
  BY DEF SettledInv
<1>0. ~Erased
  BY ErasedStays DEF BooksInv
<1>1. PICK V : Answers(kind, w) \in Seq(V)
  BY AnswersAreSeq
<1>2. ASSUME NEW k \in Kinds, NEW v \in Windows, Ask(k, v)
      PROVE  Settled(kind, w) /\ ReadOf(report'.read, Answers(kind, w))
  <2>1. k = kind /\ v = w /\ Settled(kind, w) /\ report'.read = <<>>
    BY <1>2 DEF Ask
  <2>2. SubSeq(Answers(kind, w), 1, 0) = <<>> /\ 0 \in 0 .. Len(Answers(kind, w))
    BY <1>1
  <2> QED BY <2>1, <2>2 DEF ReadOf
<1>3. ASSUME Statement
      PROVE  Settled(kind, w) /\ ReadOf(report'.read, Answers(kind, w))
  <2>1. /\ report # Null /\ ReportShape(report)
        /\ Len(report.read) < Len(Answers(report.kind, report.window))
        /\ report' = [report EXCEPT !.read = Append(@, Answers(report.kind, report.window)[Len(@) + 1])]
    BY <1>3 DEF Statement, BooksInv, ShopInv
  <2>2. report.kind = kind /\ report.window = w /\ report.settled
    BY <2>1 DEF ReportShape
  <2>3. report'.read = Append(report.read, Answers(kind, w)[Len(report.read) + 1])
    BY <2>1, <2>2 DEF ReportShape
  <2>4. Settled(kind, w) /\ ReadOf(report.read, Answers(kind, w))
    BY <1>0, <2>1, <2>2 DEF SettledInv
  <2> QED BY <1>1, <2>1, <2>2, <2>3, <2>4, ReadOn
<1>4. ASSUME report' = report
      PROVE  Settled(kind, w) /\ ReadOf(report'.read, Answers(kind, w))
  BY <1>0, <1>4 DEF SettledInv
<1>5. (\E k \in Kinds, v \in Windows : Ask(k, v)) \/ Statement \/ report' = report
  BY DEF Next, StorefrontNext, vars, storefrontVars, Deliver, Fail, Cancel, End, DeleteCheck, Erase, Show
<1>6. Settled(kind, w) /\ ReadOf(report'.read, Answers(kind, w))
  BY <1>2, <1>3, <1>4, <1>5
<1> QED BY <1>6, SettledStays

-----------------------------------------------------------------------------
(* A line of a report, field by field, as a sum. *)
BookWeight(t, f) ==
  [o \in DOMAIN t |->
     CASE f = "orders"    -> 1
       [] f = "expected"  -> t[o].charges.grand
       [] f = "collected" -> t[o].amount
       [] f = "short"     -> IF t[o].amount < t[o].charges.grand THEN 1 ELSE 0]

DeliveryWeight(t, f) ==
  [o \in DOMAIN t |-> IF f = "delivered" \/ t[o].late = TRUE THEN 1 ELSE 0]

(* A field of a line of the cash report is a total of weights.             *)
LEMMA BookFields ==
  ASSUME NEW t, NEW T \in SUBSET DOMAIN t, IsFiniteSet(T),
         NEW f \in {"orders", "expected", "collected", "short"}
  PROVE  BookOf(t, T)[f] = Total(BookWeight(t, f), T)
<1> DEFINE W == BookWeight(t, f)
<1>1. CASE f = "orders"
  <2>1. \A o \in T : W[o] = 1
    BY <1>1 DEF BookWeight
  <2> QED BY <1>1, <2>1, TotalCounts DEF BookOf
<1>2. CASE f = "expected"
  <2>1. \A o \in T : W[o] = GrandOf(t)[o]
    BY <1>2 DEF BookWeight, GrandOf
  <2>2. Total(W, T) = Total(GrandOf(t), T)
    BY <2>1, TotalEqual
  <2> QED BY <1>2, <2>2 DEF BookOf
<1>3. CASE f = "collected"
  <2>1. \A o \in T : W[o] = AmountOf(t)[o]
    BY <1>3 DEF BookWeight, AmountOf
  <2>2. Total(W, T) = Total(AmountOf(t), T)
    BY <2>1, TotalEqual
  <2> QED BY <1>3, <2>2 DEF BookOf
<1>4. CASE f = "short"
  <2> DEFINE R == {o \in T : t[o].amount < t[o].charges.grand}
  <2>1. \A o \in T : W[o] = IF o \in R THEN 1 ELSE 0
    BY <1>4 DEF BookWeight
  <2>2. R \in SUBSET T
    OBVIOUS
  <2>3. Total(W, T) = Cardinality(R)
    <3> HIDE DEF W, R
    <3> QED BY <2>1, <2>2, TotalCountsSome
  <2> QED BY <1>4, <2>3 DEF BookOf
<1> QED BY <1>1, <1>2, <1>3, <1>4

(* And so is a field of a line of the delivery report.                     *)
LEMMA DeliveryFields ==
  ASSUME NEW t, NEW T \in SUBSET DOMAIN t, IsFiniteSet(T), NEW f \in {"delivered", "late"}
  PROVE  DeliveryLine(t, T)[f] = Total(DeliveryWeight(t, f), T)
<1> DEFINE W == DeliveryWeight(t, f)
<1>1. CASE f = "delivered"
  <2>1. \A o \in T : W[o] = 1
    BY <1>1 DEF DeliveryWeight
  <2> QED BY <1>1, <2>1, TotalCounts DEF DeliveryLine
<1>2. CASE f = "late"
  <2> DEFINE R == {o \in T : t[o].late = TRUE}
  <2>1. \A o \in T : W[o] = IF o \in R THEN 1 ELSE 0
    BY <1>2 DEF DeliveryWeight
  <2>2. R \in SUBSET T
    OBVIOUS
  <2>3. Total(W, T) = Cardinality(R)
    <3> HIDE DEF W, R
    <3> QED BY <2>1, <2>2, TotalCountsSome
  <2> QED BY <1>2, <2>3 DEF DeliveryLine
<1> QED BY <1>1, <1>2

(* One field of the lines of a report. *)
Column(lines, f) == [k \in DOMAIN lines |-> lines[k][f]]

ColumnSum(lines, f) == Sum(LAMBDA k : lines[k][f], DOMAIN lines)

LEMMA SumOfField ==
  ASSUME NEW lines, NEW f
  PROVE  ColumnSum(lines, f) = Total(Column(lines, f), DOMAIN lines)
BY DEF ColumnSum, Sum, Total, MapThenSumSet, MapThenFoldSet, Column

(* Lines kept per key, each the sum of W over its part of S. *)
KeptByKey(S, W, c, lines, part, f) ==
  /\ \A k : k \in DOMAIN lines <=> \E o \in S : c[o] = k
  /\ \A k \in DOMAIN lines : \A o : o \in part[k] <=> o \in S /\ c[o] = k
  /\ \A k \in DOMAIN lines : lines[k][f] = Total(W, part[k])

LEMMA LinesAddUp ==
  ASSUME NEW S, IsFiniteSet(S), NEW W, \A o \in S : W[o] \in Int,
         NEW c, NEW lines, NEW part, NEW f, KeptByKey(S, W, c, lines, part, f)
  PROVE  Total(Column(lines, f), DOMAIN lines) = Total(W, S)
<1> DEFINE K == DOMAIN lines
           h == Column(lines, f)
<1>1. K = {c[o] : o \in S}
  BY DEF KeptByKey
<1>2. IsFiniteSet(K)
  BY <1>1, KeysFinite
<1>3. \A k \in K : h[k] = Total(W, part[k])
  BY DEF Column, KeptByKey
<1>4. \A o \in S : c[o] \in K
  BY DEF KeptByKey
<1>5. \A k \in K : \A o : o \in part[k] <=> o \in S /\ c[o] = k
  BY DEF KeptByKey
<1>6. Total(h, K) = Total(W, S)
  <2> HIDE DEF h, K
  <2> QED BY <1>2, <1>3, <1>4, <1>5, TotalByKey
<1> QED BY <1>6

(* The rows of the cash report. *)
LEMMA CashAddsUp ==
  ASSUME NEW t, IsFiniteSet(DOMAIN t),
         \A o \in DOMAIN t : t[o].amount \in Int /\ t[o].charges.grand \in Int,
         NEW f \in {"orders", "expected", "collected", "short"}
  PROVE  LET a == CashOf(t)
         IN  /\ Total(Column(a[2], f), DOMAIN a[2]) = a[1][f]
             /\ f # "short" => Total(Column(a[3], f), DOMAIN a[3]) = a[1][f]
<1> DEFINE S == DOMAIN t
           W == BookWeight(t, f)
           c == [o \in S |-> t[o].collected_by]
           d == [o \in S |-> t[o].paid \div Day]
           A == CashOf(t)
           takes == [k \in DOMAIN A[2] |-> {o \in S : t[o].collected_by = k}]
           banks == [k \in DOMAIN A[3] |-> {o \in S : t[o].paid \div Day = k}]
<1>1. \A o \in S : W[o] \in Int
  BY DEF BookWeight
<1>2. A[1][f] = Total(W, S)
  BY BookFields DEF CashOf
<1>3. DOMAIN A[2] = {t[o].collected_by : o \in S} /\ DOMAIN A[3] = {t[o].paid \div Day : o \in S}
  BY DEF CashOf
<1>4. ASSUME NEW k \in DOMAIN A[2]
      PROVE  /\ A[2][k][f] = Total(W, takes[k])
             /\ \A o : o \in takes[k] <=> o \in S /\ c[o] = k
  <2> DEFINE T == {o \in S : t[o].collected_by = k}
  <2>1. A[2][k] = BookOf(t, T)
    BY <1>3 DEF CashOf
  <2>2. T \in SUBSET S /\ IsFiniteSet(T)
    BY FS_Subset
  <2>3. BookOf(t, T)[f] = Total(W, T)
    <3> HIDE DEF T
    <3> QED BY <2>2, BookFields
  <2>4. T = takes[k] /\ \A o : o \in T <=> o \in S /\ c[o] = k
    OBVIOUS
  <2> QED BY <2>1, <2>3, <2>4
<1>5. ASSUME NEW k \in DOMAIN A[3], f # "short"
      PROVE  /\ A[3][k][f] = Total(W, banks[k])
             /\ \A o : o \in banks[k] <=> o \in S /\ d[o] = k
  <2> DEFINE T == {o \in S : t[o].paid \div Day = k}
  <2>1. A[3][k] = DayBookOf(t, T)
    BY <1>3 DEF CashOf
  <2>2. T \in SUBSET S /\ IsFiniteSet(T)
    BY FS_Subset
  <2>3. BookOf(t, T)[f] = Total(W, T)
    <3> HIDE DEF T
    <3> QED BY <2>2, BookFields
  <2>4. T = banks[k] /\ \A o : o \in T <=> o \in S /\ d[o] = k
    OBVIOUS
  <2>5. DayBookOf(t, T)[f] = BookOf(t, T)[f]
    BY <1>5 DEF DayBookOf
  <2> QED BY <2>1, <2>3, <2>4, <2>5
<1>6. /\ \A k : k \in DOMAIN A[2] <=> \E o \in S : c[o] = k
      /\ \A k : k \in DOMAIN A[3] <=> \E o \in S : d[o] = k
  BY <1>3
<1> HIDE DEF W, A, c, d, takes, banks
<1>7. Total(Column(A[2], f), DOMAIN A[2]) = Total(W, S)
  <2> DEFINE lines == A[2]
  <2>1. KeptByKey(S, W, c, lines, takes, f)
    BY <1>4, <1>6 DEF KeptByKey
  <2> HIDE DEF lines
  <2>2. Total(Column(lines, f), DOMAIN lines) = Total(W, S)
    BY <1>1, <2>1, LinesAddUp
  <2> QED BY <2>2 DEF lines
<1>8. f # "short" => Total(Column(A[3], f), DOMAIN A[3]) = Total(W, S)
  <2> SUFFICES ASSUME f # "short" PROVE Total(Column(A[3], f), DOMAIN A[3]) = Total(W, S)
    OBVIOUS
  <2> DEFINE lines == A[3]
  <2>1. KeptByKey(S, W, d, lines, banks, f)
    BY <1>5, <1>6 DEF KeptByKey
  <2> HIDE DEF lines
  <2>2. Total(Column(lines, f), DOMAIN lines) = Total(W, S)
    BY <1>1, <2>1, LinesAddUp
  <2> QED BY <2>2 DEF lines
<1> QED BY <1>2, <1>7, <1>8 DEF A

(* The rows of the delivery report: whoever brought it is on record. *)
LEMMA DeliveryAddsUp ==
  ASSUME NEW t, IsFiniteSet(DOMAIN t), \A o \in DeliveredOf(t) : t[o].boy # Null,
         NEW f \in {"delivered", "late"}
  PROVE  LET a == DeliveryOf(t)
         IN  Total(Column(a[2], f), DOMAIN a[2]) = a[1][f]
<1> DEFINE S == DeliveredOf(t)
           W == DeliveryWeight(t, f)
           c == [o \in S |-> t[o].boy]
           A == DeliveryOf(t)
           takes == [k \in DOMAIN A[2] |-> {o \in S : t[o].boy = k}]
<1>0. S \in SUBSET DOMAIN t /\ IsFiniteSet(S)
  BY FS_Subset DEF DeliveredOf, CountedOf
<1>1. \A o \in S : W[o] \in Int
  BY <1>0 DEF DeliveryWeight
<1>2. A[1][f] = Total(W, S)
  BY <1>0, DeliveryFields DEF DeliveryOf
<1>3. DOMAIN A[2] = {t[o].boy : o \in S} \ {Null}
  BY DEF DeliveryOf
<1>4. ASSUME NEW k \in DOMAIN A[2]
      PROVE  /\ A[2][k][f] = Total(W, takes[k])
             /\ \A o : o \in takes[k] <=> o \in S /\ c[o] = k
  <2> DEFINE T == {o \in S : t[o].boy = k}
  <2>1. A[2][k] = DeliveryLine(t, T)
    BY <1>3 DEF DeliveryOf
  <2>2. T \in SUBSET DOMAIN t /\ IsFiniteSet(T)
    BY <1>0, FS_Subset
  <2>3. DeliveryLine(t, T)[f] = Total(W, T)
    <3> HIDE DEF T
    <3> QED BY <2>2, DeliveryFields
  <2>4. T = takes[k] /\ \A o : o \in T <=> o \in S /\ c[o] = k
    OBVIOUS
  <2> QED BY <2>1, <2>3, <2>4
<1>5. \A k : k \in DOMAIN A[2] <=> \E o \in S : c[o] = k
  BY <1>3
<1> HIDE DEF W, A, c, S, takes
<1>6. Total(Column(A[2], f), DOMAIN A[2]) = Total(W, S)
  <2> DEFINE lines == A[2]
  <2>1. KeptByKey(S, W, c, lines, takes, f)
    BY <1>4, <1>5 DEF KeptByKey
  <2> HIDE DEF lines
  <2>2. Total(Column(lines, f), DOMAIN lines) = Total(W, S)
    BY <1>0, <1>1, <2>1, LinesAddUp
  <2> QED BY <2>2 DEF lines
<1> QED BY <1>2, <1>6 DEF A

(* Rounding half up does not leave the range.                              *)
LEMMA MoneyBelow ==
  ASSUME NEW d \in Nat \ {0}, NEW m \in Nat, NEW n \in Nat, 2 * m + d < 2 * d * (n + 1)
  PROVE  money(m, d) \in 0 .. n
<1> DEFINE b == 2 * d
           q == (2 * m + d) \div b
<1>1. b \in Nat \ {0} /\ 2 * m + d \in Nat
  OBVIOUS
<1>2. q \in Int /\ q * b <= 2 * m + d /\ 2 * m + d < q * b + b
  <2> DEFINE a == 2 * m + d
  <2>1. a \in Int /\ b \in Nat \ {0}
    BY <1>1
  <2> HIDE DEF a, b
  <2>2. a \div b \in Int /\ (a \div b) * b <= a /\ a < (a \div b) * b + b
    BY <2>1, DivFacts
  <2> QED BY <2>2 DEF a
<1> HIDE DEF q
<1>3. q < n + 1
  <2> SUFFICES ASSUME q >= n + 1 PROVE FALSE
    BY <1>2
  <2>1. q * b >= (n + 1) * b
    BY <1>1, <1>2
  <2>2. (n + 1) * b = 2 * d * (n + 1)
    OBVIOUS
  <2> HIDE DEF b
  <2> QED BY <1>1, <1>2, <2>1, <2>2
<1>4. q >= 0
  <2> SUFFICES ASSUME q <= -1 PROVE FALSE
    BY <1>2
  <2>1. (q + 1) * b <= 0
    BY <1>1, <1>2
  <2>2. (q + 1) * b = q * b + b
    BY <1>1, <1>2
  <2> HIDE DEF b
  <2> QED BY <1>1, <1>2, <2>1, <2>2
<1> QED BY <1>2, <1>3, <1>4 DEF money, q

(* The rate of some of the whole is no more than the whole.                *)
Rate(n, d) == money(n * 10000, d)

LEMMA RateIsRate ==
  ASSUME NEW d \in Nat, NEW n \in 0 .. d
  PROVE  Rate(n, d) \in Rates
<1>1. CASE d = 0
  BY <1>1 DEF money, Rate, Rates
<1>2. CASE d # 0
  <2> DEFINE m == n * 10000
             k == 10000
  <2>1. 2 * m + d < 2 * d * (k + 1)
    BY <1>2
  <2>2. m \in Nat /\ k \in Nat
    OBVIOUS
  <2>3. money(m, d) \in 0 .. k
    <3> HIDE DEF m, k
    <3> QED BY <1>2, <2>1, <2>2, MoneyBelow
  <2> QED BY <2>3 DEF Rate, Rates
<1> QED BY <1>1, <1>2

(* An average is no more than the sum. *)
LEMMA AverageIsBelow ==
  ASSUME NEW n \in Nat, NEW d \in Nat
  PROVE  money(n, d) <= n
<1>1. CASE d = 0
  BY <1>1 DEF money
<1>2. CASE d # 0
  <2>1. 2 * d * (n + 1) = 2 * (d * n) + 2 * d /\ d * n >= n /\ d * n \in Nat
    BY <1>2
  <2>2. 2 * n + d < 2 * d * (n + 1)
    BY <1>2, <2>1
  <2>3. money(n, d) \in 0 .. n
    BY <1>2, <2>2, MoneyBelow
  <2> QED BY <2>3
<1> QED BY <1>1, <1>2

(* The figures of one window are consistent. *)
LEMMA FiguresAgree ==
  ASSUME BooksInv, NEW w
  PROVE  LET a == figures(w)
         IN  /\ a[3] \in Nat /\ a[2] \in Nat /\ a[3] <= a[2]
             /\ a[5] \in Nat /\ a[4] \in Nat /\ a[5] <= a[4]
             /\ a[1].revenue \in Nat /\ a[1].orders \in Nat
<1> DEFINE X == all_orders(w)
           C == counted_orders(w)
           D == Delivered(w)
           N == OnTime(D)
           Z == {o \in X : orders[o].status = "Cancelled"}
<1>1. X \in SUBSET Placed /\ C \in SUBSET X /\ D \in SUBSET X /\ N \in SUBSET D /\ Z \in SUBSET X
  BY DEF all_orders, counted_orders, Delivered, OnTime, Placed
<1>2. figures(w) = <<[revenue |-> Revenue(C), orders |-> Cardinality(C)],
                     Cardinality(D), Cardinality(N), Cardinality(X), Cardinality(Z)>>
  BY DEF figures
<1> HIDE DEF X, C, D, N, Z
<1>3. IsFiniteSet(X) /\ IsFiniteSet(C) /\ IsFiniteSet(D) /\ IsFiniteSet(N) /\ IsFiniteSet(Z)
  <2>1. IsFiniteSet(X)
    BY <1>1, FS_Subset DEF BooksInv, RowsInv
  <2>2. IsFiniteSet(D)
    BY <1>1, <2>1, FS_Subset
  <2> QED BY <1>1, <2>1, <2>2, FS_Subset
<1>4. Cardinality(N) <= Cardinality(D) /\ Cardinality(Z) <= Cardinality(X)
  BY <1>1, <1>3, FS_Subset
<1>5. /\ Cardinality(N) \in Nat /\ Cardinality(D) \in Nat /\ Cardinality(X) \in Nat
      /\ Cardinality(Z) \in Nat /\ Cardinality(C) \in Nat
  BY <1>3, FS_CardinalityType
<1>6. Revenue(C) \in Nat
  <2>1. C \in SUBSET Orders /\ C \in SUBSET Placed
    BY <1>1 DEF Placed
  <2>2. \A o \in C : Grand[o] \in Nat
    BY <2>1, BillOf DEF Grand, Charges
  <2>3. Revenue(C) = Total(Grand, C)
    BY <2>1, RevenueIsTotal
  <2> QED BY <1>3, <2>2, <2>3, TotalType
<1> QED BY <1>2, <1>4, <1>5, <1>6

LEMMA SumIsColumn ==
  ASSUME NEW lines, NEW total, NEW fields,
         \A f \in fields : Total(Column(lines, f), DOMAIN lines) = total[f]
  PROVE  AddsUp(lines, total, fields)
<1>1. \A f \in fields : ColumnSum(lines, f) = total[f]
  BY SumOfField
<1> QED BY <1>1 DEF AddsUp, ColumnSum

LEMMA CashReportAddsUp ==
  ASSUME BooksInv, NEW w
  PROVE  LET a == Cash(w)
         IN  /\ \A f \in DOMAIN a[1] : Total(Column(a[2], f), DOMAIN a[2]) = a[1][f]
             /\ \A f \in DOMAIN a[1] \ {"short"} : Total(Column(a[3], f), DOMAIN a[3]) = a[1][f]
<1> DEFINE t == Table(collected_orders(w))
<1>1. DOMAIN t = collected_orders(w) /\ \A o \in DOMAIN t : t[o] = orders[o]
  BY DEF Table
<1>2. collected_orders(w) \in SUBSET Placed /\ IsFiniteSet(collected_orders(w))
  <2>1. collected_orders(w) \in SUBSET Placed
    BY DEF collected_orders, Placed
  <2> QED BY <2>1, FS_Subset DEF BooksInv, RowsInv
<1>3. \A o \in collected_orders(w) :
        orders[o].amount # Null /\ orders[o] \in PlacedRows
  BY <1>2 DEF collected_orders, BooksInv, RowsInv, Sound, Placed
<1>4. \A o \in DOMAIN t : t[o].amount \in Int /\ t[o].charges.grand \in Int
  BY <1>1, <1>3 DEF PlacedRows, Charges
<1>5. IsFiniteSet(DOMAIN t) /\ Cash(w) = CashOf(t)
  BY <1>1, <1>2, CashInTable
<1> HIDE DEF t
<1>6. DOMAIN CashOf(t)[1] = {"orders", "expected", "collected", "short"}
  BY DEF CashOf, BookOf
<1> QED BY <1>4, <1>5, <1>6, CashAddsUp

LEMMA DeliveryReportAddsUp ==
  ASSUME BooksInv, ~Erased, NEW w
  PROVE  LET a == Delivery(w)
         IN  \A f \in DOMAIN a[1] : Total(Column(a[2], f), DOMAIN a[2]) = a[1][f]
<1> DEFINE t == Table(all_orders(w))
<1>1. DOMAIN t = all_orders(w) /\ \A o \in DOMAIN t : t[o] = orders[o]
  BY DEF Table
<1>2. all_orders(w) \in SUBSET Placed /\ IsFiniteSet(all_orders(w))
  <2>1. all_orders(w) \in SUBSET Placed
    BY DEF all_orders, Placed
  <2> QED BY <2>1, FS_Subset DEF BooksInv, RowsInv
<1>3. \A o \in DeliveredOf(t) : t[o].boy # Null
  <2>1. \A o \in DeliveredOf(t) : o \in DOMAIN t /\ t[o].status = "Delivered"
    BY DEF DeliveredOf, CountedOf
  <2>2. \A o \in Placed : Dated(orders[o])
    BY DEF BooksInv, ShopInv, RowsInv, Sound, Placed
  <2> QED BY <1>1, <1>2, <2>1, <2>2, BooksConstants DEF Dated
<1>4. IsFiniteSet(DOMAIN t) /\ Delivery(w) = DeliveryOf(t)
  BY <1>1, <1>2, DeliveryInTable
<1> HIDE DEF t
<1>5. DOMAIN DeliveryOf(t)[1] = {"delivered", "late"}
  BY DEF DeliveryOf, DeliveryLine
<1> QED BY <1>3, <1>4, <1>5, DeliveryAddsUp

LEMMA SummaryRates ==
  ASSUME BooksInv, NEW a, NEW w, \A i \in 1 .. 5 : a[i] = figures(w)[i]
  PROVE  /\ on_time_rate(a) \in Rates
         /\ cancellation_rate(a) \in Rates
         /\ average_order_value(a) <= a[1].revenue
<1> DEFINE b == figures(w)
<1>1. /\ b[2] \in Nat /\ b[3] \in 0 .. b[2]
      /\ b[4] \in Nat /\ b[5] \in 0 .. b[4]
  BY FiguresAgree
<1>2. b[1].revenue \in Nat /\ b[1].orders \in Nat
  BY FiguresAgree
<1>3. a[1] = b[1] /\ a[2] = b[2] /\ a[3] = b[3] /\ a[4] = b[4] /\ a[5] = b[5]
  OBVIOUS
<1> HIDE DEF b
<1>4. on_time_rate(a) \in Rates
  <2>1. Rate(b[3], b[2]) \in Rates
    BY <1>1, RateIsRate
  <2> QED BY <1>1, <1>3, <2>1 DEF on_time_rate, Rate
<1>5. cancellation_rate(a) \in Rates
  <2>1. Rate(b[5], b[4]) \in Rates
    BY <1>1, RateIsRate
  <2> QED BY <1>1, <1>3, <2>1 DEF cancellation_rate, Rate
<1>6. average_order_value(a) <= a[1].revenue
  <2>1. money(b[1].revenue, b[1].orders) <= b[1].revenue
    BY <1>2, AverageIsBelow
  <2> QED BY <1>3, <2>1 DEF average_order_value
<1> QED BY <1>4, <1>5, <1>6

LEMMA ReadIsPrefix ==
  ASSUME NEW V, NEW t \in Seq(V), NEW a, ReadOf(a, t)
  PROVE  IsPrefix(a, t) /\ (Len(a) = Len(t) => a = t)
<1>1. PICK n \in 0 .. Len(t) : a = SubSeq(t, 1, n)
  BY DEF ReadOf
<1>2. Len(a) = n /\ n <= Len(t) /\ \A i \in 1 .. n : a[i] = t[i]
  BY <1>1
<1>3. a \in Seq(V) /\ DOMAIN a = 1 .. n /\ SubSeq(t, 1, Len(t)) = t
  BY <1>1
<1>4. IsPrefix(a, t)
  <2>1. SubSeq(t, 1, Len(a)) = a
    BY <1>1, <1>2
  <2> QED BY <1>2, <2>1 DEF IsPrefix
<1> QED BY <1>1, <1>2, <1>3, <1>4

LEMMA SettledAgrees ==
  ASSUME BooksInv, SettledInv
  PROVE  SettledReportsAgree
<1> SUFFICES ASSUME report # Null, report.settled, ~Erased PROVE SettledReportsAgree
  BY DEF SettledReportsAgree
<1> DEFINE kind == report.kind
           w == report.window
           a == report.read
           t == Answers(kind, w)
<1>1. kind \in Kinds /\ w \in Int \X Int
  BY DEF BooksInv, ShopInv
<1>2. ReadOf(a, t)
  BY <1>1 DEF SettledInv
<1>3. IsPrefix(a, t) /\ (Len(a) = Len(t) => a = t)
  <2>1. PICK V : t \in Seq(V)
    BY <1>1, AnswersAreSeq
  <2> HIDE DEF a, t
  <2> QED BY <1>2, <2>1, ReadIsPrefix
<1>4. Complete => a = t
  BY <1>3 DEF Complete
<1>5. ASSUME kind = "cash", a = t
      PROVE  /\ AddsUp(a[2], a[1], DOMAIN a[1])
             /\ AddsUp(a[3], a[1], DOMAIN a[1] \ {"short"})
  <2>1. a = Cash(w)
    BY <1>5 DEF Answers
  <2> HIDE DEF a, w
  <2> QED BY <2>1, CashReportAddsUp, SumIsColumn
<1>6. ASSUME kind = "delivery", a = t
      PROVE  AddsUp(a[2], a[1], DOMAIN a[1])
  <2>1. a = Delivery(w)
    BY <1>6 DEF Answers
  <2> HIDE DEF a, w
  <2> QED BY <2>1, DeliveryReportAddsUp, SumIsColumn
<1>7. ASSUME kind = "summary", a = t
      PROVE  /\ on_time_rate(a) \in Rates
             /\ cancellation_rate(a) \in Rates
             /\ average_order_value(a) <= a[1].revenue
  <2>1. \A i \in 1 .. 5 : a[i] = figures(w)[i]
    BY <1>1, <1>7, AnswersAreSeq
  <2> HIDE DEF a, w
  <2> QED BY <2>1, SummaryRates
<1> QED BY <1>3, <1>4, <1>5, <1>6, <1>7 DEF SettledReportsAgree

(* Settled reports are one account while no rider is deleted: no           *)
(* transaction is left that could commit a row between the statements, so  *)
(* every answer stays what it was, the lines per rider and per day are the *)
(* total sorted by a key, and a part is no more than the whole             *)
(* (api/views/analytics.py).                                               *)
THEOREM SettledReportsAreOneAccount == Spec => []SettledReportsAgree
<1>1. Init => SettledInv
  BY DEF Init, SettledInv
<1>2. BooksInv /\ SettledInv /\ [Next]_vars => SettledInv'
  BY SettledStep
<1>3. BooksInv /\ SettledInv => SettledReportsAgree
  BY SettledAgrees
<1> QED BY <1>1, <1>2, <1>3, BooksInvariance, PTL DEF Spec

-----------------------------------------------------------------------------
(* The catalogue. *)
Stored == disk \cup bucket

Shows(i) == {r \in rows : image[r] = i}

Unlinking == {q.old_image : q \in {u \in open : u.op = "unlink"}}

(* Taken off a row: removed, or about to be. *)
Gone == Unlinking \cup removed

(* Where the images are that rows and requests speak of.                   *)
Known ==
  /\ drafts \subseteq Stored \ used
  /\ \A r \in Rows : image[r] \in used \cup {NoImage}
  /\ \A q \in open : q.old_image \in used \cup {NoImage}
  /\ removed \subseteq used
  /\ used \subseteq Stored \cup removed \cup reused

(* An image that was given to a row just once is shown by no other row,    *)
(* whatever an edit or a deletion has read, and by none once it goes.      *)
ShownOnce ==
  \A i \in used \ reused :
    /\ \A r, s \in Shows(i) : r = s
    /\ \A q \in open : q.op # "unlink" /\ q.old_image = i => Shows(i) \subseteq {q.row}
    /\ i \in Gone => Shows(i) = {}

(* What the command need not move, or has yet to.                          *)
Accounted(i) ==
  i \in disk => i \in bucket \cup removed \cup migration.late \cup migration.names

Progress ==
  migration.running /\ migration.on = "r2" =>
    /\ backend = "r2"
    /\ \A r \in rows : Accounted(image[r])
    /\ \A j \in items : Accounted(j[2])

CatalogueInv == CatalogueTypeOK /\ Known /\ ShownOnce /\ Progress

-----------------------------------------------------------------------------
(* What a request holds. *)
LEMMA RequestFields ==
  ASSUME NEW q \in Requests
  PROVE  /\ q.op \in {"put", "delete", "unlink"}
         /\ q.op = "put" => /\ q.row \in Tiles /\ q.image \in Image /\ q.name \in Names
                            /\ q.old_image \in Image /\ q.old_name \in Names
         /\ q.op = "delete" => q.row \in Rows /\ q.old_image \in Image
         /\ q.op = "unlink" => q.old_image \in Images
  BY DEF Requests

LEMMA UnlinkTyped ==
  ASSUME NEW i \in Image
  PROVE  /\ Unlink(i) \subseteq Requests
         /\ \A q \in Unlink(i) : q.op = "unlink" /\ q.old_image = i
         /\ i = NoImage => Unlink(i) = {}
         /\ i # NoImage => Unlink(i) = {[op |-> "unlink", old_image |-> i]}
  BY DEF Unlink, Requests, Image

LEMMA NameOfType ==
  ASSUME CatalogueTypeOK, NEW t \in Tiles, NEW n \in Names
  PROVE  NameOf(t) \in Names
  BY DEF CatalogueTypeOK, NameOf

LEMMA GiveTyped ==
  ASSUME CatalogueTypeOK, NEW r \in Rows, NEW i \in Image, Give(r, i)
  PROVE  /\ image' \in [Rows -> Image] /\ drafts' \subseteq Images /\ used' \subseteq Images
         /\ reused' \subseteq Images /\ removed' \subseteq Images /\ migration' \in Migrations
         /\ disk' \subseteq Images /\ bucket' \subseteq Images /\ backend' \in {"local", "r2"}
<1>1. i # NoImage => i \in Images
  BY DEF Image
<1>2. migration' \in Migrations
  <2>1. {x \in {i} \ {NoImage} : migration.running} \subseteq Images
    BY <1>1
  <2>2. migration.late \cup {x \in {i} \ {NoImage} : migration.running} \in SUBSET Images
    BY <2>1 DEF CatalogueTypeOK, Migrations
  <2> DEFINE more == migration.late \cup {x \in {i} \ {NoImage} : migration.running}
  <2>3. migration' = [migration EXCEPT !.late = more]
    BY DEF Give
  <2> HIDE DEF more
  <2> QED BY <2>2, <2>3 DEF CatalogueTypeOK, Migrations, more
<1>3. reused' \subseteq Images
  BY <1>1 DEF Give, Anew, CatalogueTypeOK
<1> QED BY <1>1, <1>2, <1>3 DEF Give, CatalogueTypeOK

(* Every variable of the catalogue keeps its type.                         *)
THEOREM CatalogueTypeCorrect == CatalogueSpec => []CatalogueTypeOK
<1>1. CatalogueInit => CatalogueTypeOK
  BY CatalogueConstants DEF CatalogueInit, CatalogueTypeOK, Image, Migrations, NoMigration
<1>2. CatalogueTypeOK /\ [CatalogueNext]_catalogueVars => CatalogueTypeOK'
  <2> SUFFICES ASSUME CatalogueTypeOK, [CatalogueNext]_catalogueVars PROVE CatalogueTypeOK'
    OBVIOUS
  <2> USE DEF stores, history
  <2>1. CASE UNCHANGED catalogueVars
    BY <2>1 DEF CatalogueTypeOK, catalogueVars
  <2>2. ASSUME NEW i \in Images, Upload(i) PROVE CatalogueTypeOK'
    BY <2>2 DEF CatalogueTypeOK, Upload, save
  <2>3. ASSUME NEW i \in Images, Copy(i) PROVE CatalogueTypeOK'
    BY <2>3 DEF CatalogueTypeOK, Copy, Migrations
  <2>4. ASSUME NEW p \in Products, NEW i \in Image, PatchImage(p, i) PROVE CatalogueTypeOK'
    <3>1. p \in Rows /\ image[p] \in Image
      BY DEF CatalogueTypeOK, Rows
    <3>2. open' \subseteq Requests
      BY <2>4, <3>1, UnlinkTyped DEF CatalogueTypeOK, PatchImage
    <3> QED BY <2>4, <3>1, <3>2, GiveTyped DEF CatalogueTypeOK, PatchImage
  <2>5. ASSUME NEW p \in Products, NEW n \in Names, PatchCategory(p, n) PROVE CatalogueTypeOK'
    BY <2>5 DEF CatalogueTypeOK, PatchCategory
  <2>6. ASSUME NEW p \in Products, Order(p) PROVE CatalogueTypeOK'
    BY <2>6 DEF CatalogueTypeOK, Order, Image, Rows
  <2>7. ASSUME NEW r \in Rows, DeleteRead(r) PROVE CatalogueTypeOK'
    <3>1. open' \subseteq Requests
      BY <2>7 DEF CatalogueTypeOK, DeleteRead, Requests
    <3> QED BY <2>7, <3>1 DEF CatalogueTypeOK, DeleteRead
  <2>8. ASSUME NEW t \in Tiles, NEW i \in Image, NEW n \in Names, PutRead(t, i, n)
        PROVE  CatalogueTypeOK'
    <3>1. open' \subseteq Requests
      BY <2>8, NameOfType DEF CatalogueTypeOK, PutRead, Requests, Rows
    <3> QED BY <2>8, <3>1 DEF CatalogueTypeOK, PutRead
  <2>9. ASSUME NEW q \in open, Put(q) PROVE CatalogueTypeOK'
    <3>1. q \in Requests /\ q.op = "put"
      BY <2>9 DEF CatalogueTypeOK, Put
    <3>2. q.row \in Tiles /\ q.row \in Rows /\ q.image \in Image /\ q.name \in Names /\ q.old_image \in Image
      BY <3>1, RequestFields DEF Rows
    <3>3. open' \subseteq Requests
      BY <2>9, <3>2, UnlinkTyped DEF CatalogueTypeOK, Put, Close, Replaced
    <3>4. label' \in [Products -> Names]
      BY <2>9, <3>2 DEF CatalogueTypeOK, Put, Moved
    <3>5. rows' \subseteq Rows /\ name' \in [Categories -> Names]
      BY <2>9, <3>2 DEF CatalogueTypeOK, Put
    <3> QED BY <2>9, <3>2, <3>3, <3>4, <3>5, GiveTyped DEF CatalogueTypeOK, Put
  <2>10. ASSUME NEW q \in open, Delete(q) PROVE CatalogueTypeOK'
    <3>1. q \in Requests /\ q.op = "delete"
      BY <2>10 DEF CatalogueTypeOK, Delete
    <3>2. open' \subseteq Requests
      BY <2>10, <3>1, RequestFields, UnlinkTyped DEF CatalogueTypeOK, Delete, Close
    <3> QED BY <2>10, <3>2 DEF CatalogueTypeOK, Delete
  <2>11. ASSUME NEW q \in open, delete(q) PROVE CatalogueTypeOK'
    <3>1. q \in Requests /\ q.op = "unlink" /\ open' = open \ {q}
      BY <2>11 DEF CatalogueTypeOK, delete, Close
    <3>2. q.old_image \in Images
      BY <3>1, RequestFields
    <3> QED BY <2>11, <3>1, <3>2 DEF CatalogueTypeOK, delete
  <2>12. ASSUME NEW q \in open, GiveUp(q) PROVE CatalogueTypeOK'
    BY <2>12 DEF CatalogueTypeOK, GiveUp, Close
  <2>13. CASE SwitchBackend
    BY <2>13 DEF CatalogueTypeOK, SwitchBackend
  <2>14. CASE Migrate
    <3>1. referenced_names \subseteq Images
      BY DEF CatalogueTypeOK, referenced_names, Image
    <3>2. migration' \in Migrations
      BY <2>14, <3>1 DEF CatalogueTypeOK, Migrate, Migrations
    <3> QED BY <2>14, <3>2 DEF CatalogueTypeOK, Migrate
  <2>15. CASE Finish
    BY <2>15 DEF CatalogueTypeOK, Finish, Migrations, NoMigration
  <2>16. CASE Abort
    BY <2>16 DEF CatalogueTypeOK, Abort, Migrations, NoMigration
  <2> QED
    BY <2>1, <2>2, <2>3, <2>4, <2>5, <2>6, <2>7, <2>8, <2>9, <2>10, <2>11, <2>12, <2>13,
       <2>14, <2>15, <2>16 DEF CatalogueNext
<1> QED BY <1>1, <1>2, PTL DEF CatalogueSpec

-----------------------------------------------------------------------------
(* Whatever races with a rename, a product filed under a category stays    *)
(* filed under one; only the types are needed.                             *)
LEMMA FiledStep ==
  ASSUME CatalogueTypeOK, [CatalogueNext]_catalogueVars, name' # name,
         NEW p \in Products \cap rows \cap rows', Filed(p)
  PROVE  Filed(p)' \/ \E q \in open \ open' : q.op = "put" /\ q.old_name # name[q.row]
<1>1. PICK q \in open : Put(q)
  BY DEF CatalogueNext, catalogueVars, stores, history, Upload, Copy, PatchImage, PatchCategory,
         Order, DeleteRead, PutRead, Delete, delete, GiveUp, SwitchBackend, Migrate, Finish, Abort
<1>2. q \in Requests /\ q.op = "put"
  BY <1>1 DEF CatalogueTypeOK, Put
<1>3. q.row \in Tiles /\ q.name \in Names /\ q.old_name \in Names
  BY <1>2, RequestFields
<1>4. q \notin open'
  <2>1. \A u \in Replaced(q) : u.op = "unlink"
    BY <1>2, RequestFields, UnlinkTyped DEF Replaced
  <2> QED BY <1>1, <1>2, <2>1 DEF Put, Close
<1>5. q.row \in Categories
  <2> SUFFICES ASSUME q.row \notin Categories PROVE FALSE
    OBVIOUS
  <2>1. name' = [c \in Categories |-> IF c = q.row THEN q.name ELSE name[c]]
    BY <1>1 DEF Put
  <2>2. name' = [c \in Categories |-> name[c]]
    BY <2>1
  <2>3. name = [c \in Categories |-> name[c]]
    BY DEF CatalogueTypeOK
  <2> QED BY <2>2, <2>3
<1> SUFFICES ASSUME q.old_name = name[q.row] PROVE Filed(p)'
  BY <1>2, <1>4
<1>6. PICK c \in Categories \cap rows : Fold[name[c]] = Fold[label[p]]
  BY DEF Filed
<1>7. /\ rows' = rows \cup {q.row}
      /\ \A d \in Categories : name'[d] = IF d = q.row THEN q.name ELSE name[d]
      /\ label'[p] = IF q.name # q.old_name /\ Fold[label[p]] = Fold[q.old_name]
                       THEN q.name ELSE label[p]
  BY <1>1, <1>5 DEF Put, Moved
<1>8. CASE q.name # q.old_name /\ Fold[label[p]] = Fold[q.old_name]
  BY <1>5, <1>7, <1>8 DEF Filed
<1>9. CASE ~(q.name # q.old_name /\ Fold[label[p]] = Fold[q.old_name])
  <2>1. label'[p] = label[p] /\ Fold[name'[c]] = Fold[label[p]] /\ c \in rows'
    BY <1>6, <1>7, <1>9
  <2> QED BY <2>1, <1>6 DEF Filed
<1> QED BY <1>8, <1>9

(* Whatever races with a rename, a product filed under a category stays    *)
(* filed under one, save for the overlaps the property names (the rename of*)
(* `CategoryDetailView.put` takes the products along).                     *)
THEOREM FilingIsKept == CatalogueSpec => FiledStaysFiled
<1>1. CatalogueTypeOK /\ [CatalogueNext]_catalogueVars =>
        [\A p \in Products \cap rows \cap rows' : Filed(p) /\ ~Filed(p)' =>
           \/ name' = name
           \/ \E q \in open \ open' : q.op = "put" /\ q.old_name # name[q.row]]_catalogueVars
  BY FiledStep
<1> QED BY <1>1, CatalogueTypeCorrect, PTL DEF CatalogueSpec, FiledStaysFiled

-----------------------------------------------------------------------------
(* An image is shown by the one row it was given to. *)

LEMMA UnlinkingGrows ==
  ASSUME NEW i \in Image, open' \subseteq open \cup Unlink(i)
  PROVE  Gone' \subseteq Gone \cup removed' \cup ({i} \ {NoImage})
BY UnlinkTyped DEF Gone, Unlinking

LEMMA GoneIsUsed ==
  ASSUME CatalogueTypeOK, Known
  PROVE  Gone \subseteq used
  BY CatalogueConstants, RequestFields DEF Known, Gone, Unlinking, CatalogueTypeOK

(* A step that gives nobody an image and takes none off. *)
LEMMA Quiet ==
  ASSUME CatalogueTypeOK, Known, ShownOnce,
         UNCHANGED <<image, drafts, used, reused>>, rows' \subseteq rows,
         Gone' \subseteq Gone, removed \subseteq removed', drafts \subseteq Stored',
         Stored \subseteq Stored' \cup removed',
         \A q \in open' :
            q \in open \/ (q.op # "unlink" /\ q.row \in rows /\ q.old_image = image[q.row])
  PROVE  Known' /\ ShownOnce'
<1>1. removed' \subseteq used
  BY GoneIsUsed DEF Gone
<1>2. Known'
  <2>1. drafts' \subseteq Stored' \ used'
    BY DEF Known
  <2>2. \A q \in open' : q.old_image \in used' \cup {NoImage}
    BY DEF Known, CatalogueTypeOK
  <2>3. used' \subseteq Stored' \cup removed' \cup reused'
    BY DEF Known
  <2>4. \A r \in Rows : image'[r] \in used' \cup {NoImage}
    BY DEF Known
  <2> QED BY <1>1, <2>1, <2>2, <2>3, <2>4 DEF Known
<1>3. ASSUME NEW i \in used' \ reused'
      PROVE  /\ \A r, s \in Shows(i)' : r = s
             /\ \A q \in open' : q.op # "unlink" /\ q.old_image = i => Shows(i)' \subseteq {q.row}
             /\ i \in Gone' => Shows(i)' = {}
  <2>1. Shows(i)' \subseteq Shows(i)
    BY DEF Shows
  <2>2. /\ \A r, s \in Shows(i) : r = s
        /\ \A q \in open : q.op # "unlink" /\ q.old_image = i => Shows(i) \subseteq {q.row}
        /\ i \in Gone => Shows(i) = {}
    BY <1>3 DEF ShownOnce
  <2>3. ASSUME NEW q \in open', q.op # "unlink", q.old_image = i PROVE Shows(i)' \subseteq {q.row}
    <3>1. CASE q \in open
      BY <2>1, <2>2, <2>3, <3>1
    <3>2. CASE q \notin open
      <4>1. q.row \in Shows(i)
        BY <2>3, <3>2 DEF Shows
      <4> QED BY <2>1, <2>2, <4>1
    <3> QED BY <3>1, <3>2
  <2> QED BY <2>1, <2>2, <2>3
<1>4. ShownOnce'
  BY <1>3 DEF ShownOnce
<1> QED BY <1>2, <1>4

LEMMA UploadOnce ==
  ASSUME CatalogueTypeOK, Known, ShownOnce, NEW i \in Images, Upload(i)
  PROVE  Known' /\ ShownOnce'
<1>1. /\ i \notin used /\ Stored' = Stored \cup {i} /\ drafts' = drafts \cup {i}
      /\ UNCHANGED <<rows, image, open, used, reused, removed>>
  BY DEF Upload, save, Stored
<1>2. Gone' = Gone /\ \A j : Shows(j)' = Shows(j)
  BY <1>1 DEF Gone, Unlinking, Shows
<1>3. Known'
  BY <1>1 DEF Known
<1>4. ShownOnce'
  BY <1>1, <1>2 DEF ShownOnce
<1> QED BY <1>3, <1>4

(* A row is given an image, and the one it had is about to go.             *)
LEMMA GiveOnce ==
  ASSUME CatalogueTypeOK, Known, ShownOnce, NEW r \in Rows, NEW i \in Image, Give(r, i),
         rows' = rows \cup {r},
         NEW old \in Image, old \in used \cup {NoImage},
         old \in used \ reused => Shows(old) \subseteq {r},
         open' \subseteq open \cup Unlink(old),
         old = i => open' \subseteq open
  PROVE  Known' /\ ShownOnce'
<1>1. /\ \A s \in Rows : image'[s] = IF s = r THEN i ELSE image[s]
      /\ drafts' = drafts \ {i} /\ used' = used \cup ({i} \ {NoImage})
      /\ reused' = reused \cup {x \in {i} : Anew(r, i) /\ i \notin drafts}
      /\ removed' = removed /\ Stored' = Stored
  BY DEF Give, CatalogueTypeOK, Stored
<1>2. /\ Gone' \subseteq Gone \cup ({old} \ {NoImage})
      /\ old = i => Gone' \subseteq Gone
  <2>1. Gone' \subseteq Gone \cup removed' \cup ({old} \ {NoImage})
    BY UnlinkingGrows
  <2> QED BY <1>1, <2>1 DEF Gone, Unlinking
<1>3. \A q \in open' : q \in open \/ (q.op = "unlink" /\ q.old_image = old)
  BY UnlinkTyped
<1>4. Known'
  <2>1. drafts' \subseteq Stored' \ used'
    BY <1>1 DEF Known
  <2>2. \A s \in Rows : image'[s] \in used' \cup {NoImage}
    BY <1>1 DEF Known
  <2>3. \A q \in open' : q.old_image \in used' \cup {NoImage}
    BY <1>1, <1>3 DEF Known
  <2>4. used' \subseteq Stored' \cup removed' \cup reused'
    <3> SUFFICES ASSUME i # NoImage, i \notin used, i \notin drafts PROVE i \in reused'
      BY <1>1 DEF Known
    <3>1. image[r] # i
      BY DEF Known
    <3> QED BY <1>1, <3>1 DEF Anew
  <2> QED BY <1>1, <2>1, <2>2, <2>3, <2>4 DEF Known
<1>5. ASSUME NEW j \in used' \ reused'
      PROVE  /\ \A s, t \in Shows(j)' : s = t
             /\ \A q \in open' : q.op # "unlink" /\ q.old_image = j => Shows(j)' \subseteq {q.row}
             /\ j \in Gone' => Shows(j)' = {}
  <2>1. CASE j \in used
    <3>1. j \notin reused
      BY <1>1, <1>5
    <3>2. /\ \A s, t \in Shows(j) : s = t
          /\ \A q \in open : q.op # "unlink" /\ q.old_image = j => Shows(j) \subseteq {q.row}
          /\ j \in Gone => Shows(j) = {}
      BY <2>1, <3>1 DEF ShownOnce
    <3>3. Shows(j)' \subseteq Shows(j)
      <4> SUFFICES ASSUME NEW s \in rows', image'[s] = j PROVE s \in Shows(j)
        BY DEF Shows
      <4>1. s \in Rows /\ j # NoImage
        BY <2>1, CatalogueConstants DEF CatalogueTypeOK
      <4>2. CASE s = r
        <5>1. j = i /\ i \notin drafts
          BY <1>1, <2>1, <4>1, <4>2 DEF Known
        <5>2. ~Anew(r, i)
          BY <1>1, <1>5, <5>1
        <5> QED BY <4>1, <4>2, <5>1, <5>2 DEF Anew, Shows
      <4>3. CASE s # r
        BY <1>1, <4>1, <4>3 DEF Shows
      <4> QED BY <4>2, <4>3
    <3>4. ASSUME j \in Gone' PROVE Shows(j)' = {}
      <4>1. CASE j \in Gone
        BY <3>2, <3>3, <4>1
      <4>2. CASE j \notin Gone
        <5>1. j = old /\ j # i
          BY <1>2, <3>4, <4>2
        <5>2. Shows(j)' \subseteq {r}
          BY <2>1, <3>1, <3>3, <5>1
        <5>3. r \notin Shows(j)'
          BY <1>1, <5>1 DEF Shows
        <5> QED BY <5>2, <5>3
      <4> QED BY <4>1, <4>2
    <3> QED BY <1>3, <3>2, <3>3, <3>4
  <2>2. CASE j \notin used
    <3>1. j = i /\ j # NoImage
      BY <1>1, <1>5, <2>2
    <3>2. Shows(j)' \subseteq {r}
      <4> SUFFICES ASSUME NEW s \in rows', image'[s] = j, s # r PROVE FALSE
        BY DEF Shows
      <4>1. s \in Rows /\ image[s] = j
        BY <1>1 DEF CatalogueTypeOK
      <4> QED BY <2>2, <3>1, <4>1 DEF Known
    <3>3. \A q \in open' : q.old_image # j
      BY <1>3, <2>2, <3>1 DEF Known
    <3>4. j \notin Gone'
      BY <1>2, <2>2, <3>1, GoneIsUsed
    <3> QED BY <3>2, <3>3, <3>4
  <2> QED BY <2>1, <2>2
<1>6. ShownOnce'
  BY <1>5 DEF ShownOnce
<1> QED BY <1>4, <1>6

LEMMA PatchImageOnce ==
  ASSUME CatalogueTypeOK, Known, ShownOnce,
         NEW p \in Products, NEW i \in Image, PatchImage(p, i)
  PROVE  Known' /\ ShownOnce'
<1> DEFINE old == image[p]
<1>1. /\ p \in rows /\ p \in Rows /\ old \in Image /\ old # i /\ old \in used \cup {NoImage}
      /\ rows' = rows \cup {p} /\ Give(p, i) /\ open' = open \cup Unlink(old)
  BY DEF PatchImage, Rows, CatalogueTypeOK, Known
<1>2. old \in used \ reused => Shows(old) \subseteq {p}
  BY <1>1 DEF ShownOnce, Shows
<1> HIDE DEF old
<1> QED BY <1>1, <1>2, GiveOnce

LEMMA PutOnce ==
  ASSUME CatalogueTypeOK, Known, ShownOnce, NEW q \in open, Put(q)
  PROVE  Known' /\ ShownOnce'
<1>1. /\ q \in Requests /\ q.op = "put" /\ q.row \in Rows /\ q.image \in Image
      /\ q.old_image \in Image /\ q.old_image \in used \cup {NoImage}
  BY RequestFields DEF CatalogueTypeOK, Put, Rows, Known
<1>2. /\ rows' = rows \cup {q.row} /\ Give(q.row, q.image)
      /\ open' \subseteq open \cup Unlink(q.old_image)
      /\ q.old_image = q.image => open' \subseteq open
  BY DEF Put, Close, Replaced
<1>3. q.old_image \in used \ reused => Shows(q.old_image) \subseteq {q.row}
  BY <1>1 DEF ShownOnce
<1> QED BY <1>1, <1>2, <1>3, GiveOnce

LEMMA DeleteOnce ==
  ASSUME CatalogueTypeOK, Known, ShownOnce, NEW q \in open, Delete(q)
  PROVE  Known' /\ ShownOnce'
<1> DEFINE old == q.old_image
<1>1. /\ q \in Requests /\ q.op = "delete" /\ q.row \in Rows /\ old \in Image
      /\ open' = (open \ {q}) \cup Unlink(old)
      /\ rows' = rows \ {q.row} /\ old \in used \cup {NoImage}
      /\ UNCHANGED <<image, drafts, used, reused, removed>> /\ Stored' = Stored
  BY RequestFields DEF CatalogueTypeOK, Delete, Close, stores, history, Stored, Known
<1>2. \A u \in open' : u \in open \/ (u.op = "unlink" /\ u.old_image = old)
  BY <1>1, UnlinkTyped
<1>3. Gone' \subseteq Gone \cup ({old} \ {NoImage})
  <2>1. Gone' \subseteq Gone \cup removed' \cup ({old} \ {NoImage})
    BY <1>1, UnlinkingGrows
  <2> QED BY <1>1, <2>1 DEF Gone
<1>4. Known'
  BY <1>1, <1>2 DEF Known
<1>5. ASSUME NEW j \in used' \ reused'
      PROVE  /\ \A s, t \in Shows(j)' : s = t
             /\ \A u \in open' : u.op # "unlink" /\ u.old_image = j => Shows(j)' \subseteq {u.row}
             /\ j \in Gone' => Shows(j)' = {}
  <2>1. Shows(j)' = Shows(j) \ {q.row}
    BY <1>1 DEF Shows
  <2>2. /\ \A s, t \in Shows(j) : s = t
        /\ \A u \in open : u.op # "unlink" /\ u.old_image = j => Shows(j) \subseteq {u.row}
        /\ j \in Gone => Shows(j) = {}
    BY <1>1, <1>5 DEF ShownOnce
  <2>3. ASSUME j \in Gone' PROVE Shows(j)' = {}
    <3>1. CASE j \in Gone
      BY <2>1, <2>2, <3>1
    <3>2. CASE j = old
      BY <1>1, <2>1, <2>2, <3>2
    <3> QED BY <1>3, <2>3, <3>1, <3>2
  <2> QED BY <1>2, <2>1, <2>2, <2>3
<1>6. ShownOnce'
  BY <1>5 DEF ShownOnce
<1> QED BY <1>4, <1>6

(* Only an image that some row had is removed, no draft.                   *)
LEMMA RemoveOnce ==
  ASSUME CatalogueTypeOK, Known, ShownOnce, NEW q \in open, delete(q)
  PROVE  Known' /\ ShownOnce'
<1>1. /\ q \in Requests /\ q.op = "unlink" /\ q.old_image \in Images
      /\ open' = open \ {q} /\ removed' = removed \cup {q.old_image}
      /\ UNCHANGED <<rows, image, drafts, used, reused>>
      /\ Stored \subseteq Stored' \cup {q.old_image}
  BY RequestFields DEF CatalogueTypeOK, delete, Close, Stored
<1>2. q.old_image \in used
  BY <1>1, CatalogueConstants DEF Known
<1>3. Gone' \subseteq Gone
  BY <1>1 DEF Gone, Unlinking
<1>4. drafts \subseteq Stored'
  BY <1>1, <1>2 DEF Known
<1> QED BY <1>1, <1>3, <1>4, Quiet

LEMMA OnceStep ==
  ASSUME CatalogueTypeOK, Known, ShownOnce, [CatalogueNext]_catalogueVars
  PROVE  Known' /\ ShownOnce'
<1> USE DEF stores, history
<1>0. drafts \subseteq Stored
  BY DEF Known
<1>1. CASE UNCHANGED catalogueVars
  BY <1>0, <1>1, Quiet DEF catalogueVars, Gone, Unlinking, Stored
<1>2. ASSUME NEW i \in Images, Upload(i) PROVE Known' /\ ShownOnce'
  BY <1>2, UploadOnce
<1>3. ASSUME NEW i \in Images, Copy(i) PROVE Known' /\ ShownOnce'
  BY <1>0, <1>3, Quiet DEF Copy, Gone, Unlinking, Stored
<1>4. ASSUME NEW p \in Products, NEW i \in Image, PatchImage(p, i) PROVE Known' /\ ShownOnce'
  BY <1>4, PatchImageOnce
<1>5. ASSUME NEW p \in Products, NEW n \in Names, PatchCategory(p, n) PROVE Known' /\ ShownOnce'
  BY <1>0, <1>5, Quiet DEF PatchCategory, Gone, Unlinking, Stored
<1>6. ASSUME NEW p \in Products, Order(p) PROVE Known' /\ ShownOnce'
  BY <1>0, <1>6, Quiet DEF Order, Gone, Unlinking, Stored
<1>7. ASSUME NEW r \in Rows, DeleteRead(r) PROVE Known' /\ ShownOnce'
  BY <1>0, <1>7, Quiet DEF DeleteRead, Gone, Unlinking, Stored
<1>8. ASSUME NEW t \in Tiles, NEW i \in Image, NEW n \in Names, PutRead(t, i, n)
      PROVE  Known' /\ ShownOnce'
  <2>1. PICK q : /\ q.op = "put" /\ q.row = t /\ q.old_image = image[t]
                 /\ open' = open \cup {q}
    BY <1>8 DEF PutRead
  <2> QED BY <1>0, <1>8, <2>1, Quiet DEF PutRead, Gone, Unlinking, Stored
<1>9. ASSUME NEW q \in open, Put(q) PROVE Known' /\ ShownOnce'
  BY <1>9, PutOnce
<1>10. ASSUME NEW q \in open, Delete(q) PROVE Known' /\ ShownOnce'
  BY <1>10, DeleteOnce
<1>11. ASSUME NEW q \in open, delete(q) PROVE Known' /\ ShownOnce'
  BY <1>11, RemoveOnce
<1>12. ASSUME NEW q \in open, GiveUp(q) PROVE Known' /\ ShownOnce'
  BY <1>0, <1>12, Quiet DEF GiveUp, Close, Gone, Unlinking, Stored
<1>13. CASE SwitchBackend
  BY <1>0, <1>13, Quiet DEF SwitchBackend, Gone, Unlinking, Stored
<1>14. CASE Migrate
  BY <1>0, <1>14, Quiet DEF Migrate, Gone, Unlinking, Stored
<1>15. CASE Finish
  BY <1>0, <1>15, Quiet DEF Finish, Gone, Unlinking, Stored
<1>16. CASE Abort
  BY <1>0, <1>16, Quiet DEF Abort, Gone, Unlinking, Stored
<1> QED
  BY <1>1, <1>2, <1>3, <1>4, <1>5, <1>6, <1>7, <1>8, <1>9, <1>10, <1>11, <1>12, <1>13,
     <1>14, <1>15, <1>16 DEF CatalogueNext

(* The command: what no step of the shop's can leave on the disk unseen.   *)
LEMMA GiveAccounts ==
  ASSUME CatalogueTypeOK, Progress, migration.running, migration.on = "r2",
         NEW r \in Rows, NEW i \in Image, Give(r, i), rows' \subseteq rows \cup {r}, items' = items
  PROVE  Progress'
<1>1. /\ backend' = "r2" /\ disk' = disk /\ bucket' = bucket /\ removed' = removed
      /\ migration'.names = migration.names
      /\ migration'.late = migration.late \cup ({i} \ {NoImage})
  BY DEF Give, Progress, CatalogueTypeOK, Migrations
<1>2. \A j : Accounted(j) => Accounted(j)'
  BY <1>1 DEF Accounted
<1>3. Accounted(i)'
  BY <1>1, CatalogueConstants DEF Accounted, CatalogueTypeOK
<1>4. \A s \in rows' : Accounted(image[s])'
  <2> SUFFICES ASSUME NEW s \in rows' PROVE Accounted(image[s])'
    OBVIOUS
  <2>1. (s \in rows \/ s = r) /\ s \in Rows /\ image'[s] = IF s = r THEN i ELSE image[s]
    BY DEF Give, CatalogueTypeOK
  <2>2. CASE s = r
    BY <1>3, <2>1, <2>2 DEF Accounted
  <2>3. CASE s # r
    <3>1. Accounted(image[s])
      BY <2>1, <2>3 DEF Progress
    <3> QED BY <1>1, <2>1, <2>3, <3>1 DEF Accounted
  <2> QED BY <2>2, <2>3
<1>5. \A j \in items' : Accounted(j[2])'
  BY <1>2 DEF Progress
<1> QED BY <1>1, <1>4, <1>5 DEF Progress

LEMMA ProgressStep ==
  ASSUME CatalogueTypeOK, Progress, [CatalogueNext]_catalogueVars
  PROVE  Progress'
<1> USE DEF stores, history
<1> SUFFICES ASSUME migration'.running, migration'.on = "r2" PROVE Progress'
  BY DEF Progress
<1>1. ASSUME migration.running, migration.on = "r2",
             UNCHANGED <<disk, bucket, backend, migration, removed, image, items>>,
             rows' \subseteq rows
      PROVE  Progress'
  BY <1>1 DEF Progress, Accounted
<1>2. CASE UNCHANGED catalogueVars
  BY <1>2 DEF catalogueVars, Progress, Accounted
<1>3. ASSUME NEW i \in Images, Upload(i) PROVE Progress'
  <2>1. /\ migration.running /\ migration.on = "r2" /\ backend = "r2"
        /\ disk' = disk /\ bucket' = bucket \cup {i}
        /\ UNCHANGED <<rows, image, items, backend, migration, removed>>
    BY <1>3 DEF Upload, save, Progress
  <2> QED BY <2>1 DEF Progress, Accounted
<1>4. ASSUME NEW i \in Images, Copy(i) PROVE Progress'
  <2>1. /\ migration.running /\ migration.on = "r2"
        /\ UNCHANGED <<rows, image, items, disk, backend>>
    BY <1>4 DEF Copy, CatalogueTypeOK, Migrations
  <2>2. \A j : Accounted(j) => Accounted(j)'
    BY <1>4 DEF Copy, Accounted, CatalogueTypeOK, Migrations
  <2> QED BY <2>1, <2>2 DEF Progress, Accounted
<1>5. ASSUME NEW r \in Rows, NEW i \in Image, Give(r, i) PROVE migration.running /\ migration.on = "r2"
  BY <1>5 DEF Give, CatalogueTypeOK, Migrations
<1>6. ASSUME NEW p \in Products, NEW i \in Image, PatchImage(p, i) PROVE Progress'
  <2>1. p \in Rows /\ Give(p, i) /\ rows' \subseteq rows \cup {p} /\ items' = items
    BY <1>6 DEF PatchImage, Rows
  <2> QED BY <1>5, <2>1, GiveAccounts
<1>7. ASSUME NEW p \in Products, NEW n \in Names, PatchCategory(p, n) PROVE Progress'
  BY <1>1, <1>7 DEF PatchCategory
<1>8. ASSUME NEW p \in Products, Order(p) PROVE Progress'
  <2>1. \A j \in items' : j \in items \/ (p \in rows /\ j[2] = image[p])
    BY <1>8 DEF Order
  <2>2. UNCHANGED <<rows, image, disk, bucket, backend, migration, removed>>
    BY <1>8 DEF Order
  <2> QED BY <2>1, <2>2 DEF Progress, Accounted
<1>9. ASSUME NEW r \in Rows, DeleteRead(r) PROVE Progress'
  BY <1>1, <1>9 DEF DeleteRead
<1>10. ASSUME NEW t \in Tiles, NEW i \in Image, NEW n \in Names, PutRead(t, i, n) PROVE Progress'
  BY <1>1, <1>10 DEF PutRead
<1>11. ASSUME NEW q \in open, Put(q) PROVE Progress'
  <2>1. q.row \in Rows /\ q.image \in Image
    BY <1>11, RequestFields DEF CatalogueTypeOK, Put, Rows
  <2>2. Give(q.row, q.image) /\ rows' \subseteq rows \cup {q.row} /\ items' = items
    BY <1>11 DEF Put
  <2> QED BY <1>5, <2>1, <2>2, GiveAccounts
<1>12. ASSUME NEW q \in open, Delete(q) PROVE Progress'
  BY <1>1, <1>12 DEF Delete
<1>13. ASSUME NEW q \in open, delete(q) PROVE Progress'
  <2>1. /\ migration.running /\ migration.on = "r2" /\ backend = "r2"
        /\ disk' = disk /\ bucket' = bucket \ {q.old_image} /\ removed' = removed \cup {q.old_image}
        /\ UNCHANGED <<rows, image, items, backend, migration>>
    BY <1>13 DEF delete, Progress
  <2>2. \A j : Accounted(j) => Accounted(j)'
    BY <2>1 DEF Accounted
  <2> QED BY <2>1, <2>2 DEF Progress, Accounted
<1>14. ASSUME NEW q \in open, GiveUp(q) PROVE Progress'
  BY <1>1, <1>14 DEF GiveUp
<1>15. CASE SwitchBackend
  BY <1>15 DEF SwitchBackend, Progress
<1>16. CASE Migrate
  <2>1. /\ migration' = [running |-> TRUE, names |-> referenced_names, on |-> backend, late |-> {}]
        /\ UNCHANGED <<rows, image, items, disk, bucket, backend, removed>>
    BY <1>16 DEF Migrate
  <2>2. NoImage \notin disk
    BY CatalogueConstants DEF CatalogueTypeOK
  <2>3. /\ \A r \in rows : Accounted(image[r])'
        /\ \A j \in items : Accounted(j[2])'
    BY <2>1, <2>2 DEF Accounted, referenced_names
  <2> QED BY <2>1, <2>3 DEF Progress, Accounted
<1>17. CASE Finish
  BY <1>17 DEF Finish, NoMigration
<1>18. CASE Abort
  BY <1>18 DEF Abort, NoMigration
<1> QED
  BY <1>2, <1>3, <1>4, <1>6, <1>7, <1>8, <1>9, <1>10, <1>11, <1>12, <1>13,
     <1>14, <1>15, <1>16, <1>17, <1>18 DEF CatalogueNext

(* Whatever addresses the forms send, an image that was given to a row just*)
(* once, after its upload, is shown by that row alone, no edit or deletion *)
(* in flight takes it from another, it is stored until it has been removed,*)
(* and it is shown by nobody by then; and a running move of the images     *)
(* accounts for all that rows and orders refer to.                         *)
THEOREM CatalogueInvariance == CatalogueSpec => []CatalogueInv
<1>1. CatalogueInit => Known /\ ShownOnce /\ Progress
  BY DEF CatalogueInit, Known, ShownOnce, Progress, NoMigration
<1>2. CatalogueTypeOK /\ Known /\ ShownOnce /\ Progress /\ [CatalogueNext]_catalogueVars =>
        Known' /\ ShownOnce' /\ Progress'
  BY OnceStep, ProgressStep
<1> QED BY <1>1, <1>2, CatalogueTypeCorrect, PTL DEF CatalogueSpec, CatalogueInv

(* No row shows an image that is not there, but for one that a second row  *)
(* or an old form named again: a file goes only after the row that stopped *)
(* showing it is committed, whatever was read before.                      *)
THEOREM ImagesAreThere == CatalogueSpec => []ShownImagesExist
<1>1. CatalogueInv => ShownImagesExist
  <2> SUFFICES ASSUME CatalogueInv, NEW r \in rows, image[r] # NoImage, image[r] \notin reused
               PROVE  image[r] \in disk \cup bucket
    BY DEF ShownImagesExist
  <2>1. image[r] \in used /\ r \in Shows(image[r])
    BY DEF CatalogueInv, CatalogueTypeOK, Known, Shows
  <2>2. image[r] \notin removed
    BY <2>1 DEF CatalogueInv, ShownOnce, Gone
  <2> QED BY <2>1, <2>2 DEF CatalogueInv, Known, Stored
<1> QED BY <1>1, CatalogueInvariance, PTL

(* A run of the command under the new backend that came to its end has     *)
(* moved what there was to move, though rows were saved and files removed  *)
(* while it ran.                                                           *)
THEOREM NothingIsLeftBehind == CatalogueSpec => NothingLeftBehind
<1>1. CatalogueInv /\ [CatalogueNext]_catalogueVars =>
        [Finish /\ migration.on = "r2" =>
           \A i \in ({image[r] : r \in rows} \cup {j[2] : j \in items}) \cap disk :
             i \in bucket \cup removed \cup migration.late]_catalogueVars
  BY DEF CatalogueInv, Progress, Accounted, Finish
<1> QED BY <1>1, CatalogueInvariance, PTL DEF CatalogueSpec, NothingLeftBehind

============================================================================
