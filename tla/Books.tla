------------------------------- MODULE Books --------------------------------
(***************************************************************************)
(* What the console's reports say of the orders the Storefront took: sales,*)
(* delivery performance and the cash the riders owe the till               *)
(* (api/views/analytics.py, with the date ranges of api/paging.py).        *)
(*                                                                         *)
(* A report is not one read.  It asks the database several questions, one  *)
(* statement each and no transaction around them, and orders move on in    *)
(* between: `report` holds the answers so far.  An order here is open until*)
(* it ends in one of three ways; OrderRow has the way there.  A payment is *)
(* dated when the delivery is written, and seen when that commits.         *)
(***************************************************************************)
EXTENDS Storefront

CONSTANTS
  Riders,
  Doors,                 \* how a delivery may end: <<short by, late,
                         \* reported by its rider>>
  Kinds,                 \* reports that are asked for
  DEFAULT_WINDOW_DAYS, MAX_WINDOW_DAYS

(* A row of orders, and the bill in it. *)
Charges == [items : Nat, delivery : Nat, handling : Nat, grand : Nat]

PlacedRows ==
  [status : {"open", "Delivered", "Cancelled", "Failed"},
   created : Nat, paid : Nat \cup {Null}, amount : Nat \cup {Null},
   late : BOOLEAN \cup {Null}, boy : Riders \cup {Null}, collected_by : Riders \cup {Null},
   lines : Baskets, quantity : Nat, price : Nat, delivery_type : {"instant"},
   charges : Charges]

ASSUME BooksConstants ==
  /\ DEFAULT_WINDOW_DAYS \in Nat \ {0} /\ MAX_WINDOW_DAYS \in Nat
  /\ Doors \subseteq Nat \X BOOLEAN \X BOOLEAN
  /\ Kinds \subseteq {"cash", "delivery", "summary"}
  /\ Null \notin Riders

ASSUME NullIsNoRow == Null \notin PlacedRows

VARIABLES
  roster,    \* a rider is on it, checked for deletion, or gone
  report     \* the report being put together, Null if none

vars == <<storefrontVars, roster, report>>

today == now \div Day
Days == 0 .. MaxTime \div Day

-----------------------------------------------------------------------------
(* Windows: pairs of days, both included. *)

read_window(from, to) ==
  LET last  == IF to = Null THEN today ELSE to
      first == IF from = Null THEN last - (DEFAULT_WINDOW_DAYS - 1) ELSE from
      lo    == Min({first, last})
      hi    == Max({first, last})
  IN  <<Max({lo, hi - MAX_WINDOW_DAYS}), hi>>

(* The windows that can be asked for. *)
Windows ==
  {read_window(from, to) : from \in Days \cup {Null}, to \in Days \cup {Null}}

(* The window of equal length just before w. *)
Before(w) == <<w[1] - (w[2] - w[1] + 1), w[1] - 1>>

(* `span`: from midnight to the midnight after, half-open. *)
In(t, w) == w[1] * Day <= t /\ t < (w[2] + 1) * Day

-----------------------------------------------------------------------------
(* The rows a figure is built from. *)

all_orders(w) == {o \in Orders : orders[o] # Null /\ In(orders[o].created, w)}

(* Mutant: a delivery refused at the door still counts as a sale. *)
counted_but_failed(w) == {o \in all_orders(w) : orders[o].status # "Cancelled"}

counted_orders(w) ==
  {o \in all_orders(w) : orders[o].status \notin {"Cancelled", "Failed"}}

(* Mutant: money is filed under the day the order was placed. *)
collected_when_placed(w) ==
  {o \in all_orders(w) : orders[o].paid # Null /\ orders[o].amount # Null}

collected_orders(w) ==
  {o \in Orders : /\ orders[o] # Null /\ orders[o].paid # Null
                  /\ In(orders[o].paid, w)
                  /\ orders[o].amount # Null}

Delivered(w) == {o \in counted_orders(w) : orders[o].status = "Delivered"}
Late(S) == {o \in S : orders[o].late = TRUE}
OnTime(S) == {o \in S : orders[o].late = FALSE}

Sum(Of(_), S) == MapThenSumSet(Of, S)
Revenue(S) == Sum(LAMBDA o : orders[o].charges.grand, S)

(* One line of the cash reconciliation. *)
Book(S) ==
  [orders    |-> Cardinality(S),
   expected  |-> Revenue(S),
   collected |-> Sum(LAMBDA o : orders[o].amount, S),
   short     |-> Cardinality({o \in S : orders[o].amount < orders[o].charges.grand})]

DayBook(S) == [f \in {"orders", "expected", "collected"} |-> Book(S)[f]]

Boys(S) == {orders[o].boy : o \in S} \ {Null}
Takers(S) == {orders[o].collected_by : o \in S}
PaidOn(S) == {orders[o].paid \div Day : o \in S}

-----------------------------------------------------------------------------
(* The reports, statement by statement. *)

Cash(w) ==
  LET S == collected_orders(w)
  IN  <<Book(S),
        [r \in Takers(S) |-> Book({o \in S : orders[o].collected_by = r})],
        [d \in PaidOn(S) |-> DayBook({o \in S : orders[o].paid \div Day = d})]>>

Delivery(w) ==
  LET S == Delivered(w)
      Line(T) == [delivered |-> Cardinality(T), late |-> Cardinality(Late(T))]
  IN  <<Line(S), [r \in Boys(S) |-> Line({o \in S : orders[o].boy = r})]>>

figures(w) ==
  <<[revenue |-> Revenue(counted_orders(w)), orders |-> Cardinality(counted_orders(w))],
    Cardinality(Delivered(w)),
    Cardinality(OnTime(Delivered(w))),
    Cardinality(all_orders(w)),
    Cardinality({o \in all_orders(w) : orders[o].status = "Cancelled"})>>

Summary(w) == figures(w) \o figures(Before(w))

Answers(kind, w) ==
  CASE kind = "cash"     -> Cash(w)
    [] kind = "delivery" -> Delivery(w)
    [] kind = "summary"  -> Summary(w)

(* One statement each: these see one moment.  A line of an order is what   *)
(* the customer was charged, not what the product costs now.               *)
(* Mutant: joins back to the live product. *)
LiveLine(o) == price * orders[o].quantity

Line(o) == orders[o].price * orders[o].quantity

TopProducts(w) ==
  [units   |-> Sum(LAMBDA o : orders[o].quantity, counted_orders(w)),
   revenue |-> Sum(Line, counted_orders(w))]

RevenueSeries(w) ==
  [d \in w[1] .. w[2] |->
     [revenue |-> Revenue(counted_orders(<<d, d>>)),
      orders  |-> Cardinality(counted_orders(<<d, d>>))]]

-----------------------------------------------------------------------------
(* Ratios are rounded half up to two places (`money`), a rate in hundredths*)
(* of a percent; no rate at all is shown as zero.                          *)
money(n, d) == IF d = 0 THEN 0 ELSE (2 * n + d) \div (2 * d)

Rates == 0 .. 10000

average_order_value(a) == money(a[1].revenue, a[1].orders)
on_time_rate(a) == money(a[3] * 10000, a[2])
cancellation_rate(a) == money(a[5] * 10000, a[4])

-----------------------------------------------------------------------------
(* The orders go on. *)

(* Nobody else holds the row of an order that is still open. *)
Endable(o) == orders[o] # Null /\ orders[o].status = "open" /\ pending[o] = Null

(* Who carries an order to its end: a rider whose account exists, or nobody*)
(* on record, where the account was deleted in between.                    *)
Erased == \E r \in Riders : roster[r] = "gone"
Carriers == {r \in Riders : roster[r] # "gone"} \cup {b \in {Null} : Erased}

(* At the door the rider says how much was taken, at most the total, or    *)
(* says nothing and owes all of it.  Reported by a manager, nobody on      *)
(* record took it.  The payment is dated here (`advance_status`), before   *)
(* the row is saved, the positions are deleted and the audit row is        *)
(* written.                                                                *)
Deliver(o) ==
  /\ Endable(o)
  /\ \E r \in Carriers, door \in Doors :
       pending' = [pending EXCEPT ![o] =
         [orders[o] EXCEPT !.status = "Delivered", !.paid = now, !.boy = r,
            !.late = door[2],
            !.amount = Max({orders[o].charges.grand - door[1], 0}),
            !.collected_by = IF door[3] THEN r ELSE Null]]
  /\ UNCHANGED <<now, price, store, patch, patches, gate, orders, roster, report>>

(* The other ends date nothing a report reads: one step each. *)
End(o, to, boy) ==
  /\ Endable(o)
  /\ orders' = [orders EXCEPT ![o].status = to, ![o].boy = boy]
  /\ UNCHANGED <<now, price, store, patch, patches, gate, pending, roster, report>>

Fail(o)   == \E r \in Carriers : End(o, "Failed", r)
Cancel(o) == End(o, "Cancelled", orders[o].boy)

(* DELETE /api/users/{id}: a rider with no order on record is deleted, in a*)
(* second statement.  An order he came by in between loses him (SET_NULL); *)
(* one whose row is held by another transaction is waited for.             *)
DeleteCheck(r) ==
  /\ roster[r] = "on"
  /\ \A o \in Orders : orders[o] # Null => orders[o].boy # r
  /\ roster' = [roster EXCEPT ![r] = "checked"]
  /\ UNCHANGED <<storefrontVars, report>>

Forget(row, r) ==
  [row EXCEPT !.boy = IF @ = r THEN Null ELSE @,
              !.collected_by = IF @ = r THEN Null ELSE @]

Erase(r) ==
  /\ roster[r] = "checked"
  /\ \A o \in Orders : pending[o] # Null => pending[o].boy # r
  /\ orders' = [o \in Orders |-> IF orders[o] = Null THEN Null ELSE Forget(orders[o], r)]
  /\ roster' = [roster EXCEPT ![r] = "gone"]
  /\ UNCHANGED <<now, price, store, patch, patches, gate, pending, report>>

(* The days of w are over, and so is every transaction that wrote an order *)
(* or a payment dated in them.                                             *)
Stamp(row) == IF row.paid # Null THEN row.paid ELSE row.created

Closed(w) ==
  /\ w[2] < today
  /\ \A o \in Orders : pending[o] # Null => ~In(Stamp(pending[o]), w)

(* Then the cash changes no more.  For sales and deliveries every order of *)
(* the windows the report looks at must have ended, too.                   *)
Settled(kind, w) ==
  /\ Closed(w)
  /\ kind # "cash" =>
       /\ Closed(Before(w))
       /\ \A o \in all_orders(w) \cup all_orders(Before(w)) : orders[o].status # "open"

(* `settled` is for the properties. *)
Ask(kind, w) ==
  /\ report = Null
  /\ report' = [kind |-> kind, window |-> w, settled |-> Settled(kind, w),
                read |-> <<>>]
  /\ UNCHANGED <<storefrontVars, roster>>

Statement ==
  LET answers == Answers(report.kind, report.window)
  IN  /\ report # Null /\ Len(report.read) < Len(answers)
      /\ report' = [report EXCEPT
           !.read = Append(@, answers[Len(@) + 1])]
      /\ UNCHANGED <<storefrontVars, roster>>

Complete == report # Null /\ Len(report.read) = Len(Answers(report.kind, report.window))

Show ==
  /\ Complete
  /\ report' = Null
  /\ UNCHANGED <<storefrontVars, roster>>

Init ==
  /\ StorefrontInit
  /\ roster = [r \in Riders |-> "on"]
  /\ report = Null

Next ==
  \/ StorefrontNext /\ UNCHANGED <<roster, report>>
  \/ \E o \in Orders : Deliver(o) \/ Fail(o) \/ Cancel(o)
  \/ \E r \in Riders : DeleteCheck(r) \/ Erase(r)
  \/ \E kind \in Kinds, w \in Windows : Ask(kind, w)
  \/ Statement \/ Show

Spec == Init /\ [][Next]_vars
-----------------------------------------------------------------------------
(* A row, committed or not. *)
GoodRow(row) ==
  /\ row \in PlacedRows
  /\ row.created \in 0 .. now
  /\ row.paid # Null => row.paid \in row.created .. now
  /\ row.status = "Delivered" <=> row.paid # Null
  /\ row.status = "Delivered" <=> row.amount # Null

TypeOK ==
  /\ now \in 0 .. MaxTime
  /\ price \in Prices
  /\ store \in Settings
  /\ \A m \in Managers : patch[m] # Null =>
       patch[m].touched \in Touchable /\ patch[m].row \in Settings
  /\ patches \in 0 .. MaxPatches
  /\ gate \subseteq {o \in Orders : orders[o] = Null /\ pending[o] = Null}
  /\ \A o \in Orders : orders[o] # Null => GoodRow(orders[o])
  /\ \A o \in Orders : pending[o] # Null => GoodRow(pending[o])
  /\ roster \in [Riders -> {"on", "checked", "gone"}]
  /\ report # Null =>
       report.kind \in Kinds /\ report.window[1] <= report.window[2]

(* What was banked on a past day stays as it was, once the transactions    *)
(* that dated something in it are over: no delivery, however late after    *)
(* midnight, no failed delivery, no price and no deleted rider changes the *)
(* till of that day, and what was sold on it only ever shrinks, by orders  *)
(* that come to nothing (the docstrings of `collected_orders` and of the   *)
(* module).  The end of the day alone is not enough: an order placed, or   *)
(* money dated, just before midnight is booked when its transaction        *)
(* commits.                                                                *)
ClosedBooksStayClosed ==
  [][orders' # orders => \A d \in Days : Closed(<<d, d>>) =>
       /\ Book(collected_orders(<<d, d>>))' = Book(collected_orders(<<d, d>>))
       /\ Revenue(counted_orders(<<d, d>>))' <= Revenue(counted_orders(<<d, d>>))]_vars

(* The lines of a report, field by field, make its total. *)
AddsUp(lines, total, fields) ==
  \A f \in fields : Sum(LAMBDA k : lines[k][f], DOMAIN lines) = total[f]

(* A report on days that are settled is one consistent account, though it  *)
(* is read in several statements while the shop goes on: every answer is   *)
(* still true when the last is given, the riders' lines and the days add up*)
(* to the totals, and no rate exceeds the whole.  Of a day still going on, *)
(* or with a transaction of it still to commit, the code promises none of  *)
(* this: a delivery between the count of the delivered and the count of    *)
(* those on time makes a rate of 200 percent.  Nor once a rider's account  *)
(* was deleted: what he delivered is in the total and on nobody's line     *)
(* (`delivery_boy__isnull=False`).                                         *)
SettledReportsAgree ==
  (report # Null /\ report.settled /\ ~Erased) =>
    LET a == report.read
    IN  /\ IsPrefix(a, Answers(report.kind, report.window))
        /\ Complete /\ report.kind = "cash" =>
             /\ AddsUp(a[2], a[1], DOMAIN a[1])
             /\ AddsUp(a[3], a[1], DOMAIN a[1] \ {"short"})
        /\ Complete /\ report.kind = "delivery" => AddsUp(a[2], a[1], DOMAIN a[1])
        /\ Complete /\ report.kind = "summary" =>
             /\ on_time_rate(a) \in Rates
             /\ cancellation_rate(a) \in Rates
             /\ average_order_value(a) <= a[1].revenue

(* Once every order of a period has ended, what the reports book as sales  *)
(* is what customers were asked for at the door, no more: a refused        *)
(* delivery is not revenue (`counted_orders`).                             *)
BookedIsCollectable ==
  LET series == RevenueSeries(<<0, today>>)
  IN  \A d \in 0 .. today :
        LET placed == all_orders(<<d, d>>)
        IN  (\A o \in placed : orders[o].status # "open") =>
              series[d].revenue = Revenue({o \in placed : orders[o].paid # Null})

(* History keeps its price: however the product is priced today, the best  *)
(* sellers of a period earned what their customers were charged for goods  *)
(* (`TopProductsView`).                                                    *)
HistoryKeepsItsPrice ==
  LET w == <<0, today>>
  IN  TopProducts(w).revenue = Sum(LAMBDA o : orders[o].charges.items, counted_orders(w))
=============================================================================
