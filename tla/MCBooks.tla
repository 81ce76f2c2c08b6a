------------------------------ MODULE MCBooks -------------------------------
(***************************************************************************)
(* Two orders, two riders and two managers; five ticks, two to a day, so a *)
(* shop with the hours <<1, 0>> closes at midnight.  One unit is under the *)
(* minimum of 4; two, in two lines, are worth 4 or, at the higher price,   *)
(* exactly what makes the delivery free; three are too many.               *)
(***************************************************************************)
EXTENDS Books

CONSTANTS o1, o2, r1, r2, m1, m2

MCHours == {0, 1}
MCBaskets == {<<1>>, <<1, 1>>, <<3>>}
MCDoors == {<<0, FALSE, TRUE>>, <<2, TRUE, FALSE>>}
Symmetry == Permutations({o1, o2}) \cup Permutations({r1, r2})

(* The settings act on an order at the gate only, and the reports look     *)
(* neither at them nor at the price of today: while PATCHes go on, and     *)
(* while the shop is paused or has other hours than <<0, 1>>, it is the    *)
(* first day or the midnight after it, the price is the lower one, and no  *)
(* order is on record yet, though one may wait for its commit; and the     *)
(* product is sold at the lower price only until an order ends.  A rider   *)
(* is deleted where there is one order.                                    *)
(* Nothing is claimed of a report that begins before its days are settled, *)
(* no window that is settled reaches the last tick, and a summary is asked *)
(* for where there are days before to compare.  Of two orders one costs    *)
(* more than the other by the time a report is asked for.                  *)
Held == {o \in Orders : pending[o] # Null}
Taken == {o \in Orders : orders[o] # Null}
Ended == {o \in Taken : orders[o].status # "open"}

Focus ==
  /\ Cardinality(gate \cup Held) <= 1
  /\ report # Null => /\ report.settled /\ gate = {}
                      /\ report.kind = "summary" => report.window[1] > 0
                      /\ \A o \in Taken : orders[o].created < MaxTime
                      /\ \A o, p \in Taken : o # p => orders[o].price # orders[p].price
  /\ (report # Null \/ Ended # {} \/ Held \cap Taken # {}) => price = 3
  /\ (\E r \in Riders : roster[r] # "on") =>
       price = 3 /\ Cardinality(gate \cup Held \cup Taken) <= 1
  /\ \/ patches > 0 \/ ~store.is_accepting_orders \/ store.opens_at # 0
     \/ store.closes_at # 1 \/ \E m \in Managers : patch[m] # Null
     => /\ report = Null /\ price = 2 /\ now <= 2
        /\ Taken = {}
        /\ \A r \in Riders : roster[r] = "on"
=============================================================================
