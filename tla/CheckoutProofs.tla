--------------------------- MODULE CheckoutProofs ---------------------------
(***************************************************************************)
(* Checkout never oversells, never makes two orders for one key and never  *)
(* returns goods twice, for any number of attempts and any catalogue.      *)
(* The strengthening: what a transaction remembers of a row it holds is    *)
(* what the row says (Reads), an order that is being returned is still     *)
(* returnable (Returning), and an attempt that is not answered has made no *)
(* order yet (Fresh).                                                      *)
(***************************************************************************)
EXTENDS Checkout, Sums, TLAPS

Reads ==
  \A t \in Txns, p \in Products :
    lock[p] = t => pc[t] = "locking" /\ seen[t][p] = stock[p]

Returning ==
  \A o \in Attempts : pc[Return(o)] = "locking" => Returnable(o)

Fresh ==
  \A a \in Attempts :
    /\ pc[Buy(a)] # "new" => reply[a] = Null
    /\ reply[a] = Null => place[a] = "none"

Inv ==
  TypeOK /\ Reads /\ NoOversell /\ Returning /\ RestockedOnlyFailed /\ Fresh

-----------------------------------------------------------------------------
LEMMA TxnsApart ==
  ASSUME NEW a \in Attempts, NEW o \in Attempts
  PROVE  /\ Buy(a) \in Txns /\ Return(o) \in Txns /\ Buy(a) # Return(o)
         /\ (Buy(a) = Buy(o) \/ Return(a) = Return(o)) => a = o
  BY DEF Buy, Return, Txns

(* A transaction that has read all its rows knows them as they are. *)
LEMMA KnowsItsRows ==
  ASSUME Reads, NEW t \in Txns, AllRead(t), NEW p \in Lines(t)
  PROVE  lock[p] = t /\ seen[t][p] = stock[p]
  BY DEF Reads, AllRead, Wanted, Held, Lines

(* Ending a transaction disturbs no other. *)
LEMMA EndType ==
  ASSUME TypeOK, NEW t \in Txns, End(t)
  PROVE  /\ pc' \in [Txns -> {"new", "missed", "locking"}]
         /\ lock' \in [Products -> Txns \cup {Null}]
         /\ seen' \in [Txns -> [Products -> Int]]
  BY DEF TypeOK, End, Nothing

LEMMA EndReads ==
  ASSUME TypeOK, Reads, NEW t \in Txns, End(t),
         \A p \in Products : lock[p] # t => stock'[p] = stock[p]
  PROVE  Reads'
  BY CheckoutConstants DEF TypeOK, Reads, End, Txns

LEMMA EndReturning ==
  ASSUME TypeOK, Returning, NEW t \in Txns, End(t),
         \A o \in Attempts : t # Return(o) => Returnable(o)' = Returnable(o)
  PROVE  Returning'
  BY TxnsApart DEF TypeOK, Returning, End

-----------------------------------------------------------------------------
LEMMA InitInv == Init => Inv
  <1> SUFFICES ASSUME Init PROVE Inv
    OBVIOUS
  <1>0. stock \in [Products -> Nat]
    BY CheckoutConstants DEF Init
  <1>1. TypeOK
    <2>1. stock \in [Products -> Int] /\ supplied \in [Products -> Int]
      BY <1>0 DEF Init
    <2>2. edits \in 0 .. MaxEdits /\ lock \in [Products -> Txns \cup {Null}]
      BY CheckoutConstants DEF Init
    <2>3. QED
      BY <2>1, <2>2 DEF Init, TypeOK, Nothing, Answers
  <1>2. Reads
    BY CheckoutConstants DEF Init, Reads, Txns
  <1>3. NoOversell /\ RestockedOnlyFailed
    BY <1>0 DEF Init, NoOversell, RestockedOnlyFailed
  <1>4. Returning
    BY TxnsApart DEF Init, Returning
  <1>5. Fresh
    BY TxnsApart DEF Init, Fresh
  <1>6. QED
    BY <1>1, <1>2, <1>3, <1>4, <1>5 DEF Inv

(* A step that takes a row or ends nothing. *)
LEMMA LockRowInv ==
  ASSUME Inv, NEW t \in Txns, LockRow(t)
  PROVE  Inv'
  <1> USE DEF Inv
  <1>1. TypeOK'
    BY DEF LockRow, TypeOK
  <1>2. Reads'
    BY CheckoutConstants DEF LockRow, TypeOK, Reads, Free, Txns
  <1>3. NoOversell' /\ Returning' /\ RestockedOnlyFailed' /\ Fresh'
    BY DEF LockRow, NoOversell, Returning, RestockedOnlyFailed, Returnable, Fresh
  <1>4. QED
    BY <1>1, <1>2, <1>3

(* The steps of one checkout. *)
LEMMA CheckoutInv ==
  ASSUME Inv, NEW a \in Attempts, CheckoutStep(a) \/ Refuse(a)
  PROVE  Inv'
  <1> USE DEF Inv
  <1>a. Buy(a) \in Txns /\ \A o \in Attempts : Buy(a) # Return(o) /\ Return(o) \in Txns
    BY TxnsApart
  <1>b. \A o \in Attempts : Buy(o) \in Txns /\ (o # a => Buy(o) # Buy(a))
    BY TxnsApart
  <1>1. CASE Lookup(a)
    <2>1. TypeOK'
      BY <1>1, <1>a DEF Lookup, Respond, Earlier, TypeOK, Answers
    <2>2. Reads'
      BY <1>1, <1>a DEF Lookup, Reads, TypeOK
    <2>3. Returning'
      BY <1>1, <1>a DEF Lookup, Returning, Returnable, TypeOK
    <2>4. Fresh'
      BY <1>1, TxnsApart, CheckoutConstants DEF Lookup, Fresh, TypeOK, Respond
    <2>5. NoOversell' /\ RestockedOnlyFailed'
      BY <1>1 DEF Lookup, NoOversell, RestockedOnlyFailed
    <2>6. QED
      BY <2>1, <2>2, <2>3, <2>4, <2>5
  <1>2. CASE Begin(a)
    <2>1. TypeOK'
      BY <1>2, <1>a DEF Begin, TypeOK
    <2>2. Reads'
      BY <1>2, <1>a DEF Begin, Reads, TypeOK
    <2>3. Returning'
      <3>1. \A o \in Attempts : pc'[Return(o)] = pc[Return(o)]
        BY <1>2, <1>a DEF Begin, TypeOK
      <3>2. QED
        BY <1>2, <3>1 DEF Begin, Returning, Returnable
    <2>4. Fresh'
      <3>1. \A o \in Attempts \ {a} : pc'[Buy(o)] = pc[Buy(o)]
        BY <1>2, <1>a, <1>b DEF Begin, TypeOK
      <3>2. pc[Buy(a)] # "new"
        BY <1>2 DEF Begin
      <3>3. QED
        BY <1>2, <3>1, <3>2 DEF Begin, Fresh
    <2>5. NoOversell' /\ RestockedOnlyFailed'
      BY <1>2 DEF Begin, NoOversell, RestockedOnlyFailed
    <2>6. QED
      BY <2>1, <2>2, <2>3, <2>4, <2>5
  <1>3. CASE LockRow(Buy(a))
    BY <1>3, <1>a, LockRowInv
  <1>4. ASSUME End(Buy(a)), NEW answer \in Answers, Respond(a, answer),
               UNCHANGED <<stock, active, place, restocked, supplied, edits>>
        PROVE  Inv'
    <2>0. Fresh'
      <3>1. \A o \in Attempts \ {a} : pc'[Buy(o)] = pc[Buy(o)] /\ reply'[o] = reply[o]
        BY <1>4, <1>a, <1>b DEF End, TypeOK, Respond
      <3>2. pc'[Buy(a)] = "new" /\ reply'[a] # Null
        BY <1>4, <1>a, CheckoutConstants DEF End, TypeOK, Respond, Answers
      <3>3. QED
        BY <1>4, <3>1, <3>2 DEF Fresh
    <2>1. TypeOK'
      BY <1>4, <1>a, EndType DEF TypeOK, Respond
    <2>2. Reads'
      BY <1>4, <1>a, EndReads
    <2>3. Returning'
      BY <1>4, <1>a, EndReturning DEF Returnable
    <2>4. NoOversell' /\ RestockedOnlyFailed'
      BY <1>4 DEF NoOversell, RestockedOnlyFailed
    <2>5. QED
      BY <2>0, <2>1, <2>2, <2>3, <2>4
  <1>5. CASE BasketUnavailable(a) \/ IntegrityError(a) \/ Refuse(a)
    BY <1>4, <1>5 DEF BasketUnavailable, IntegrityError, Refuse, Answers, Earlier
  <1>6. CASE _place_order(a)
    <2>1. \A p \in Lines(Buy(a)) :
            /\ lock[p] = Buy(a)
            /\ stock'[p] = stock[p] - Basket[a][p]
            /\ stock[p] >= Basket[a][p]
      BY <1>6, <1>a, KnowsItsRows DEF _place_order, Available, Lines
    <2>2. \A p \in Products \ Lines(Buy(a)) : stock'[p] = stock[p]
      BY <1>6 DEF _place_order
    <2>3. stock' \in [Products -> Int]
      <3>1. \A p \in Products : stock'[p] \in Int
        BY <2>1, <2>2, CheckoutConstants DEF TypeOK
      <3>2. QED
        BY <1>6, <3>1 DEF _place_order
    <2>4. NoOversell'
      BY <2>1, <2>2, CheckoutConstants DEF NoOversell, TypeOK
    <2>5. TypeOK'
      BY <1>6, <1>a, <2>3, EndType DEF _place_order, TypeOK, Respond, Answers
    <2>6. Reads'
      BY <1>6, <1>a, <2>1, <2>2, EndReads DEF _place_order
    <2>7. place[a] = "none" /\ pc[Return(a)] # "locking"
      BY <1>6 DEF _place_order, AllRead, Fresh, Returning, Returnable
    <2>8. \A o \in Attempts : o # a => Returnable(o)' = Returnable(o)
      BY <1>6 DEF _place_order, Returnable, TypeOK
    <2>9. Returning'
      BY <1>6, <1>a, <2>7, <2>8 DEF _place_order, Returning, End, TypeOK
    <2>10. RestockedOnlyFailed' /\ Fresh'
      BY <1>6, <2>7, TxnsApart, CheckoutConstants
         DEF _place_order, RestockedOnlyFailed, Fresh, TypeOK, Respond, End
    <2>11. QED
      BY <2>4, <2>5, <2>6, <2>9, <2>10
  <1>7. QED
    BY <1>1, <1>2, <1>3, <1>5, <1>6 DEF CheckoutStep

(* The steps that cancel or restock an order. *)
LEMMA ReturnInv ==
  ASSUME Inv, NEW o \in Attempts, BeginReturn(o) \/ ReturnStep(o) \/ RollbackReturn(o)
  PROVE  Inv'
  <1> USE DEF Inv
  <1>a. Return(o) \in Txns /\ \A a \in Attempts : Buy(a) \in Txns /\ Buy(a) # Return(o)
    BY TxnsApart
  <1>b. \A x \in Attempts : Return(x) \in Txns /\ (x # o => Return(x) # Return(o))
    BY TxnsApart
  <1>1. CASE BeginReturn(o)
    <2>1. TypeOK'
      BY <1>1, <1>a DEF BeginReturn, TypeOK
    <2>2. Reads'
      BY <1>1, <1>a DEF BeginReturn, Reads, TypeOK
    <2>3. Returning'
      <3>1. \A x \in Attempts \ {o} : pc'[Return(x)] = pc[Return(x)]
        BY <1>1, <1>a, <1>b DEF BeginReturn, TypeOK
      <3>2. QED
        BY <1>1, <3>1 DEF BeginReturn, Returning, Returnable
    <2>4. Fresh'
      <3>1. \A x \in Attempts : pc'[Buy(x)] = pc[Buy(x)]
        BY <1>1, <1>a DEF BeginReturn, TypeOK
      <3>2. QED
        BY <1>1, <3>1 DEF BeginReturn, Fresh
    <2>5. NoOversell' /\ RestockedOnlyFailed'
      BY <1>1 DEF BeginReturn, NoOversell, RestockedOnlyFailed
    <2>6. QED
      BY <2>1, <2>2, <2>3, <2>4, <2>5
  <1>2. CASE LockRow(Return(o))
    BY <1>2, <1>a, LockRowInv
  <1>3. ASSUME End(Return(o))
        PROVE  /\ \A x \in Attempts : pc'[Buy(x)] = pc[Buy(x)]
               /\ \A x \in Attempts \ {o} : pc'[Return(x)] = pc[Return(x)]
               /\ pc'[Return(o)] = "new"
    BY <1>3, <1>a, <1>b DEF End, TypeOK
  <1>4. CASE RollbackReturn(o)
    <2>1. TypeOK'
      BY <1>4, <1>a, EndType DEF RollbackReturn, TypeOK
    <2>2. Reads'
      BY <1>4, <1>a, EndReads DEF RollbackReturn
    <2>3. Returning' /\ Fresh'
      BY <1>3, <1>4 DEF RollbackReturn, Returning, Returnable, Fresh
    <2>4. NoOversell' /\ RestockedOnlyFailed'
      BY <1>4 DEF RollbackReturn, NoOversell, RestockedOnlyFailed
    <2>5. QED
      BY <2>1, <2>2, <2>3, <2>4
  <1>5. CASE _return_stock(o)
    <2>1. \A p \in Lines(Return(o)) :
            /\ lock[p] = Return(o)
            /\ stock'[p] = stock[p] + Basket[o][p]
            /\ Basket[o][p] \in Nat
      BY <1>5, <1>a, KnowsItsRows, CheckoutConstants DEF _return_stock, Lines
    <2>2. \A p \in Products \ Lines(Return(o)) : stock'[p] = stock[p]
      BY <1>5 DEF _return_stock
    <2>3. stock' \in [Products -> Int]
      <3>1. \A p \in Products : stock'[p] \in Int
        BY <2>1, <2>2 DEF TypeOK
      <3>2. QED
        BY <1>5, <3>1 DEF _return_stock
    <2>4. NoOversell'
      BY <2>1, <2>2 DEF NoOversell, TypeOK
    <2>5. TypeOK'
      BY <1>5, <1>a, <2>3, EndType DEF _return_stock, TypeOK
    <2>6. Reads'
      BY <1>5, <1>a, <2>1, <2>2, EndReads DEF _return_stock
    <2>7. place[o] = "store" \/ place[o] = "failed"
      BY <1>5 DEF _return_stock, AllRead, Returning, Returnable
    <2>8. Returning'
      BY <1>3, <1>5 DEF _return_stock, Returning, Returnable, TypeOK
    <2>9. RestockedOnlyFailed'
      BY <1>5, <2>7 DEF _return_stock, RestockedOnlyFailed, TypeOK
    <2>10. Fresh'
      BY <1>3, <1>5, <2>7 DEF _return_stock, Fresh, TypeOK
    <2>11. QED
      BY <2>4, <2>5, <2>6, <2>8, <2>9, <2>10
  <1>6. QED
    BY <1>1, <1>2, <1>4, <1>5 DEF ReturnStep

(* The rest: an order moves, a product is edited. *)
LEMMA OtherInv ==
  ASSUME Inv, \/ \E o \in Attempts : Move(o)
              \/ \E p \in Products : EditStatus(p) \/ \E n \in Counts : EditStock(p, n)
              \/ UNCHANGED vars
  PROVE  Inv'
  <1> USE DEF Inv
  <1>1. ASSUME NEW o \in Attempts, Move(o) PROVE Inv'
    <2>1. TypeOK' /\ Reads' /\ NoOversell' /\ RestockedOnlyFailed' /\ Fresh'
      BY <1>1 DEF Move, TypeOK, Reads, NoOversell, RestockedOnlyFailed, Fresh
    <2>2. Returning'
      BY <1>1 DEF Move, Returning, Returnable, RowFree, TypeOK
    <2>3. QED
      BY <2>1, <2>2
  <1>2. ASSUME NEW p \in Products, NEW n \in Counts, EditStock(p, n) PROVE Inv'
    <2>1. n \in Nat
      BY CheckoutConstants
    <2>2. TypeOK'
      BY <1>2, <2>1, CheckoutConstants DEF EditStock, TypeOK
    <2>3. Reads' /\ NoOversell'
      BY <1>2, <2>1, CheckoutConstants DEF EditStock, TypeOK, Reads, NoOversell, Txns
    <2>4. RestockedOnlyFailed' /\ Fresh' /\ Returning'
      BY <1>2 DEF EditStock, RestockedOnlyFailed, Fresh, Returning, Returnable
    <2>5. QED
      BY <2>2, <2>3, <2>4
  <1>3. ASSUME NEW p \in Products, EditStatus(p) PROVE Inv'
    <2>1. TypeOK'
      BY <1>3, CheckoutConstants DEF EditStatus, TypeOK
    <2>2. QED
      BY <1>3, <2>1
         DEF EditStatus, Reads, NoOversell, RestockedOnlyFailed, Fresh, Returning,
             Returnable
  <1>4. CASE UNCHANGED vars
    BY <1>4 DEF vars, TypeOK, Reads, NoOversell, RestockedOnlyFailed, Fresh, Returning,
           Returnable
  <1>5. QED
    BY <1>1, <1>2, <1>3, <1>4

LEMMA InvCorrect == Spec => []Inv
  <1>1. Inv /\ [Next]_vars => Inv'
    BY CheckoutInv, ReturnInv, OtherInv DEF Next
  <1>2. QED
    BY <1>1, InitInv, PTL DEF Spec

-----------------------------------------------------------------------------
(* The model's types. *)
THEOREM TypeCorrect == Spec => []TypeOK
  BY InvCorrect, PTL DEF Inv

(* No interleaving of checkouts, retries, returns and edits sells a unit   *)
(* that is not there.                                                      *)
THEOREM NeverOversells == Spec => []NoOversell
  BY InvCorrect, PTL DEF Inv

(* Goods come back once, and only from a delivery that failed. *)
THEOREM RestocksOnlyFailed == Spec => []RestockedOnlyFailed
  BY InvCorrect, PTL DEF Inv

(* Every line of an order is on offer and on the shelf as it commits. *)
THEOREM SoldGoodsAreThere == Spec => SellsOnlyWhatIsThere
  <1>1. ASSUME Inv, [Next]_vars
        PROVE  [\A o \in Attempts : ~Placed(o) /\ place'[o] # "none" =>
                  \A p \in Lines(Buy(o)) : active[p] /\ stock[p] >= Basket[o][p]]_vars
    <2> SUFFICES ASSUME Next, NEW o \in Attempts, ~Placed(o), place'[o] # "none",
                        NEW p \in Lines(Buy(o))
                 PROVE  active[p] /\ stock[p] >= Basket[o][p]
      BY <1>1
    <2>1. ASSUME NEW a \in Attempts, CheckoutStep(a) \/ Refuse(a)
          PROVE  a = o /\ _place_order(o)
      BY <1>1, <2>1 DEF CheckoutStep, Lookup, Begin, LockRow, BasketUnavailable,
           _place_order, IntegrityError, Refuse, Inv, TypeOK, Placed
    <2>2. ASSUME NEW x \in Attempts,
                 BeginReturn(x) \/ ReturnStep(x) \/ RollbackReturn(x) \/ Move(x)
          PROVE  FALSE
      BY <1>1, <2>2 DEF BeginReturn, ReturnStep, LockRow, _return_stock, RollbackReturn,
           Move, Inv, TypeOK, Placed
    <2>3. _place_order(o)
      BY <2>1, <2>2 DEF Next, EditStatus, EditStock, Placed
    <2>4. QED
      BY <1>1, <2>3, KnowsItsRows, TxnsApart DEF _place_order, Available, Inv
  <1>2. QED
    BY <1>1, InvCorrect, PTL DEF Spec, SellsOnlyWhatIsThere

(* One key makes one order, and an attempt answered with an order gets the *)
(* one its own key made, however many retries are in flight.               *)
THEOREM KeysMakeOneOrder == Spec => []OneOrderPerKey
  <1>1. Init => OneOrderPerKey
    BY CheckoutConstants DEF Init, OneOrderPerKey, Placed
  <1>2. ASSUME Inv, OneOrderPerKey, [Next]_vars PROVE OneOrderPerKey'
    <2> USE DEF Inv, TypeOK
    <2>1. ASSUME NEW a \in Attempts, NEW answer \in Earlier(a) \cup {"unavailable", "refused"},
                 Respond(a, answer), UNCHANGED place
          PROVE  OneOrderPerKey'
      BY <1>2, <2>1, CheckoutConstants DEF OneOrderPerKey, Respond, Earlier, Placed, SameKey
    <2>2. ASSUME NEW a \in Attempts, _place_order(a) PROVE OneOrderPerKey'
      <3>1. place' = [place EXCEPT ![a] = "store"] /\ reply' = [reply EXCEPT ![a] = a]
        BY <2>2 DEF _place_order, Respond
      <3>2. \A o \in Attempts : Placed(o) => ~SameKey(a, o) /\ ~SameKey(o, a)
        BY <2>2 DEF _place_order, Earlier, SameKey
      <3>3. QED
        BY <1>2, <3>1, <3>2 DEF OneOrderPerKey, Placed, SameKey
    <2>3. ASSUME UNCHANGED <<place, reply>> PROVE OneOrderPerKey'
      BY <1>2, <2>3 DEF OneOrderPerKey, Placed, SameKey
    <2>4. ASSUME NEW o \in Attempts, place[o] # "none", NEW w, w # "none",
                 place' = [place EXCEPT ![o] = w], UNCHANGED reply
          PROVE  OneOrderPerKey'
      BY <1>2, <2>4 DEF OneOrderPerKey, Placed, SameKey
    <2>5. ASSUME NEW a \in Attempts, CheckoutStep(a) \/ Refuse(a)
          PROVE  OneOrderPerKey'
      BY <2>1, <2>2, <2>3, <2>5
         DEF CheckoutStep, Lookup, Begin, LockRow, BasketUnavailable, IntegrityError,
             Refuse
    <2>6. ASSUME NEW o \in Attempts,
                 BeginReturn(o) \/ ReturnStep(o) \/ RollbackReturn(o) \/ Move(o)
          PROVE  OneOrderPerKey'
      BY <2>3, <2>4, <2>6
         DEF BeginReturn, ReturnStep, LockRow, _return_stock, RollbackReturn, Move
    <2>7. QED
      BY <1>2, <2>3, <2>5, <2>6 DEF Next, EditStatus, EditStock, vars
  <1>3. QED
    BY <1>1, <1>2, InvCorrect, PTL DEF Spec

-----------------------------------------------------------------------------
(* Where the goods are.  Only finitely many orders have goods out, which   *)
(* makes their sum one; it need not be assumed of the attempts.            *)

SoldOrders == {o \in Attempts : Sold(o)}

Units(p) == [o \in Attempts |-> Basket[o][p]]

Accounts == IsFiniteSet(SoldOrders) /\ Conservation

LEMMA UnitsAreTotal ==
  ASSUME NEW p, NEW S \in SUBSET Attempts
  PROVE  MapThenSumSet(LAMBDA o : Basket[o][p], S) = Total(Units(p), S)
  BY DEF Total, Units, MapThenSumSet, MapThenFoldSet

LEMMA UnitsSoldNow ==
  ASSUME NEW p
  PROVE  UnitsSold(p) = Total(Units(p), SoldOrders) /\ UnitsSold(p)' = Total(Units(p), SoldOrders')
  <1>1. UnitsSold(p) = MapThenSumSet(LAMBDA o : Basket[o][p], SoldOrders)
    BY DEF UnitsSold, SoldOrders
  <1>2. UnitsSold(p)' = MapThenSumSet(LAMBDA o : Basket[o][p], SoldOrders')
    BY DEF UnitsSold, SoldOrders, MapThenSumSet, MapThenFoldSet
  <1>3. SoldOrders \in SUBSET Attempts /\ SoldOrders' \in SUBSET Attempts
    BY DEF SoldOrders
  <1> QED
    BY <1>1, <1>2, <1>3, UnitsAreTotal

LEMMA UnitsType ==
  ASSUME NEW p \in Products, NEW S \in SUBSET Attempts, IsFiniteSet(S)
  PROVE  /\ \A o \in Attempts : Units(p)[o] = Basket[o][p] /\ Basket[o][p] \in Nat
         /\ Total(Units(p), S) \in Int
  BY CheckoutConstants, TotalType DEF Units

(* Stock that moves with the orders keeps the accounts. *)
LEMMA GoodsLeave ==
  ASSUME Inv, Accounts, NEW o \in Attempts, ~Sold(o), SoldOrders' = SoldOrders \cup {o},
         \A p \in Products : stock'[p] = stock[p] - Basket[o][p], supplied' = supplied
  PROVE  Accounts'
  <1>1. IsFiniteSet(SoldOrders')
    BY FS_AddElement DEF Accounts
  <1>2. ASSUME NEW p \in Products PROVE (stock[p] + UnitsSold(p) = supplied[p])'
    <2>1. Total(Units(p), SoldOrders') = Basket[o][p] + Total(Units(p), SoldOrders)
      <3>1. IsFiniteSet(SoldOrders) /\ SoldOrders \in SUBSET Attempts /\ o \notin SoldOrders
        BY DEF Accounts, SoldOrders
      <3>2. \A x \in Attempts : Units(p)[x] = Basket[x][p] /\ Basket[x][p] \in Nat
        BY <3>1, UnitsType
      <3> HIDE DEF SoldOrders
      <3> QED
        BY <3>1, <3>2, TotalAdd
    <2>2. UnitsSold(p)' = Total(Units(p), SoldOrders')
      BY UnitsSoldNow
    <2>3. stock[p] + Total(Units(p), SoldOrders) = supplied[p]
      BY UnitsSoldNow DEF Accounts, Conservation
    <2>4. stock[p] \in Int /\ Basket[o][p] \in Int /\ Total(Units(p), SoldOrders) \in Int
      BY UnitsType DEF Inv, TypeOK, Accounts, SoldOrders
    <2> QED
      BY <2>1, <2>2, <2>3, <2>4
  <1> QED
    BY <1>1, <1>2 DEF Accounts, Conservation

LEMMA GoodsReturn ==
  ASSUME Inv, Accounts, NEW o \in Attempts, Sold(o), SoldOrders' = SoldOrders \ {o},
         \A p \in Products : stock'[p] = stock[p] + Basket[o][p], supplied' = supplied
  PROVE  Accounts'
  <1>1. IsFiniteSet(SoldOrders')
    BY FS_RemoveElement DEF Accounts
  <1>2. ASSUME NEW p \in Products PROVE (stock[p] + UnitsSold(p) = supplied[p])'
    <2>1. Total(Units(p), SoldOrders) = Basket[o][p] + Total(Units(p), SoldOrders')
      BY TotalRemove, UnitsType DEF Accounts, SoldOrders
    <2>2. UnitsSold(p)' = Total(Units(p), SoldOrders')
      BY UnitsSoldNow
    <2>3. stock[p] + Total(Units(p), SoldOrders) = supplied[p]
      BY UnitsSoldNow DEF Accounts, Conservation
    <2>4. stock[p] \in Int /\ Basket[o][p] \in Int /\ Total(Units(p), SoldOrders') \in Int
      BY <1>1, UnitsType DEF Inv, TypeOK, SoldOrders
    <2> QED
      BY <2>1, <2>2, <2>3, <2>4
  <1> QED
    BY <1>1, <1>2 DEF Accounts, Conservation

LEMMA GoodsStay ==
  ASSUME Inv, Accounts, SoldOrders' = SoldOrders,
         \A p \in Products : stock'[p] - stock[p] = supplied'[p] - supplied[p],
         stock' \in [Products -> Int], supplied' \in [Products -> Int]
  PROVE  Accounts'
  <1>1. ASSUME NEW p \in Products PROVE (stock[p] + UnitsSold(p) = supplied[p])'
    <2>1. UnitsSold(p)' = Total(Units(p), SoldOrders)
      BY UnitsSoldNow
    <2>2. stock[p] + Total(Units(p), SoldOrders) = supplied[p]
      BY UnitsSoldNow DEF Accounts, Conservation
    <2>3. Total(Units(p), SoldOrders) \in Int
      BY UnitsType DEF Accounts, SoldOrders
    <2>4. /\ stock[p] \in Int /\ stock'[p] \in Int /\ supplied[p] \in Int
          /\ supplied'[p] \in Int /\ stock'[p] - stock[p] = supplied'[p] - supplied[p]
      BY DEF Inv, TypeOK
    <2>5. stock'[p] + Total(Units(p), SoldOrders) = supplied'[p]
      BY <2>2, <2>3, <2>4
    <2> QED
      BY <2>1, <2>5
  <1> QED
    BY <1>1 DEF Accounts, Conservation

(* Every step is one of the three. *)
LEMMA AccountsStep ==
  ASSUME Inv, Accounts, [Next]_vars
  PROVE  Accounts'
  <1> USE DEF Inv
  <1>0. Inv'
    BY CheckoutInv, ReturnInv, OtherInv DEF Next
  <1>s. ASSUME UNCHANGED <<stock, supplied>>, UNCHANGED SoldOrders PROVE Accounts'
    <2>1. \A p \in Products : stock'[p] - stock[p] = supplied'[p] - supplied[p]
      BY <1>s DEF TypeOK
    <2> QED
      BY <1>0, <1>s, <2>1, GoodsStay DEF TypeOK
  <1>t. ASSUME UNCHANGED <<place, restocked>> PROVE UNCHANGED SoldOrders
    BY <1>t DEF SoldOrders, Sold
  <1>1. ASSUME NEW a \in Attempts, _place_order(a) PROVE Accounts'
    <2>1. place[a] = "none" /\ ~restocked[a]
      BY <1>1 DEF _place_order, AllRead, Fresh, RestockedOnlyFailed, TypeOK
    <2>2. SoldOrders' = SoldOrders \cup {a} /\ ~Sold(a)
      BY <1>1, <2>1 DEF _place_order, SoldOrders, Sold, TypeOK
    <2>3. ASSUME NEW p \in Products PROVE stock'[p] = stock[p] - Basket[a][p]
      <3>1. CASE p \in Lines(Buy(a))
        <4>1. stock'[p] = seen[Buy(a)][p] - Basket[a][p]
          BY <1>1, <3>1 DEF _place_order
        <4>2. seen[Buy(a)][p] = stock[p]
          BY <1>1, <3>1, TxnsApart, KnowsItsRows DEF _place_order
        <4> QED
          BY <4>1, <4>2
      <3>2. CASE p \notin Lines(Buy(a))
        <4>1. Basket[a][p] = 0
          BY <3>2, CheckoutConstants DEF Lines, Buy
        <4>2. stock'[p] = stock[p]
          BY <1>1, <3>2 DEF _place_order
        <4> QED
          BY <4>1, <4>2 DEF TypeOK
      <3> QED
        BY <3>1, <3>2
    <2> QED
      BY <1>1, <2>2, <2>3, GoodsLeave DEF _place_order
  <1>2. ASSUME NEW o \in Attempts, _return_stock(o) PROVE Accounts'
    <2>1. place[o] = "store" \/ (place[o] = "failed" /\ ~restocked[o])
      BY <1>2 DEF _return_stock, AllRead, Returning, Returnable
    <2>2. ~restocked[o]
      BY <2>1 DEF RestockedOnlyFailed, TypeOK
    <2>3. SoldOrders' = SoldOrders \ {o} /\ Sold(o)
      BY <1>2, <2>1, <2>2 DEF _return_stock, SoldOrders, Sold, TypeOK
    <2>4. ASSUME NEW p \in Products PROVE stock'[p] = stock[p] + Basket[o][p]
      <3>1. CASE p \in Lines(Return(o))
        BY <1>2, <3>1, TxnsApart, KnowsItsRows DEF _return_stock
      <3>2. CASE p \notin Lines(Return(o))
        BY <1>2, <3>2, CheckoutConstants DEF _return_stock, Lines, Return, TypeOK
      <3> QED
        BY <3>1, <3>2
    <2> QED
      BY <1>2, <2>3, <2>4, GoodsReturn DEF _return_stock
  <1>3. ASSUME NEW o \in Attempts, Move(o) PROVE Accounts'
    <2>1. UNCHANGED SoldOrders
      BY <1>3 DEF Move, SoldOrders, Sold, TypeOK
    <2> QED
      BY <1>3, <1>s, <2>1 DEF Move
  <1>4. ASSUME NEW p \in Products, NEW n \in Counts, EditStock(p, n) PROVE Accounts'
    <2>1. n \in Nat
      BY CheckoutConstants
    <2>2. \A q \in Products : stock'[q] - stock[q] = supplied'[q] - supplied[q]
      BY <1>4, <2>1 DEF EditStock, TypeOK
    <2>3. UNCHANGED SoldOrders
      BY <1>4, <1>t DEF EditStock
    <2> QED
      BY <1>0, <2>2, <2>3, GoodsStay DEF TypeOK
  <1>5. ASSUME UNCHANGED <<stock, supplied, place, restocked>> PROVE Accounts'
    BY <1>5, <1>s, <1>t
  <1>6. ASSUME NEW a \in Attempts, CheckoutStep(a) \/ Refuse(a) PROVE Accounts'
    BY <1>1, <1>5, <1>6
       DEF CheckoutStep, Lookup, Begin, LockRow, BasketUnavailable, IntegrityError, Refuse
  <1>7. ASSUME NEW o \in Attempts, BeginReturn(o) \/ ReturnStep(o) \/ RollbackReturn(o)
        PROVE  Accounts'
    BY <1>2, <1>5, <1>7 DEF BeginReturn, ReturnStep, LockRow, RollbackReturn
  <1> QED
    BY <1>3, <1>4, <1>5, <1>6, <1>7 DEF Next, EditStatus, vars

(* Whatever the shelf was ever credited with is on it or out with orders:  *)
(* no unit is lost, returned twice or sold for nothing, through every      *)
(* interleaving of checkouts, retries, returns and corrections.            *)
THEOREM GoodsAreConserved == Spec => []Conservation
  <1>1. ASSUME Init PROVE Accounts
    <2>1. SoldOrders = {}
      BY <1>1 DEF Init, SoldOrders, Sold
    <2>2. \A p \in Products : UnitsSold(p) = 0
      BY <2>1, UnitsSoldNow, TotalEmpty
    <2>3. \A p \in Products : stock[p] \in Int /\ supplied[p] = stock[p]
      BY <1>1, InitInv DEF Init, Inv, TypeOK
    <2> QED
      BY <2>1, <2>2, <2>3, FS_EmptySet DEF Accounts, Conservation
  <1>2. Accounts => Conservation
    BY DEF Accounts
  <1> QED
    BY <1>1, <1>2, InvCorrect, AccountsStep, PTL DEF Spec

-----------------------------------------------------------------------------
(* Waiting for rows.  What a transaction holds comes before what it still  *)
(* wants, and only finitely many rows are held.                            *)

Locked == {p \in Products : lock[p] # Null}

InOrder ==
  \A t \in Txns, p \in Products : \A q \in Lines(t) :
    lock[p] = t /\ lock[q] # t => p < q

Queues == IsFiniteSet(Locked) /\ InOrder

LEMMA FirstWanted ==
  ASSUME NEW t, Wanted(t) # {}
  PROVE  First(t) \in Wanted(t) /\ \A q \in Wanted(t) : First(t) <= q
  <1>1. Wanted(t) \in SUBSET Nat
    BY CheckoutConstants DEF Wanted, Lines
  <1>2. \E p \in Wanted(t) : \A q \in Wanted(t) : p <= q
    BY <1>1, LeastOf
  <1> QED
    BY <1>2 DEF First, Min

LEMMA QueuesEnd ==
  ASSUME Inv, Queues, NEW t \in Txns, End(t)
  PROVE  Queues'
  <1>1. Null \notin Txns
    BY CheckoutConstants DEF Txns
  <1>2. Locked' \subseteq Locked
    BY <1>1 DEF End, Locked
  <1>3. \A p \in Products : lock'[p] \in {lock[p], Null} /\ (lock[p] # t => lock'[p] = lock[p])
    BY DEF End
  <1>4. ASSUME NEW u \in Txns, NEW p \in Products, NEW q \in Lines(u), lock'[p] = u, lock'[q] # u
        PROVE  p < q
    <2>1. lock[p] = u /\ u # t
      BY <1>1, <1>3, <1>4 DEF End
    <2>2. lock[q] # u
      BY <1>3, <1>4, <2>1 DEF Lines
    <2> QED
      BY <2>1, <2>2 DEF Queues, InOrder
  <1> QED
    BY <1>2, <1>4, FS_Subset DEF Queues, InOrder, Lines

LEMMA QueuesGrow ==
  ASSUME Inv, Queues, NEW t \in Txns, LockRow(t)
  PROVE  Queues'
  <1> DEFINE f == First(t)
  <1>1. f \in Wanted(t) /\ \A q \in Wanted(t) : f <= q
    BY FirstWanted DEF LockRow
  <1>2. f \in Products /\ lock[f] = Null /\ lock' = [lock EXCEPT ![f] = t]
    BY <1>1 DEF LockRow, Free, Wanted, Lines
  <1> HIDE DEF f
  <1>3. lock'[f] = t /\ \A p \in Products \ {f} : lock'[p] = lock[p]
    BY <1>2 DEF Inv, TypeOK
  <1>4. IsFiniteSet(Locked')
    <2>1. Locked' \subseteq Locked \cup {f}
      BY <1>3 DEF Locked
    <2>2. IsFiniteSet(Locked \cup {f})
      BY FS_AddElement DEF Queues
    <2> QED
      BY <2>1, <2>2, FS_Subset
  <1>5. ASSUME NEW u \in Txns, NEW p \in Products, NEW q \in Lines(u), lock'[p] = u, lock'[q] # u
        PROVE  p < q
    <2>1. q \in Products /\ lock[q] # u
      BY <1>2, <1>3, <1>5, CheckoutConstants DEF Lines, Txns
    <2>2. CASE p # f
      BY <1>3, <1>5, <2>1, <2>2 DEF Queues, InOrder
    <2>3. CASE p = f
      <3>1. u = t /\ q \in Wanted(t) /\ q # f
        BY <1>3, <1>5, <2>1, <2>3 DEF Wanted, Held
      <3> QED
        BY <1>1, <1>2, <2>1, <2>3, <3>1, CheckoutConstants
    <2> QED
      BY <2>2, <2>3
  <1> QED
    BY <1>4, <1>5 DEF Queues, InOrder, Lines

LEMMA QueuesStep ==
  ASSUME Inv, Queues, [Next]_vars
  PROVE  Queues'
  <1>1. ASSUME UNCHANGED lock PROVE Queues'
    BY <1>1 DEF Queues, Locked, InOrder, Lines
  <1>2. ASSUME NEW a \in Attempts, CheckoutStep(a) \/ Refuse(a) PROVE Queues'
    BY <1>1, <1>2, TxnsApart, QueuesEnd, QueuesGrow
       DEF CheckoutStep, Lookup, Begin, BasketUnavailable, _place_order, IntegrityError, Refuse
  <1>3. ASSUME NEW o \in Attempts, BeginReturn(o) \/ ReturnStep(o) \/ RollbackReturn(o) \/ Move(o)
        PROVE  Queues'
    BY <1>1, <1>3, TxnsApart, QueuesEnd, QueuesGrow
       DEF BeginReturn, ReturnStep, _return_stock, RollbackReturn, Move
  <1> QED
    BY <1>1, <1>2, <1>3 DEF Next, EditStatus, EditStock, vars

(* Whoever waits for the highest of the rows that are waited for, waits    *)
(* for somebody who need not.                                              *)
LEMMA HighestGoesOn ==
  ASSUME Inv, Queues
  PROVE  NobodyWaitsInACircle
  <1> SUFFICES ASSUME NEW t \in Txns, pc[t] = "locking",
                      \A u \in Txns : pc[u] = "locking" => Waits(u)
               PROVE  FALSE
    BY DEF NobodyWaitsInACircle
  <1> DEFINE W == {First(u) : u \in {v \in Txns : pc[v] = "locking"}}
  <1>1. ASSUME NEW u \in Txns, pc[u] = "locking"
        PROVE  /\ First(u) \in Products /\ First(u) \in Nat /\ First(u) \in Wanted(u)
               /\ \A q \in Wanted(u) : First(u) <= q
               /\ lock[First(u)] \in Txns \ {u}
    <2>1. Wanted(u) # {} /\ lock[First(u)] # Null
      BY <1>1 DEF Waits, Free
    <2>2. First(u) \in Wanted(u) /\ \A q \in Wanted(u) : First(u) <= q
      BY <2>1, FirstWanted
    <2>3. First(u) \in Products /\ lock[First(u)] # u
      BY <2>2 DEF Wanted, Lines, Held
    <2> QED
      BY <2>1, <2>2, <2>3, CheckoutConstants DEF Inv, TypeOK
  <1>2. W \in SUBSET Locked /\ W \in SUBSET Nat /\ First(t) \in W
    <2>1. Null \notin Txns
      BY CheckoutConstants DEF Txns
    <2> QED
      BY <1>1, <2>1 DEF Locked
  <1>3. PICK m \in W : \A y \in W : y <= m
    <2>1. IsFiniteSet(W)
      BY <1>2, FS_Subset DEF Queues
    <2> HIDE DEF W
    <2> QED
      BY <1>2, <2>1, GreatestOf
  <1>4. PICK u \in Txns : pc[u] = "locking" /\ m = First(u)
    BY <1>3
  <1> DEFINE h == lock[m]
  <1>5. h \in Txns /\ m \in Products /\ m \in Nat
    BY <1>1, <1>4
  <1>6. pc[h] = "locking"
    BY <1>5 DEF Inv, Reads
  <1> HIDE DEF h
  <1>7. First(h) \in Wanted(h) /\ First(h) \in Products /\ First(h) \in Nat /\ First(h) \in W
    BY <1>1, <1>5, <1>6
  <1>8. m < First(h)
    <2>1. First(h) \in Lines(h) /\ lock[First(h)] # h
      BY <1>7 DEF Wanted, Held
    <2> QED
      BY <1>5, <2>1 DEF Queues, InOrder, h
  <1> QED
    BY <1>3, <1>5, <1>7, <1>8

(* Checkouts and returns never wait for each other in a circle, whatever   *)
(* the baskets: while any is under way, one of them can take its next row  *)
(* or commit (rows are locked in the order of their keys, `read_basket`    *)
(* and `_return_stock`).                                                   *)
THEOREM SomebodyGoesOn == Spec => []NobodyWaitsInACircle
  <1>1. ASSUME Init PROVE Queues
    <2>1. Locked = {} /\ InOrder
      BY <1>1, CheckoutConstants DEF Init, Locked, InOrder, Txns
    <2> QED
      BY <2>1, FS_EmptySet DEF Queues
  <1>2. Inv /\ Queues /\ [Next]_vars => Queues'
    BY QueuesStep
  <1>3. Inv /\ Queues => NobodyWaitsInACircle
    BY HighestGoesOn
  <1> QED
    BY <1>1, <1>2, <1>3, InvCorrect, PTL DEF Spec
=============================================================================
