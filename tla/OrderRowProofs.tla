--------------------------- MODULE OrderRowProofs ---------------------------
(***************************************************************************)
(* The invariants of OrderRow for every promise, total and set of riders.  *)
(* None of them is inductive alone.  What they lack is Progress: which     *)
(* stamps each status has behind it, that no stamp is ahead of the clock,  *)
(* and that an order in the store has no rider.                            *)
(***************************************************************************)
EXTENDS OrderRow, TLAPS

Progress ==
  /\ status = "Ready" => Set("packed_at")
  /\ status = "Dispatched" => Set("dispatched_at")
  /\ status \in CANCELLABLE \cup {"Cancelled"} => boy = Null
  /\ \A f \in Stamps : Set(f) => stamp[f] <= now

Inv == TypeOK /\ Chronology /\ MoneyMatchesOutcome /\ EndIsExplained /\ Progress

-----------------------------------------------------------------------------
LEMMA ElapsedIsNat ==
  ASSUME now \in Nat
  PROVE  Elapsed \in Nat
  BY OrderRowConstants, Z3 DEF Elapsed

(* Whole minutes cannot run ahead of the clock. *)
LEMMA LateMeansPastThePromise ==
  ASSUME now \in Nat, Elapsed > Promise
  PROVE  now > promised_at
  BY OrderRowConstants, Z3 DEF Elapsed, promised_at

(* What the handlers share: stamps are only filled in, and only with the   *)
(* clock.                                                                  *)
LEMMA StampedFillsIn ==
  ASSUME TypeOK, NEW path
  PROVE  /\ Stamped(path) \in [Stamps -> Nat \cup {Null}]
         /\ \A f \in Stamps :
              Stamped(path)[f] =
                IF ~Set(f) /\ (\E to \in path : f \in Fields(to)) THEN now ELSE stamp[f]
         /\ now \in Nat /\ now # Null
  BY OrderRowConstants DEF Stamped, Set, TypeOK

LEMMA FieldsOfMoves ==
  /\ Fields("Packing") = {}
  /\ Fields("Ready") = {"packed_at"}
  /\ Fields("Dispatched") = {"dispatched_at"}
  /\ Fields("Delivered") = {"delivered_at", "paid_at"}
  /\ Fields("Cancelled") = {"cancelled_at"}
  /\ Fields("Failed") = {"cancelled_at"}
  BY DEF Fields

-----------------------------------------------------------------------------
LEMMA InitInv == Init => Inv
  BY OrderRowConstants
     DEF Init, Inv, TypeOK, Status, Stamps, Chronology, MoneyMatchesOutcome,
         EndIsExplained, Progress, Set, After, CANCELLABLE

LEMMA StepInv ==
  ASSUME Inv, [Next]_vars
  PROVE  Inv'
  <1> USE DEF Inv
  <1>t. TypeOK'
    <2>1. CASE StartPacking
      BY <2>1, StampedFillsIn DEF StartPacking, advance_status, TypeOK, Status, outcome
    <2>2. ASSUME NEW by \in Riders \cup {Null}, NEW to \in Riders \cup {Null},
                 MoveToReady(by, to)
          PROVE  TypeOK'
      BY <2>2, StampedFillsIn DEF MoveToReady, advance_status, TypeOK, Status, outcome
    <2>3. ASSUME NEW r \in Riders, Accept(r) \/ Assign(r) PROVE TypeOK'
      BY <2>3, StampedFillsIn
         DEF Accept, Assign, advance_status, TypeOK, Status, outcome
    <2>4. ASSUME NEW by \in Riders \cup {Null}, NEW stated \in Stated \cup {Null},
                 Deliver(by, stated)
          PROVE  TypeOK'
      BY <2>4, StampedFillsIn, ElapsedIsNat, OrderRowConstants
         DEF Deliver, Collects, advance_status, TypeOK, Status
    <2>5. ASSUME NEW by \in Riders \cup {Null}, Fail(by) PROVE TypeOK'
      BY <2>5, StampedFillsIn DEF Fail, advance_status, TypeOK, Status, outcome
    <2>6. ASSUME NEW by \in {Manager, Customer}, cancel_order(by) PROVE TypeOK'
      BY <2>6, StampedFillsIn DEF cancel_order, advance_status, TypeOK, Status, outcome
    <2>7. CASE restock_failed_order
      BY <2>7, OrderRowConstants DEF restock_failed_order, TypeOK, outcome, Stamps
    <2>8. CASE Tick
      BY <2>8, OrderRowConstants DEF Tick, TypeOK, outcome
    <2>9. CASE UNCHANGED vars
      BY <2>9 DEF vars, TypeOK
    <2>10. QED
      BY <2>1, <2>2, <2>3, <2>4, <2>5, <2>6, <2>7, <2>8, <2>9 DEF Next
  <1>c. Chronology' /\ MoneyMatchesOutcome' /\ EndIsExplained' /\ Progress'
    <2> USE StampedFillsIn, FieldsOfMoves, OrderRowConstants
        DEF TypeOK, Chronology, MoneyMatchesOutcome, EndIsExplained, Progress,
            After, Set, Stamps, advance_status, outcome, CANCELLABLE
    <2>1. CASE StartPacking
      BY <2>1 DEF StartPacking, CanMove, TRANSITIONS
    <2>2. ASSUME NEW by \in Riders \cup {Null}, NEW to \in Riders \cup {Null},
                 MoveToReady(by, to)
          PROVE  Chronology' /\ MoneyMatchesOutcome' /\ EndIsExplained' /\ Progress'
      BY <2>2 DEF MoveToReady, CanAdvance, CanMove, TRANSITIONS
    <2>3. ASSUME NEW r \in Riders, Accept(r) \/ Assign(r)
          PROVE  Chronology' /\ MoneyMatchesOutcome' /\ EndIsExplained' /\ Progress'
      BY <2>3 DEF Accept, Assign, TERMINAL, Status
    <2>4. ASSUME NEW by \in Riders \cup {Null}, NEW stated \in Stated \cup {Null},
                 Deliver(by, stated)
          PROVE  Chronology' /\ MoneyMatchesOutcome' /\ EndIsExplained' /\ Progress'
      BY <2>4 DEF Deliver, Collects, CanMove, TRANSITIONS, AtMostTotal
    <2>5. ASSUME NEW by \in Riders \cup {Null}, Fail(by)
          PROVE  Chronology' /\ MoneyMatchesOutcome' /\ EndIsExplained' /\ Progress'
      BY <2>5 DEF Fail, CanAdvance, CanMove, TRANSITIONS, Manager
    <2>6. ASSUME NEW by \in {Manager, Customer}, cancel_order(by)
          PROVE  Chronology' /\ MoneyMatchesOutcome' /\ EndIsExplained' /\ Progress'
      BY <2>6 DEF cancel_order, Manager, Customer
    <2>7. CASE restock_failed_order
      BY <2>7 DEF restock_failed_order
    <2>8. CASE Tick
      BY <2>8 DEF Tick
    <2>9. CASE UNCHANGED vars
      BY <2>9 DEF vars
    <2>10. QED
      BY <2>1, <2>2, <2>3, <2>4, <2>5, <2>6, <2>7, <2>8, <2>9 DEF Next
  <1>q. QED
    BY <1>t, <1>c

LEMMA InvCorrect == Spec => []Inv
  BY InitInv, StepInv, PTL DEF Spec

-----------------------------------------------------------------------------
(* The model's types. *)
THEOREM TypeCorrect == Spec => []TypeOK
  BY InvCorrect, PTL DEF Inv

(* The stamps tell one story in order, for any number of hand-backs.       *)
THEOREM StampsInOrder == Spec => []Chronology
  BY InvCorrect, PTL DEF Inv

(* Money is on record exactly for delivered orders, at most the total, and *)
(* credited to the rider who carried the order.                            *)
THEOREM MoneyIsRecorded == Spec => []MoneyMatchesOutcome
  BY InvCorrect, PTL DEF Inv

(* Orders that ended badly say why and when, and only failed ones are      *)
(* restocked.                                                              *)
THEOREM EndsAreExplained == Spec => []EndIsExplained
  BY InvCorrect, PTL DEF Inv

(* Stamps never move and what is settled stays settled. *)
THEOREM SettledIsFrozen == Spec => SettledStaysSettled
  <1>1. ASSUME Inv, [Next]_vars
        PROVE  [/\ \A f \in Stamps : Set(f) => stamp'[f] = stamp[f]
                /\ status \in TERMINAL => UNCHANGED <<status, boy, outcome>>]_vars
    <2>1. ASSUME Next, NEW f \in Stamps, Set(f) PROVE stamp'[f] = stamp[f]
      BY <1>1, <2>1, StampedFillsIn
         DEF Inv, Next, StartPacking, MoveToReady, Accept, Assign, Deliver, Collects,
             Fail, cancel_order, restock_failed_order, Tick, advance_status, Set,
             TypeOK
    <2>2. ASSUME Next, status \in TERMINAL PROVE UNCHANGED <<status, boy, outcome>>
      BY <2>2 DEF Next, StartPacking, MoveToReady, Accept, Assign, Deliver, Fail,
             cancel_order, restock_failed_order, Tick, advance_status,
             CanAdvance, CanMove, TRANSITIONS, TERMINAL, CANCELLABLE
    <2>3. QED
      BY <1>1, <2>1, <2>2
  <1>2. QED
    BY <1>1, InvCorrect, PTL DEF Spec, SettledStaysSettled

(* An order recorded late was being shown as late: whole minutes lag the   *)
(* clock, so the recorded outcome never judges harder than the display.    *)
THEOREM LateIsNoSurprise == Spec => NoSurpriseLate
  <1>1. ASSUME Inv, [Next]_vars
        PROVE  [was_late' = TRUE /\ was_late = Null => is_late]_vars
    <2> SUFFICES ASSUME Next, was_late' = TRUE, was_late = Null PROVE is_late
      BY <1>1
    <2>1. PICK by \in Riders \cup {Null}, stated \in Stated \cup {Null} :
            Deliver(by, stated)
      BY OrderRowConstants
         DEF Next, StartPacking, MoveToReady, Accept, Assign, Fail, cancel_order,
             restock_failed_order, Tick, outcome
    <2>2. status = "Dispatched" /\ Elapsed > Promise
      BY <2>1 DEF Deliver, Collects, CanMove, TRANSITIONS
    <2>3. now \in Nat
      BY <1>1, OrderRowConstants DEF Inv, TypeOK
    <2>4. QED
      BY <2>2, <2>3, LateMeansPastThePromise DEF is_late, TERMINAL
  <1>2. QED
    BY <1>1, InvCorrect, PTL DEF Spec, NoSurpriseLate

(* One row implements Custody. *)
THEOREM RowImplementsCustody == Spec => ImplementsCustody
  <1>1. Init => C!Init
    BY DEF Init, C!Init, PlaceOf, CANCELLABLE
  <1>2. ASSUME Inv, [Next]_vars PROVE [C!Next]_(C!custodyVars)
    <2> USE DEF C!Next, C!HandOver, C!Reassign, C!GiveBack, C!Finish, C!Cancel,
                C!custodyVars, PlaceOf, CANCELLABLE, advance_status, Inv, TypeOK, Status
    <2>1. CASE StartPacking
      BY <1>2, <2>1 DEF StartPacking, CanMove, TRANSITIONS
    <2>2. ASSUME NEW by \in Riders \cup {Null}, NEW to \in Riders \cup {Null},
                 MoveToReady(by, to)
          PROVE  [C!Next]_(C!custodyVars)
      BY <1>2, <2>2 DEF MoveToReady, CanAdvance, CanMove, TRANSITIONS, Progress
    <2>3. ASSUME NEW r \in Riders, Accept(r) \/ Assign(r)
          PROVE  [C!Next]_(C!custodyVars)
      BY <1>2, <2>3 DEF Accept, Assign, TERMINAL
    <2>4. ASSUME NEW by \in Riders \cup {Null}, NEW stated \in Stated \cup {Null},
                 Deliver(by, stated)
          PROVE  [C!Next]_(C!custodyVars)
      BY <1>2, <2>4 DEF Deliver, Collects, CanMove, TRANSITIONS
    <2>5. ASSUME NEW by \in Riders \cup {Null}, Fail(by)
          PROVE  [C!Next]_(C!custodyVars)
      BY <1>2, <2>5 DEF Fail, CanAdvance, CanMove, TRANSITIONS
    <2>6. ASSUME NEW by \in {Manager, Customer}, cancel_order(by)
          PROVE  [C!Next]_(C!custodyVars)
      BY <1>2, <2>6 DEF cancel_order
    <2>7. CASE restock_failed_order \/ Tick \/ UNCHANGED vars
      BY <1>2, <2>7 DEF restock_failed_order, Tick, vars
    <2>8. QED
      BY <1>2, <2>1, <2>2, <2>3, <2>4, <2>5, <2>6, <2>7 DEF Next
  <1>3. QED
    BY <1>1, <1>2, InvCorrect, PTL DEF Spec, ImplementsCustody, C!Spec
=============================================================================
