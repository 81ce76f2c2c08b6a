--------------------------- MODULE DispatchProofs ---------------------------
(***************************************************************************)
(* What Dispatch guarantees for any number of orders, riders and requests  *)
(* in flight.  Each theorem says which code behaviour it is about; the     *)
(* lemmas above it say what one step of each handler may do.               *)
(***************************************************************************)
EXTENDS Dispatch, Sums, TLAPS

-----------------------------------------------------------------------------
(* Types. *)

LEMMA InitType == Init => TypeOK
  BY DispatchConstants DEF Init, TypeOK, Idle, Status

(* The rider an automatic assignment picks is one of the riders, and is on *)
(* shift, not declined, not seen carrying.                                 *)
LEMMA CandidateIsEligible ==
  ASSUME NEW o \in Orders
  PROVE  Candidates(o) \subseteq Riders \ (decline_for(o) \cup txn[o].carrying)
  BY DEF Candidates, Nearest, eligible_riders, Declined

LEMMA OrderStepType ==
  ASSUME TypeOK, NEW o \in Orders, OrderStep(o)
  PROVE  TypeOK'
  <1> USE DispatchConstants
  <1>1. CASE StartPacking(o)
    BY <1>1 DEF StartPacking, Move, TypeOK, Status
  <1>2. CASE cancel_order(o)
    BY <1>2 DEF cancel_order, Move, TypeOK, Status
  <1>3. ASSUME NEW to \in {"Delivered", "Failed"}, ManagerCloses(o, to)
        PROVE  TypeOK'
    BY <1>3 DEF ManagerCloses, Move, TypeOK, Status
  <1>4. ASSUME NEW by \in Riders \cup {Null}, BeginReady(o, by)
        PROVE  TypeOK'
    <2>1. Carriers(o) \subseteq Riders
      BY DEF Carriers, TypeOK
    <2>2. [by |-> by, carrying |-> Carriers(o), live |-> TRUE]
            \in [by : Riders \cup {Null}, carrying : SUBSET Riders, live : BOOLEAN]
      BY <2>1
    <2>3. QED
      BY <1>4, <2>2 DEF BeginReady, TypeOK
  <1>5. CASE CommitReady(o)
    <2>1. decline_for(o) \in SUBSET Riders
      BY DEF decline_for, TypeOK
    <2>2. rejected' \in [Orders -> SUBSET Riders]
      BY <1>5, <2>1 DEF CommitReady, TypeOK
    <2>3. /\ status' \in [Orders -> Status]
          /\ boy' \in [Orders -> Riders \cup {Null}]
      <3>1. CASE /\ status' = [status EXCEPT ![o] = "Ready"]
                 /\ boy' = [boy EXCEPT ![o] = Null]
        BY <3>1 DEF TypeOK, Status
      <3>2. ASSUME NEW r \in Candidates(o),
                   status' = [status EXCEPT ![o] = "Dispatched"],
                   boy' = [boy EXCEPT ![o] = r]
            PROVE  /\ status' \in [Orders -> Status]
                   /\ boy' \in [Orders -> Riders \cup {Null}]
        <4>1. r \in Riders
          BY CandidateIsEligible
        <4>2. QED
          BY <4>1, <3>2 DEF TypeOK, Status
      <3>3. QED
        BY <1>5, <3>1, <3>2 DEF CommitReady
    <2>4. QED
      BY <1>5, <2>2, <2>3 DEF CommitReady, TypeOK, Idle
  <1>6. CASE Rollback(o)
    BY <1>6 DEF Rollback, TypeOK, Idle
  <1>7. QED
    BY <1>1, <1>2, <1>3, <1>4, <1>5, <1>6 DEF OrderStep

LEMMA RiderStepType ==
  ASSUME TypeOK, NEW r \in Riders, NEW o \in Orders, RiderStep(r, o)
  PROVE  TypeOK'
  <1>1. CASE Accept(r, o)
    BY <1>1 DEF Accept, TypeOK, Status
  <1>2. ASSUME NEW to \in {"Delivered", "Failed"}, RiderCloses(r, o, to)
        PROVE  TypeOK'
    BY <1>2 DEF RiderCloses, Move, TypeOK, Status
  <1>3. CASE Assign(o, r)
    BY <1>3 DEF Assign, Answer, TypeOK, Status
  <1>4. CASE RejectCheck(o, r)
    <2>1. Request("reject", r, o) \in Requests
      BY DEF Request, Requests
    <2>2. QED
      BY <1>4, <2>1 DEF RejectCheck, Check, TypeOK
  <1>5. CASE Reject(o, r)
    BY <1>5 DEF Reject, Answer, TypeOK
  <1>6. QED
    BY <1>1, <1>2, <1>3, <1>4, <1>5 DEF RiderStep

LEMMA RosterStepType ==
  ASSUME TypeOK, NEW r \in Riders, RosterStep(r)
  PROVE  TypeOK'
  <1>0. /\ Request("assign", r, Null) \in Requests
        /\ Request("delete", r, Null) \in Requests
    BY DEF Request, Requests
  <1>1. CASE SetAvailable(r)
    BY <1>1 DEF SetAvailable, TypeOK
  <1>2. CASE SetActive(r)
    BY <1>2 DEF SetActive, TypeOK
  <1>3. CASE get_rider(r)
    BY <1>3, <1>0 DEF get_rider, Check, TypeOK
  <1>4. CASE Deactivate(r)
    BY <1>4 DEF Deactivate, TypeOK
  <1>5. CASE DeleteCheck(r)
    BY <1>5, <1>0 DEF DeleteCheck, Check, TypeOK
  <1>6. CASE Delete(r)
    BY <1>6 DEF Delete, Answer, TypeOK
  <1>7. QED
    BY <1>1, <1>2, <1>3, <1>4, <1>5, <1>6 DEF RosterStep

(* Every reachable state is well typed: in particular the rider on an      *)
(* order, and every rider remembered by a transaction or a request, is a   *)
(* rider.                                                                  *)
THEOREM TypeCorrect == Spec => []TypeOK
  <1>1. TypeOK /\ [Next]_vars => TypeOK'
    <2> SUFFICES ASSUME TypeOK, [Next]_vars PROVE TypeOK'
      OBVIOUS
    <2>1. CASE Next
      BY <2>1, OrderStepType, RiderStepType, RosterStepType DEF Next
    <2>2. CASE UNCHANGED vars
      BY <2>2 DEF vars, TypeOK
    <2>3. QED
      BY <2>1, <2>2
  <1>2. QED
    BY InitType, <1>1, PTL DEF Spec

-----------------------------------------------------------------------------
(* One order's view of a step.                                             *)

(* A transaction holds the row only of an order that can still be moved to *)
(* Ready: it checked that under the lock, and nobody else writes the row   *)
(* until it ends.                                                          *)
LockedCanMove == \A o \in Orders : txn[o].live => CanAdvance(status[o], "Ready")

Stays(x)    == status'[x] = status[x] /\ boy'[x] = boy[x]
Walks(x)    == /\ CanMove(status[x], status'[x])
               /\ status'[x] \in {"Packing", "Cancelled", "Delivered", "Failed"}
               /\ boy'[x] = boy[x]
GoesOut(x)  == /\ status[x] \notin TERMINAL
               /\ status'[x] = "Dispatched"
               /\ boy'[x] \in Riders
ComesBack(x) == /\ CanAdvance(status[x], "Ready")
                /\ status'[x] = "Ready"
                /\ boy'[x] = Null
LosesRider(x) == /\ \E r \in Riders : Delete(r)
                 /\ status'[x] = status[x]
                 /\ boy'[x] = Null

OneOrder(x) == Stays(x) \/ Walks(x) \/ GoesOut(x) \/ ComesBack(x) \/ LosesRider(x)

LEMMA MoveWalks ==
  ASSUME TypeOK, NEW o \in Orders, NEW x \in Orders,
         NEW to \in {"Packing", "Cancelled", "Delivered", "Failed"},
         Move(o, to), UNCHANGED boy
  PROVE  Stays(x) \/ Walks(x)
  BY DEF Move, Stays, Walks, TypeOK

LEMMA CommitOneOrder ==
  ASSUME TypeOK, LockedCanMove, NEW o \in Orders, NEW x \in Orders, CommitReady(o)
  PROVE  Stays(x) \/ GoesOut(x) \/ ComesBack(x)
  <1>1. CASE x # o
    BY <1>1 DEF CommitReady, Stays, TypeOK
  <1>2. CASE x = o
    <2>1. CanAdvance(status[o], "Ready")
      BY DEF CommitReady, LockedCanMove
    <2>2. status[o] \notin TERMINAL
      BY <2>1 DEF CanAdvance, CanMove, TRANSITIONS, TERMINAL
    <2>3. CASE /\ status' = [status EXCEPT ![o] = "Ready"]
               /\ boy' = [boy EXCEPT ![o] = Null]
      BY <1>2, <2>1, <2>3 DEF ComesBack, TypeOK
    <2>4. ASSUME NEW r \in Candidates(o),
                 status' = [status EXCEPT ![o] = "Dispatched"],
                 boy' = [boy EXCEPT ![o] = r]
          PROVE  GoesOut(x)
      BY <1>2, <2>2, <2>4, CandidateIsEligible DEF GoesOut, TypeOK
    <2>5. QED
      BY <2>3, <2>4 DEF CommitReady
  <1>3. QED
    BY <1>1, <1>2

(* Whatever the step, each order stays, walks one legal move, goes out     *)
(* with a rider, comes back without one, or loses a deleted rider.         *)
LEMMA StepOneOrder ==
  ASSUME TypeOK, LockedCanMove, [Next]_vars, NEW x \in Orders
  PROVE  OneOrder(x)
  <1>1. ASSUME NEW o \in Orders, OrderStep(o) PROVE OneOrder(x)
    <2>1. CASE StartPacking(o)
      BY <2>1, MoveWalks DEF StartPacking, OneOrder
    <2>2. CASE cancel_order(o)
      BY <2>2, MoveWalks DEF cancel_order, OneOrder
    <2>3. ASSUME NEW to \in {"Delivered", "Failed"}, ManagerCloses(o, to)
          PROVE  OneOrder(x)
      BY <2>3, MoveWalks DEF ManagerCloses, OneOrder
    <2>4. ASSUME NEW by \in Riders \cup {Null}, BeginReady(o, by)
          PROVE  OneOrder(x)
      BY <2>4 DEF BeginReady, OneOrder, Stays
    <2>5. CASE CommitReady(o)
      BY <2>5, CommitOneOrder DEF OneOrder
    <2>6. CASE Rollback(o)
      BY <2>6 DEF Rollback, OneOrder, Stays
    <2>7. QED
      BY <1>1, <2>1, <2>2, <2>3, <2>4, <2>5, <2>6 DEF OrderStep
  <1>2. ASSUME NEW r \in Riders, NEW o \in Orders, RiderStep(r, o)
        PROVE  OneOrder(x)
    <2>1. CASE Accept(r, o)
      BY <2>1 DEF Accept, OneOrder, Stays, GoesOut, TERMINAL, TypeOK
    <2>2. ASSUME NEW to \in {"Delivered", "Failed"}, RiderCloses(r, o, to)
          PROVE  OneOrder(x)
      BY <2>2, MoveWalks DEF RiderCloses, OneOrder
    <2>3. CASE Assign(o, r)
      BY <2>3 DEF Assign, OneOrder, Stays, GoesOut, TypeOK
    <2>4. CASE RejectCheck(o, r)
      BY <2>4 DEF RejectCheck, OneOrder, Stays
    <2>5. CASE Reject(o, r)
      BY <2>5 DEF Reject, OneOrder, Stays
    <2>6. QED
      BY <1>2, <2>1, <2>2, <2>3, <2>4, <2>5 DEF RiderStep
  <1>3. ASSUME NEW r \in Riders, RosterStep(r)
        PROVE  OneOrder(x)
    <2>1. CASE Delete(r)
      <3>1. boy'[x] = (IF boy[x] = r THEN Null ELSE boy[x]) /\ status'[x] = status[x]
        BY <2>1 DEF Delete
      <3>2. QED
        BY <2>1, <3>1 DEF OneOrder, Stays, LosesRider
    <2>2. CASE ~Delete(r)
      BY <1>3, <2>2
         DEF RosterStep, SetAvailable, SetActive, get_rider, Deactivate,
             DeleteCheck, OneOrder, Stays
    <2>3. QED
      BY <2>1, <2>2
  <1>4. CASE UNCHANGED vars
    BY <1>4 DEF vars, OneOrder, Stays
  <1>5. QED
    BY <1>1, <1>2, <1>3, <1>4 DEF Next

-----------------------------------------------------------------------------
(* The row locks. *)

LEMMA LockedCanMoveStep ==
  ASSUME TypeOK, LockedCanMove, [Next]_vars
  PROVE  LockedCanMove'
  <1> SUFFICES ASSUME NEW x \in Orders, txn'[x].live
               PROVE  CanAdvance(status'[x], "Ready")
    BY DEF LockedCanMove
  <1> USE DEF LockedCanMove
  <1>1. ASSUME NEW o \in Orders, OrderStep(o)
        PROVE  CanAdvance(status'[x], "Ready")
    <2>1. CASE StartPacking(o)
      BY <2>1 DEF StartPacking, Move, Unlocked, TypeOK
    <2>2. CASE cancel_order(o)
      BY <2>2 DEF cancel_order, Move, Unlocked, TypeOK
    <2>3. ASSUME NEW to \in {"Delivered", "Failed"}, ManagerCloses(o, to)
          PROVE  CanAdvance(status'[x], "Ready")
      BY <2>3 DEF ManagerCloses, Move, Unlocked, TypeOK
    <2>4. ASSUME NEW by \in Riders \cup {Null}, BeginReady(o, by)
          PROVE  CanAdvance(status'[x], "Ready")
      BY <2>4 DEF BeginReady, TypeOK
    <2>5. CASE CommitReady(o)
      BY <2>5 DEF CommitReady, Idle, TypeOK
    <2>6. CASE Rollback(o)
      BY <2>6 DEF Rollback, Idle, TypeOK
    <2>7. QED
      BY <1>1, <2>1, <2>2, <2>3, <2>4, <2>5, <2>6 DEF OrderStep
  <1>2. ASSUME NEW r \in Riders, NEW o \in Orders, RiderStep(r, o)
        PROVE  CanAdvance(status'[x], "Ready")
    <2>1. CASE Accept(r, o)
      BY <2>1 DEF Accept, Unlocked, TypeOK
    <2>2. ASSUME NEW to \in {"Delivered", "Failed"}, RiderCloses(r, o, to)
          PROVE  CanAdvance(status'[x], "Ready")
      BY <2>2 DEF RiderCloses, Move, Unlocked, TypeOK
    <2>3. CASE Assign(o, r)
      BY <2>3 DEF Assign, Unlocked, TypeOK
    <2>4. CASE RejectCheck(o, r) \/ Reject(o, r)
      BY <2>4 DEF RejectCheck, Reject
    <2>5. QED
      BY <1>2, <2>1, <2>2, <2>3, <2>4 DEF RiderStep
  <1>3. ASSUME NEW r \in Riders, RosterStep(r)
        PROVE  CanAdvance(status'[x], "Ready")
    BY <1>3 DEF RosterStep, SetAvailable, SetActive, get_rider, Deactivate,
                DeleteCheck, Delete
  <1>4. CASE UNCHANGED vars
    BY <1>4 DEF vars
  <1>5. QED
    BY <1>1, <1>2, <1>3, <1>4 DEF Next

LEMMA LockedCanMoveCorrect == Spec => []LockedCanMove
  <1>1. Init => LockedCanMove
    BY DEF Init, LockedCanMove, Idle
  <1>2. QED
    BY <1>1, TypeCorrect, LockedCanMoveStep, PTL DEF Spec

-----------------------------------------------------------------------------
(* Riders and the state of their orders. *)

(* An order in the store, or cancelled from it, has no rider on record.    *)
(* The walk to Packing and to Cancelled starts in the store, and the only  *)
(* ways back into the store clear the column.                              *)
THEOREM StoreHasNoRider == Spec => []NoRiderInStore
  <1>1. Init => NoRiderInStore
    BY DEF Init, NoRiderInStore
  <1>2. ASSUME TypeOK, LockedCanMove, NoRiderInStore, [Next]_vars
        PROVE  NoRiderInStore'
    <2> SUFFICES ASSUME NEW x \in Orders,
                        status'[x] \in {"Placed", "Packing", "Ready", "Cancelled"}
                 PROVE  boy'[x] = Null
      BY DEF NoRiderInStore
    <2>1. OneOrder(x)
      BY <1>2, StepOneOrder
    <2>2. CASE Walks(x)
      BY <1>2, <2>2 DEF Walks, CanMove, TRANSITIONS, NoRiderInStore
    <2>3. CASE ~Walks(x)
      BY <1>2, <2>1, <2>3
         DEF OneOrder, Stays, GoesOut, ComesBack, LosesRider, NoRiderInStore
    <2>4. QED
      BY <2>2, <2>3
  <1>3. QED
    BY <1>1, <1>2, TypeCorrect, LockedCanMoveCorrect, PTL DEF Spec

(* A deleted row stays deleted, and nothing but a deletion takes the rider *)
(* off an order.                                                           *)
LEMMA ErasedStays ==
  ASSUME TypeOK, [Next]_vars, Erased
  PROVE  Erased'
  <1> PICK q \in Riders : account[q] = "deleted"
    BY DEF Erased
  <1> SUFFICES account'[q] = "deleted"
    BY DEF Erased
  <1>1. ASSUME NEW o \in Orders, OrderStep(o) PROVE account' = account
    BY <1>1 DEF OrderStep, StartPacking, cancel_order, ManagerCloses, BeginReady,
                CommitReady, Rollback
  <1>2. ASSUME NEW r \in Riders, NEW o \in Orders, RiderStep(r, o)
        PROVE  account' = account
    BY <1>2 DEF RiderStep, Accept, RiderCloses, Assign, RejectCheck, Reject
  <1>3. ASSUME NEW r \in Riders, RosterStep(r)
        PROVE  account'[q] = "deleted"
    BY <1>3 DEF RosterStep, SetAvailable, SetActive, get_rider, Deactivate,
                DeleteCheck, Delete, SignedIn, TypeOK
  <1>4. QED
    BY <1>1, <1>2, <1>3 DEF Next, vars

LEMMA OnlyDeletesLose ==
  ASSUME TypeOK, NEW x \in Orders, LosesRider(x)
  PROVE  Erased'
  BY DEF LosesRider, Delete, Erased, TypeOK

(* Until a rider is deleted outright, an order out for delivery, delivered *)
(* or failed has its rider on record: every route to Dispatched sets the   *)
(* column in the same commit, and closing an order keeps it.               *)
THEOREM RiderAlwaysOnRecord == Spec => []RiderOnRecord
  <1>1. Init => RiderOnRecord
    BY DEF Init, RiderOnRecord
  <1>2. ASSUME TypeOK, LockedCanMove, RiderOnRecord, [Next]_vars
        PROVE  RiderOnRecord'
    <2> SUFFICES ASSUME ~Erased', NEW x \in Orders,
                        status'[x] \in {"Dispatched", "Delivered", "Failed"}
                 PROVE  boy'[x] # Null
      BY DEF RiderOnRecord
    <2>1. OneOrder(x) /\ ~LosesRider(x)
      BY <1>2, StepOneOrder, OnlyDeletesLose
    <2>2. status[x] \in {"Dispatched", "Delivered", "Failed"} => boy[x] # Null
      BY <1>2, ErasedStays DEF RiderOnRecord
    <2>3. CASE Walks(x)
      BY <2>2, <2>3 DEF Walks, CanMove, TRANSITIONS
    <2>4. CASE ~Walks(x)
      BY <2>1, <2>2, <2>4, DispatchConstants DEF OneOrder, Stays, GoesOut, ComesBack
    <2>5. QED
      BY <2>3, <2>4
  <1>3. QED
    BY <1>1, <1>2, TypeCorrect, LockedCanMoveCorrect, PTL DEF Spec

-----------------------------------------------------------------------------
(* Declines. *)

(* Only the commit of o's own dispatch transaction ends it with a change.  *)
LEMMA CommittedCommits ==
  ASSUME TypeOK, [Next]_vars, NEW x \in Orders, Committed(x)
  PROVE  CommitReady(x)
  <1>1. txn[x].live /\ ~txn'[x].live
    BY DEF Committed
  <1>2. ASSUME NEW o \in Orders, OrderStep(o) PROVE CommitReady(x)
    <2>1. (\E by \in Riders \cup {Null} : BeginReady(o, by))
            \/ CommitReady(o) \/ Rollback(o)
      BY <1>1, <1>2 DEF OrderStep, StartPacking, cancel_order, ManagerCloses
    <2>2. o = x
      BY <1>1, <2>1 DEF BeginReady, CommitReady, Rollback, TypeOK
    <2>3. (\A by \in Riders \cup {Null} : ~BeginReady(x, by)) /\ ~Rollback(x)
      BY DEF Committed, BeginReady, Rollback, TypeOK
    <2> QED
      BY <2>1, <2>2, <2>3
  <1>3. ASSUME NEW r \in Riders, NEW o \in Orders, RiderStep(r, o)
        PROVE  UNCHANGED txn
    BY <1>3 DEF RiderStep, Accept, RiderCloses, Assign, RejectCheck, Reject
  <1>4. ASSUME NEW r \in Riders, RosterStep(r)
        PROVE  UNCHANGED txn
    BY <1>4 DEF RosterStep, SetAvailable, SetActive, get_rider, Deactivate,
                DeleteCheck, Delete
  <1> QED
    BY <1>1, <1>2, <1>3, <1>4 DEF Next, vars

(* Automatic assignment honours every decline on record and the hand-back  *)
(* of its own transaction, and declines stay on record.                    *)
THEOREM DeclinesAreHonoured == Spec => DeclineHonoured
  <1>1. ASSUME TypeOK, [Next]_vars, NEW x \in Orders, AutoAssigned(x)
        PROVE  boy'[x] \notin rejected[x] \cup {txn[x].by}
    <2>1. CommitReady(x)
      BY <1>1, CommittedCommits DEF AutoAssigned
    <2>2. boy'[x] \in Candidates(x)
      BY <1>1, <2>1 DEF CommitReady, AutoAssigned, TypeOK
    <2>3. boy'[x] \in Riders /\ boy'[x] \notin decline_for(x)
      BY <2>2, CandidateIsEligible
    <2>4. QED
      BY <2>3, DispatchConstants DEF decline_for
  <1>2. ASSUME TypeOK, [Next]_vars, NEW x \in Orders, NEW q \in rejected[x]
        PROVE  q \in rejected'[x] \/ account'[q] = "deleted"
    <2>1. ASSUME NEW o \in Orders, OrderStep(o) PROVE q \in rejected'[x]
      BY <1>2, <2>1 DEF OrderStep, StartPacking, cancel_order, ManagerCloses,
                        BeginReady, CommitReady, Rollback, decline_for, TypeOK
    <2>2. ASSUME NEW r \in Riders, NEW o \in Orders, RiderStep(r, o)
          PROVE  q \in rejected'[x]
      BY <1>2, <2>2 DEF RiderStep, Accept, RiderCloses, Assign, RejectCheck, Reject,
                        TypeOK
    <2>3. ASSUME NEW r \in Riders, RosterStep(r)
          PROVE  q \in rejected'[x] \/ account'[q] = "deleted"
      BY <1>2, <2>3 DEF RosterStep, SetAvailable, SetActive, get_rider, Deactivate,
                        DeleteCheck, Delete, TypeOK
    <2>4. CASE UNCHANGED vars
      BY <1>2, <2>4 DEF vars
    <2>5. QED
      BY <1>2, <2>1, <2>2, <2>3, <2>4 DEF Next
  <1>3. ASSUME TypeOK, [Next]_vars
        PROVE  [\A o \in Orders :
                  /\ AutoAssigned(o) => boy'[o] \notin rejected[o] \cup {txn[o].by}
                  /\ \A r \in rejected[o] : r \in rejected'[o] \/ account'[r] = "deleted"]_vars
    BY <1>1, <1>2, <1>3
  <1>4. QED
    BY <1>3, TypeCorrect, PTL DEF Spec, DeclineHonoured

-----------------------------------------------------------------------------
(* The choice. *)

(* What rounding keeps of an order of distances. *)
LEMMA RoundedWithin ==
  ASSUME NEW a \in Nat, NEW b \in Nat
  PROVE  /\ Rounded(a) \in Int
         /\ Rounded(a) <= Rounded(b) => a <= b + Grain
  <1>1. Grain \in Nat /\ 2 * Grain \in Nat \ {0}
    BY DispatchConstants
  <1>2. \A n \in Int, k \in Nat \ {0} :
          n \div k \in Int /\ (n \div k) * k <= n /\ n < (n \div k) * k + k
    OBVIOUS
  <1> DEFINE k == 2 * Grain
             x == (2 * a + Grain) \div k
             y == (2 * b + Grain) \div k
  <1>3. /\ x \in Int /\ 2 * a + Grain < x * k + k
        /\ y \in Int /\ y * k <= 2 * b + Grain
    <2>1. k \in Nat \ {0} /\ 2 * a + Grain \in Int /\ 2 * b + Grain \in Int
      BY <1>1
    <2> HIDE DEF k
    <2> QED
      BY <1>2, <2>1
  <1>4. Rounded(a) = x /\ Rounded(b) = y
    BY DEF Rounded
  <1>5. k \in Nat /\ k = Grain + Grain
    BY <1>1
  <1> HIDE DEF k, x, y
  <1>6. ASSUME x <= y PROVE a <= b + Grain
    <2>1. x * k <= y * k
      BY <1>3, <1>5, <1>6
    <2>2. x * k \in Int /\ y * k \in Int
      BY <1>3, <1>5
    <2> QED
      BY <1>1, <1>3, <1>5, <2>1, <2>2
  <1> QED
    BY <1>3, <1>4, <1>6

(* `_rank` puts one rider at the head: of any riders there is exactly one  *)
(* that nobody comes before, by rounded distance and then by key, so two   *)
(* workers that read the same rows choose the same rider; nobody is nearer *)
(* than he by more than the rounding.                                      *)
THEOREM NearestIsOne ==
  ASSUME NEW o \in Orders, NEW S \in SUBSET Riders, S # {}
  PROVE  \E r \in S : /\ Nearest(o, S) = {r}
                      /\ o \in Located =>
                           \A q \in S : Distance[o][r] <= Distance[o][q] + Grain
  <1> USE DispatchConstants
  <1>1. CASE o \notin Located
    <2>1. PICK r \in S : \A q \in S : r <= q
      BY LeastOf
    <2>2. \A q \in S : q \in Nat /\ (q # r => r < q)
      BY <2>1
    <2>3. \A q \in S : ~Before(o, q, r) /\ (q # r => Before(o, r, q))
      BY <1>1, <2>2 DEF Before
    <2>4. Nearest(o, S) = {r}
      BY <2>3, Zenon DEF Nearest
    <2> QED
      BY <1>1, <2>4
  <1>2. CASE o \in Located
    <2> DEFINE d(q) == Rounded(Distance[o][q])
               far == {d(q) : q \in S}
    <2>0. ASSUME NEW q \in S PROVE q \in Nat /\ Distance[o][q] \in Nat /\ d(q) \in Nat
      <3>1. q \in Riders
        OBVIOUS
      <3>2. q \in Nat /\ Distance[o][q] \in Nat
        BY <3>1
      <3>3. 2 * Distance[o][q] + Grain \in Nat /\ 2 * Grain \in Nat \ {0}
        BY <3>2
      <3>4. \A n \in Nat, k \in Nat \ {0} : n \div k \in Nat
        OBVIOUS
      <3> QED
        BY <3>2, <3>3, <3>4, Zenon DEF Rounded
    <2> HIDE DEF d
    <2>1. PICK e \in far : \A f \in far : e <= f
      <3>1. far \in SUBSET Nat
        BY <2>0
      <3>2. far # {}
        <4>1. PICK q \in S : TRUE
          OBVIOUS
        <4>2. d(q) \in far
          OBVIOUS
        <4> QED
          BY <4>2
      <3> HIDE DEF far
      <3> QED
        BY <3>1, <3>2, LeastOf
    <2> DEFINE close == {q \in S : d(q) = e}
    <2>2. PICK r \in close : \A q \in close : r <= q
      <3>1. close \in SUBSET Nat /\ close # {}
        BY <2>0, <2>1
      <3> HIDE DEF close
      <3> QED
        BY <3>1, LeastOf
    <2>3. r \in S /\ r \in Nat /\ e \in Nat /\ d(r) = e
      BY <2>0, <2>1
    <2>4. ASSUME NEW q \in S
          PROVE  e <= d(q) /\ (d(q) = e => r <= q)
      <3>1. d(q) \in far /\ (d(q) = e => q \in close)
        OBVIOUS
      <3> HIDE DEF far, close
      <3> QED
        BY <2>1, <2>2, <3>1
    <2> HIDE DEF far, close
    <2>5. \A q \in S : ~Before(o, q, r) /\ (q # r => Before(o, r, q))
      <3> SUFFICES ASSUME NEW q \in S
                   PROVE  ~Before(o, q, r) /\ (q # r => Before(o, r, q))
        OBVIOUS
      <3>1. /\ Before(o, q, r) <=> (d(q) < d(r) \/ (d(q) = d(r) /\ q < r))
            /\ Before(o, r, q) <=> (d(r) < d(q) \/ (d(r) = d(q) /\ r < q))
        BY <1>2, Zenon DEF Before, d
      <3> QED
        BY <2>0, <2>3, <2>4, <3>1
    <2>6. Nearest(o, S) = {r}
      BY <2>3, <2>5, Zenon DEF Nearest
    <2>7. \A q \in S : Distance[o][r] <= Distance[o][q] + Grain
      BY <2>0, <2>3, <2>4, RoundedWithin DEF d
    <2> QED
      BY <2>3, <2>6, <2>7
  <1> QED
    BY <1>1, <1>2

(* No dispatch passes over a rider who could take the order, for any       *)
(* roster, distances and radii.                                            *)
THEOREM NobodyPassedOver == Spec => NobodyIsPassedOver
  <1>1. ASSUME TypeOK, [Next]_vars, AUTO_ASSIGN_RIDER, NEW o \in Orders, Committed(o)
        PROVE  IF status'[o] = "Dispatched"
               THEN /\ boy'[o] \in FreeFor(o)
                    /\ o \in Located =>
                         \A r \in FreeFor(o) : Distance[o][boy'[o]] <= Distance[o][r] + Grain
               ELSE FreeFor(o) = {}
    <2>1. CommitReady(o)
      BY <1>1, CommittedCommits
    <2>2. rejected'[o] = decline_for(o)
      BY <1>1, <2>1 DEF CommitReady, TypeOK
    <2> DEFINE free == eligible_riders(o, txn[o].carrying, Declined(o))
    <2>3. free = FreeFor(o)
      BY <2>2 DEF eligible_riders, Declined, FreeFor
    <2>4. Candidates(o) = Nearest(o, free) /\ free \in SUBSET Riders
      BY <1>1 DEF Candidates, eligible_riders
    <2> HIDE DEF free
    <2>5. CASE Candidates(o) = {}
      <3>1. ASSUME free # {} PROVE FALSE
        <4>1. \E r \in free : Nearest(o, free) = {r}
          BY <2>4, <3>1, NearestIsOne
        <4> QED
          BY <2>4, <2>5, <4>1
      <3>2. status'[o] = "Ready"
        BY <1>1, <2>1, <2>5 DEF CommitReady, TypeOK
      <3> QED
        BY <2>3, <3>1, <3>2
    <2>6. CASE Candidates(o) # {}
      <3>1. PICK r \in free : /\ Nearest(o, free) = {r}
                              /\ o \in Located =>
                                   \A q \in free : Distance[o][r] <= Distance[o][q] + Grain
        <4>1. free # {}
          BY <2>4, <2>6 DEF Nearest
        <4> QED
          BY <2>4, <4>1, NearestIsOne
      <3>2. status'[o] = "Dispatched" /\ boy'[o] = r
        BY <1>1, <2>1, <2>4, <2>6, <3>1 DEF CommitReady, TypeOK
      <3> QED
        BY <2>3, <3>1, <3>2
    <2> QED
      BY <2>5, <2>6
  <1>2. ASSUME TypeOK, [Next]_vars
        PROVE  [AUTO_ASSIGN_RIDER => \A o \in Orders : Committed(o) =>
                  IF status'[o] = "Dispatched"
                  THEN /\ boy'[o] \in FreeFor(o)
                       /\ o \in Located =>
                            \A r \in FreeFor(o) : Distance[o][boy'[o]] <= Distance[o][r] + Grain
                  ELSE FreeFor(o) = {}]_vars
    BY <1>1, <1>2
  <1> QED
    BY <1>2, TypeCorrect, PTL DEF Spec, NobodyIsPassedOver

-----------------------------------------------------------------------------
(* Refinement. *)

LEMMA InitImplementsCustody ==
  ASSUME Init, NEW x \in Orders
  PROVE  CustodyOf(x)!Init
  BY DEF Init, CustodyOf!Init, PlaceOf, CANCELLABLE

(* A step of the store is, for each order, one step of its custody or none. *)
LEMMA StepImplementsCustody ==
  ASSUME TypeOK, LockedCanMove, NoRiderInStore, [Next]_vars, ~Erased', NEW x \in Orders
  PROVE  [CustodyOf(x)!Next]_<<PlaceOf(x), boy[x]>>
  <1> USE DEF CustodyOf!Next, CustodyOf!HandOver, CustodyOf!Reassign,
              CustodyOf!GiveBack, CustodyOf!Finish, CustodyOf!Cancel,
              PlaceOf, CANCELLABLE
  <1>1. OneOrder(x) /\ ~LosesRider(x)
    BY StepOneOrder, OnlyDeletesLose
  <1>2. status[x] \in Status
    BY DEF TypeOK
  <1>3. CASE Stays(x)
    BY <1>3 DEF Stays
  <1>4. CASE Walks(x)
    BY <1>4 DEF Walks, CanMove, TRANSITIONS
  <1>5. CASE GoesOut(x)
    BY <1>2, <1>5 DEF GoesOut, TERMINAL, Status
  <1>6. CASE ComesBack(x)
    BY <1>6 DEF ComesBack, CanAdvance, CanMove, TRANSITIONS, NoRiderInStore
  <1>7. QED
    BY <1>1, <1>3, <1>4, <1>5, <1>6 DEF OneOrder

(* Until a rider is deleted outright, every order keeps the promise of     *)
(* Custody, whatever the interleaving of the handlers.                     *)
THEOREM DispatchImplementsCustody == Spec => ImplementsCustody
  <1>1. Init => \A o \in Orders : CustodyOf(o)!Init
    BY InitImplementsCustody
  <1>2. ASSUME TypeOK, LockedCanMove, NoRiderInStore, [Next]_vars
        PROVE  [Erased' \/ \A o \in Orders : [CustodyOf(o)!Next]_<<PlaceOf(o), boy[o]>>]_vars
    BY <1>2, StepImplementsCustody
  <1>3. QED
    BY <1>1, <1>2, TypeCorrect, LockedCanMoveCorrect, StoreHasNoRider,
       PTL DEF Spec, ImplementsCustody
=============================================================================
