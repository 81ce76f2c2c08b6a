--------------------------- MODULE HandsetsProofs ---------------------------
(***************************************************************************)
(* Proofs about what handsets send and are sent: first Location, then Push.*)
(*                                                                         *)
(* About Location, for every set of orders and riders and any number of    *)
(* requests in flight.  What a rider's report has read may be out of date  *)
(* when it is written, but it was true once, and `carried` remembers.      *)
(***************************************************************************)
EXTENDS Location, Push, SequenceTheorems, FiniteSetTheorems, TLAPS

(* An order that is out is with a rider, who has carried it. *)
OutWithSomebody ==
  \A o \in Orders : place[o] = "out" =>
    holder[o] \in Riders /\ <<o, holder[o]>> \in carried

(* What a request has read was so when it was read. *)
ReadsWereTrue ==
  \A q \in open :
    /\ q.kind = "rider report" =>
         /\ q.rider \in Riders
         /\ q.order # Null => <<q.order, q.rider>> \in carried
    /\ q.kind = "customer report" => q.order \in Orders

Inv == TypeOK /\ OutWithSomebody /\ ReadsWereTrue /\ TrailIsEarned

-----------------------------------------------------------------------------
LEMMA NullIsNoOrder == Null \notin Orders /\ Null \notin Riders
<1>1. \A o \in Orders : o \in Int
  BY LocationConstants
<1>2. QED
  BY <1>1, LocationConstants

LEMMA ActiveOrders ==
  ASSUME NEW r \in Riders, NEW x \in active_order_for(r)
  PROVE  x = Null \/ (x \in Orders /\ place[x] = "out" /\ holder[x] = r)
  BY DEF active_order_for, Latest

(* The steps of Custody, seen from here. *)
LEMMA CustodySteps ==
  ASSUME NEW o \in Orders, C(o)!Next, TypeOK
  PROVE  /\ place[o] \in {"store", "out"}
         /\ place'[o] = "out" => holder'[o] \in Riders
  BY DEF C!Next, C!HandOver, C!Reassign, C!GiveBack, C!Finish, C!Cancel, TypeOK

LEMMA InvInit == Init => Inv
<1> SUFFICES ASSUME Init PROVE Inv
  OBVIOUS
<1> USE DEF Init
<1>1. TypeOK
  BY LocationConstants DEF TypeOK
<1>2. OutWithSomebody /\ ReadsWereTrue /\ TrailIsEarned
  BY DEF OutWithSomebody, ReadsWereTrue, TrailIsEarned
<1>3. QED
  BY <1>1, <1>2 DEF Inv

LEMMA MoveKeepsInv ==
  ASSUME Inv, NEW o \in Orders, NEW p \in {"store", "out"} \cup Over,
         NEW h \in Riders \cup {Null}, MoveOrder(o, p, h)
  PROVE  Inv'
<1> USE DEF Inv, MoveOrder
<1>1. /\ place'[o] = p /\ holder'[o] = h
      /\ \A x \in Orders \ {o} : place'[x] = place[x] /\ holder'[x] = holder[x]
      /\ p = "out" => h \in Riders
  BY CustodySteps DEF TypeOK
<1>2. carried \subseteq carried' /\ (p = "out" => <<o, h>> \in carried')
  OBVIOUS
<1>3. TypeOK'
  BY <1>1 DEF TypeOK, LeftAtEnd
<1>4. OutWithSomebody'
  BY <1>1, <1>2 DEF OutWithSomebody
<1>5. ReadsWereTrue' /\ TrailIsEarned'
  BY <1>2 DEF ReadsWereTrue, TrailIsEarned
<1>6. QED
  BY <1>3, <1>4, <1>5

LEMMA OpenKeepsInv ==
  ASSUME Inv, NEW kind \in Kinds, NEW x \in Orders \cup {Null}, NEW r \in Riders \cup {Null},
         Open(kind, x, r),
         kind = "rider report" => r \in Riders /\ (x # Null => <<x, r>> \in carried),
         kind = "customer report" => x \in Orders
  PROVE  Inv'
<1> USE DEF Inv, Open, orders
<1>1. [kind |-> kind, order |-> x, rider |-> r] \in Requests
  BY DEF Requests
<1>2. TypeOK'
  BY <1>1 DEF TypeOK
<1>3. OutWithSomebody' /\ TrailIsEarned'
  BY DEF OutWithSomebody, TrailIsEarned
<1>4. ReadsWereTrue'
  <2> SUFFICES ASSUME NEW q \in open'
               PROVE  /\ q.kind = "rider report" =>
                           /\ q.rider \in Riders
                           /\ q.order # Null => <<q.order, q.rider>> \in carried
                      /\ q.kind = "customer report" => q.order \in Orders
    BY DEF ReadsWereTrue
  <2>1. CASE q \in open
    BY <2>1 DEF ReadsWereTrue
  <2>2. CASE q = [kind |-> kind, order |-> x, rider |-> r]
    BY <2>2
  <2>3. QED
    BY <2>1, <2>2
<1>5. QED
  BY <1>2, <1>3, <1>4

LEMMA AnswerKeepsInv ==
  ASSUME Inv, NEW q \in open, Answer(q)
  PROVE  Inv'
<1> USE DEF Inv, Close, orders
<1>1. q \in Requests /\ now \in 0 .. MaxTime
  BY DEF TypeOK
<1>2. OutWithSomebody' /\ ReadsWereTrue'
  BY DEF OutWithSomebody, ReadsWereTrue, Answer, record_rider_position,
         record_customer_position, rider_position_for_tracking, End
<1>3. CASE record_rider_position(q)
  <2> USE <1>3 DEF record_rider_position
  <2>1. q.rider \in Riders /\ q.order \in Orders \cup {Null}
        /\ (q.order # Null => <<q.order, q.rider>> \in carried)
    BY <1>1 DEF ReadsWereTrue, Requests
  <2> DEFINE row == [order |-> q.order, received |-> now]
             ping == [order |-> q.order, rider |-> q.rider, received |-> now]
  <2>2. row \in Rows /\ (q.order # Null => ping \in Pings)
    BY <1>1, <2>1 DEF Rows, Pings
  <2>3. TypeOK'
    BY <2>1, <2>2 DEF TypeOK
  <2>4. \A p \in pings' : p \in pings \/ (q.order # Null /\ p = ping)
    OBVIOUS
  <2>5. \A r \in Riders : location'[r] = location[r] \/ (r = q.rider /\ location'[r] = row)
    BY <2>1 DEF TypeOK
  <2>6. TrailIsEarned'
    <3>0. carried' = carried
      OBVIOUS
    <3>1. ASSUME NEW p \in pings' PROVE <<p.order, p.rider>> \in carried'
      <4>1. CASE p \in pings
        BY <3>0, <4>1 DEF TrailIsEarned
      <4>2. CASE q.order # Null /\ p = ping
        <5>1. p.order = q.order /\ p.rider = q.rider
          BY <4>2
        <5>2. QED
          BY <2>1, <3>0, <4>2, <5>1
      <4>3. QED
        BY <2>4, <4>1, <4>2
    <3>2. ASSUME NEW r \in Riders, location'[r] # Null, location'[r].order # Null
          PROVE  <<location'[r].order, r>> \in carried'
      <4>1. CASE location'[r] = location[r]
        BY <3>0, <3>2, <4>1 DEF TrailIsEarned
      <4>2. CASE r = q.rider /\ location'[r] = row
        <5> HIDE DEF row, record_rider_position
        <5>1. location'[r].order = row.order
          BY <4>2
        <5>2. row.order = q.order
          BY DEF row
        <5>3. QED
          BY <2>1, <3>0, <3>2, <4>2, <5>1, <5>2
      <4>3. QED
        BY <2>5, <4>1, <4>2
    <3>3. QED
      BY <3>1, <3>2 DEF TrailIsEarned
  <2>7. QED
    BY <1>2, <2>3, <2>6
<1>4. CASE record_customer_position(q)
  <2>1. q.order \in Orders
    BY <1>4 DEF record_customer_position, ReadsWereTrue
  <2>2. TypeOK' /\ TrailIsEarned'
    BY <1>1, <1>4, <2>1 DEF record_customer_position, TypeOK, TrailIsEarned
  <2>3. QED
    BY <1>2, <2>2
<1>5. CASE rider_position_for_tracking(q) \/ End(q)
  <2>1. TypeOK' /\ TrailIsEarned'
    BY <1>5 DEF rider_position_for_tracking, End, TypeOK, TrailIsEarned
  <2>2. QED
    BY <1>2, <2>1
<1>6. QED
  BY <1>3, <1>4, <1>5 DEF Answer

LEMMA InvStep == Inv /\ [Next]_vars => Inv'
<1> SUFFICES ASSUME Inv, [Next]_vars PROVE Inv'
  OBVIOUS
<1>1. ASSUME NEW o \in Orders, NEW p \in {"store", "out"} \cup Over,
             NEW h \in Riders \cup {Null}, MoveOrder(o, p, h)
      PROVE  Inv'
  BY <1>1, MoveKeepsInv
<1>2. ASSUME NEW r \in Riders, ReadReport(r) PROVE Inv'
  <2>1. PICK x \in active_order_for(r) : Open("rider report", x, r)
    BY <1>2 DEF ReadReport
  <2>2. x \in Orders \cup {Null} /\ (x # Null => <<x, r>> \in carried)
    BY <2>1, ActiveOrders DEF Inv, OutWithSomebody
  <2>3. QED
    BY <2>1, <2>2, OpenKeepsInv DEF Kinds
<1>3. ASSUME NEW o \in Orders, CheckOrder(o) PROVE Inv'
  BY <1>3, OpenKeepsInv DEF CheckOrder, Kinds
<1>4. ASSUME NEW o \in Orders, ReadTracked(o) PROVE Inv'
  <2>1. holder[o] \in Riders
    BY <1>4 DEF ReadTracked, Inv, OutWithSomebody
  <2>2. QED
    BY <1>4, <2>1, OpenKeepsInv DEF ReadTracked, Kinds
<1>5. ASSUME NEW q \in open, Answer(q) PROVE Inv'
  BY <1>5, AnswerKeepsInv
<1>6. CASE prune
  <2> USE <1>6 DEF prune, orders, Inv
  <2>1. TypeOK'
    BY DEF TypeOK
  <2>2. OutWithSomebody' /\ ReadsWereTrue' /\ TrailIsEarned'
    BY DEF OutWithSomebody, ReadsWereTrue, TrailIsEarned
  <2>3. QED
    BY <2>1, <2>2
<1>7. CASE Tick
  <2> USE <1>7 DEF Tick, orders, Inv
  <2>1. TypeOK'
    BY LocationConstants DEF TypeOK
  <2>2. OutWithSomebody' /\ ReadsWereTrue' /\ TrailIsEarned'
    BY DEF OutWithSomebody, ReadsWereTrue, TrailIsEarned
  <2>3. QED
    BY <2>1, <2>2
<1>8. CASE UNCHANGED vars
  BY <1>8 DEF vars, Inv, TypeOK, OutWithSomebody, ReadsWereTrue, TrailIsEarned
<1>9. QED
  BY <1>1, <1>2, <1>3, <1>4, <1>5, <1>6, <1>7, <1>8 DEF Next

LEMMA Invariance == Spec => []Inv
  BY InvInit, InvStep, PTL DEF Spec

-----------------------------------------------------------------------------
(* Every variable keeps its type. *)
THEOREM TypeCorrect == Spec => []TypeOK
<1>1. Inv => TypeOK
  BY DEF Inv
<1>2. QED
  BY <1>1, Invariance, PTL

(* Nobody is on record as having been on the way with an order they never  *)
(* carried, however late a report is written.                              *)
THEOREM TrailsAreEarned == Spec => []TrailIsEarned
<1>1. Inv => TrailIsEarned
  BY DEF Inv
<1>2. QED
  BY <1>1, Invariance, PTL

(* The end of an order closes it to every request that has not read yet:   *)
(* only the ones in flight can still write or answer about it.             *)
LEMMA ClosedToNewRequests ==
  ASSUME Inv, [Next]_vars, NEW o \in Orders, place[o] \in Over, \A q \in open : q.order # o
  PROVE  /\ \A p \in pings' \ pings : p.order # o
         /\ customer_location'[o] \in {customer_location[o], Null}
         /\ \A q \in open' : q.order # o
<1> USE DEF orders, Over
<1>1. ASSUME NEW x \in Orders, NEW p \in {"store", "out"} \cup Over,
             NEW h \in Riders \cup {Null}, MoveOrder(x, p, h)
      PROVE  pings' = pings /\ open' = open /\ customer_location'[o] \in {customer_location[o], Null}
  BY <1>1 DEF MoveOrder, LeftAtEnd, Inv, TypeOK
<1>2. ASSUME NEW kind, NEW x, NEW r, Open(kind, x, r), x # o
      PROVE  pings' = pings /\ customer_location' = customer_location /\ \A q \in open' : q.order # o
  BY <1>2 DEF Open
<1>3. ASSUME NEW r \in Riders, NEW x \in active_order_for(r) PROVE x # o
  BY <1>3, ActiveOrders, NullIsNoOrder
<1>4. ASSUME NEW q \in open, Answer(q)
      PROVE  /\ \A p \in pings' \ pings : p.order # o
             /\ customer_location'[o] = customer_location[o]
             /\ open' \subseteq open
  <2>1. q.order # o
    OBVIOUS
  <2>2. CASE record_customer_position(q)
    BY <2>1, <2>2 DEF record_customer_position, Close, Inv, TypeOK
  <2>3. CASE record_rider_position(q)
    <3>1. ASSUME NEW p \in pings' \ pings PROVE p.order # o
      <4>1. p = [order |-> q.order, rider |-> q.rider, received |-> now]
        BY <2>3, <3>1 DEF record_rider_position
      <4>2. QED
        BY <2>1, <4>1
    <3>2. QED
      BY <2>3, <3>1 DEF record_rider_position, Close
  <2>4. CASE rider_position_for_tracking(q) \/ End(q)
    BY <2>4 DEF rider_position_for_tracking, End, Close
  <2>5. QED
    BY <1>4, <2>2, <2>3, <2>4 DEF Answer
<1>5. CASE \E x \in Orders, p \in {"store", "out"} \cup Over, h \in Riders \cup {Null} : MoveOrder(x, p, h)
  BY <1>1, <1>5
<1>6. CASE \E r \in Riders : ReadReport(r)
  BY <1>2, <1>3, <1>6 DEF ReadReport
<1>7. CASE \E x \in Orders : CheckOrder(x) \/ ReadTracked(x)
  BY <1>2, <1>7 DEF CheckOrder, ReadTracked
<1>8. CASE \E q \in open : Answer(q)
  BY <1>4, <1>8
<1>9. CASE prune
  BY <1>9 DEF prune
<1>10. CASE Tick \/ UNCHANGED vars
  BY <1>10 DEF Tick, vars
<1>11. QED
  BY <1>5, <1>6, <1>7, <1>8, <1>9, <1>10 DEF Next

(* Once an order is over and the requests about it have ended, its trail   *)
(* grows no more, no position of its customer comes back and nobody is     *)
(* shown its rider.                                                        *)
THEOREM ClosedAfterTheEnd == Spec => NothingAfterTheEnd
<1>1. Inv /\ [Next]_vars =>
        [\A o \in Orders :
           place[o] \in Over /\ (\A q \in open : q.order # o) =>
             /\ \A p \in pings' \ pings : p.order # o
             /\ customer_location'[o] \in {customer_location[o], Null}
             /\ \A q \in open' : q.order # o]_vars
  BY ClosedToNewRequests
<1>2. QED
  BY <1>1, Invariance, PTL DEF Spec, NothingAfterTheEnd

-----------------------------------------------------------------------------
(***************************************************************************)
(* Proofs about Push, for every number of handsets, accounts and events    *)
(* and every size of a batch.  A token is once in the messages of an event,*)
(* the messages leave the hook only with a commit, and what has been posted*)
(* is not among the rest.                                                  *)
(***************************************************************************)

(* The messages of one event, by the state of its transaction and by how   *)
(* often each has been posted. *)
Once(to) == \A i, j \in DOMAIN to : i # j => to[i] # to[j]

SendOK(s, x, p) ==
  /\ Once(s.to)
  /\ s.stage = "hook" => x = "open"
  /\ s.stage \in {"posting", "answered"} => x = "committed"
  /\ \A t \in Tokens : p[t] \in {0, 1} /\ (p[t] = 1 => x = "committed")
  /\ \A i \in DOMAIN s.to : (s.stage = "answered" => i > BatchSize(s)) => p[s.to[i]] = 0
  /\ s.stage # "answered" => s.tickets = <<>>
  /\ s.stage = "answered" => DeadTokens(s) \subseteq s.dead

PushInv == PushTypeOK /\ \A e \in Events : SendOK(send[e], txn[e], posted[e])

TxnStates == {"idle", "open", "committed", "rolled back"}

-----------------------------------------------------------------------------
LEMMA SendFields ==
  ASSUME NEW s \in Sends
  PROVE  /\ s.stage \in Stages /\ s.to \in Seq(Tokens) /\ Len(s.to) \in Nat
         /\ DOMAIN s.to = 1 .. Len(s.to) /\ \A i \in DOMAIN s.to : s.to[i] \in Tokens
<1>1. s.stage \in Stages /\ s.to \in Seq(Tokens)
  BY DEF Sends
<1>2. QED
  BY <1>1

LEMMA BatchFacts ==
  ASSUME NEW s \in Sends
  PROVE  /\ BatchSize(s) \in 0 .. Len(s.to) /\ BatchSize(s) \in Nat
         /\ Rest(s) \in Seq(Tokens)
         /\ \A i \in DOMAIN Rest(s) :
              /\ i + BatchSize(s) \in DOMAIN s.to /\ i + BatchSize(s) > BatchSize(s)
              /\ Rest(s)[i] = s.to[i + BatchSize(s)]
<1> DEFINE to == s.to  b == BatchSize(s)
<1>1. to \in Seq(Tokens) /\ Len(to) \in Nat /\ DOMAIN to = 1 .. Len(to)
      /\ \A i \in DOMAIN to : to[i] \in Tokens
  BY SendFields
<1>2. b \in 0 .. Len(to) /\ b \in Nat
  BY <1>1, PushConstants DEF BatchSize
<1>3. Rest(s) = SubSeq(to, b + 1, Len(to))
  BY DEF Rest
<1> HIDE DEF to, b
<1>4. \A i \in b + 1 .. Len(to) : to[i] \in Tokens
  BY <1>1, <1>2
<1>5. /\ Rest(s) \in Seq(Tokens)
      /\ Len(Rest(s)) = IF b + 1 <= Len(to) THEN Len(to) - (b + 1) + 1 ELSE 0
      /\ \A i \in 1 .. Len(to) - (b + 1) + 1 : Rest(s)[i] = to[b + 1 + i - 1]
  BY <1>1, <1>2, <1>3, <1>4, SubSeqProperties
<1>6. ASSUME NEW i \in DOMAIN Rest(s)
      PROVE  i + b \in DOMAIN to /\ i + b > b /\ Rest(s)[i] = to[i + b]
  <2>1. i \in 1 .. Len(to) - b
    <3>1. DOMAIN Rest(s) = 1 .. Len(Rest(s))
      BY <1>5, LenProperties
    <3>2. Len(Rest(s)) = Len(to) - b
      <4> DEFINE n == Len(to)
      <4>1. n \in Nat /\ b \in 0 .. n
        BY <1>1, <1>2
      <4>2. Len(Rest(s)) = IF b + 1 <= n THEN n - (b + 1) + 1 ELSE 0
        BY <1>5
      <4> HIDE DEF n
      <4>3. Len(Rest(s)) = n - b
        BY <4>1, <4>2
      <4>4. QED
        BY <4>3 DEF n
    <3>3. QED
      BY <3>1, <3>2
  <2>2. i + b \in 1 .. Len(to) /\ i + b > b /\ b + 1 + i - 1 = i + b
    BY <1>1, <1>2, <2>1
  <2>3. Len(to) - (b + 1) + 1 = Len(to) - b
    BY <1>1, <1>2
  <2>4. Rest(s)[i] = to[b + 1 + i - 1]
    BY <1>5, <2>1, <2>3
  <2>5. QED
    BY <1>1, <2>2, <2>4
<1>7. QED
  BY <1>1, <1>2, <1>5, <1>6 DEF to, b

(* What is left once the first batch is done with. *)
LEMMA AfterOK ==
  ASSUME NEW s \in Sends, NEW p, Once(s.to),
         \A t \in Tokens : p[t] \in {0, 1},
         \A i \in DOMAIN s.to : i > BatchSize(s) => p[s.to[i]] = 0
  PROVE  After(s) \in Sends /\ SendOK(After(s), "committed", p)
<1>1. /\ After(s).to = Rest(s) /\ After(s).stage \in {"none", "posting"}
      /\ After(s).tickets = <<>>
  BY DEF After
<1>2. After(s) \in Sends
  BY BatchFacts DEF After, Sends, Stages
<1>3. Once(Rest(s)) /\ \A i \in DOMAIN Rest(s) : p[Rest(s)[i]] = 0
  <2>1. Rest(s) \in Seq(Tokens) /\ BatchSize(s) \in Nat
    BY BatchFacts
  <2>2. \A i \in DOMAIN Rest(s) : p[Rest(s)[i]] = 0
    BY BatchFacts
  <2>3. \A i, j \in DOMAIN Rest(s) : i # j => i + BatchSize(s) # j + BatchSize(s)
    BY <2>1
  <2>4. QED
    BY <2>2, <2>3, BatchFacts DEF Once
<1>4. QED
  BY <1>1, <1>2, <1>3 DEF SendOK

(* A step about the messages of one event leaves the others alone. *)
LEMMA OneEvent ==
  ASSUME PushInv, NEW e \in Events, NEW s \in Sends, NEW x \in TxnStates,
         NEW p \in [Tokens -> Nat], SendOK(s, x, p),
         send' = [send EXCEPT ![e] = s], txn' = [txn EXCEPT ![e] = x],
         posted' = [posted EXCEPT ![e] = p],
         device' \in [Tokens -> Accounts \cup {Nobody}], UNCHANGED <<net, live, user>>
  PROVE  PushInv'
<1>1. /\ send'[e] = s /\ txn'[e] = x /\ posted'[e] = p
      /\ \A y \in Events \ {e} : send'[y] = send[y] /\ txn'[y] = txn[y] /\ posted'[y] = posted[y]
      /\ send' \in [Events -> Sends] /\ txn' \in [Events -> TxnStates]
      /\ posted' \in [Events -> [Tokens -> Nat]]
  BY DEF PushInv, PushTypeOK, TxnStates
<1>2. \A y \in Events : SendOK(send'[y], txn'[y], posted'[y])
  BY <1>1 DEF PushInv
<1>3. \A y \in Events : send'[y].stage # "answered" => send'[y].tickets = <<>>
  BY <1>2 DEF SendOK
<1>4. QED
  BY <1>1, <1>2, <1>3 DEF PushInv, PushTypeOK, TxnStates

LEMMA PushInvInit == PushInit => PushInv
<1> SUFFICES ASSUME PushInit PROVE PushInv
  OBVIOUS
<1>1. /\ Nothing \in Sends /\ Nothing.to = <<>> /\ Nothing.stage = "none"
      /\ Nothing.tickets = <<>>
  BY DEF Nothing, Sends, Stages
<1>2. PushTypeOK
  BY <1>1 DEF PushInit, PushTypeOK
<1>3. ASSUME NEW e \in Events PROVE SendOK(send[e], txn[e], posted[e])
  BY <1>1 DEF PushInit, SendOK, Once
<1>4. QED
  BY <1>2, <1>3 DEF PushInv

(* The handset, its network and the registrations touch no message. *)
LEMMA DeviceKeepsInv ==
  ASSUME PushInv, UNCHANGED <<txn, send, posted>>,
         device' \in [Tokens -> Accounts \cup {Nobody}], net' \subseteq Calls,
         live' \subseteq Tokens, user' \in [Tokens -> Accounts \cup {Nobody}]
  PROVE  PushInv'
  BY DEF PushInv, PushTypeOK

LEMMA HandsetKeepsInv ==
  ASSUME PushInv, NEW t \in Tokens, Handset(t)
  PROVE  PushInv'
<1> USE DEF PushInv, PushTypeOK
<1>1. \A a \in Accounts : Post(a, t) \in Calls /\ Delete(a, t) \in Calls
  BY DEF Calls, Post, Delete
<1>2. user[t] # Nobody => user[t] \in Accounts
  OBVIOUS
<1>3. ASSUME NEW a \in Accounts, SignIn(t, a) PROVE PushInv'
  <2>1. user' \in [Tokens -> Accounts \cup {Nobody}] /\ net' \subseteq Calls
    BY <1>1, <1>3 DEF SignIn
  <2>2. QED
    BY <1>3, <2>1, DeviceKeepsInv DEF SignIn
<1>4. CASE SignOut(t)
  <2>1. user' \in [Tokens -> Accounts \cup {Nobody}] /\ net' \subseteq Calls
    BY <1>1, <1>2, <1>4 DEF SignOut
  <2>2. QED
    BY <1>4, <2>1, DeviceKeepsInv DEF SignOut
<1>5. CASE Launch(t)
  <2>1. net' \subseteq Calls
    BY <1>1, <1>2, <1>5 DEF Launch
  <2>2. QED
    BY <1>5, <2>1, DeviceKeepsInv DEF Launch
<1>6. CASE Uninstall(t)
  <2>1. user' \in [Tokens -> Accounts \cup {Nobody}] /\ live' \subseteq Tokens
    BY <1>6 DEF Uninstall
  <2>2. QED
    BY <1>6, <2>1, DeviceKeepsInv DEF Uninstall
<1>7. CASE Reinstall(t)
  <2>1. live' \subseteq Tokens
    BY <1>7 DEF Reinstall
  <2>2. QED
    BY <1>7, <2>1, DeviceKeepsInv DEF Reinstall
<1>8. QED
  BY <1>3, <1>4, <1>5, <1>6, <1>7 DEF Handset

LEMMA ArriveKeepsInv ==
  ASSUME PushInv, NEW m \in net, Arrive(m) \/ Lose(m)
  PROVE  PushInv'
<1>1. m.by \in Accounts /\ m.token \in Tokens
  BY DEF PushInv, PushTypeOK, Calls
<1>2. device' \in [Tokens -> Accounts \cup {Nobody}] /\ net' \subseteq Calls
  BY <1>1 DEF PushInv, PushTypeOK, Arrive, register_device, forget_device, Lose
<1>3. UNCHANGED <<txn, send, posted, live, user>>
  BY DEF Arrive, register_device, forget_device, Lose
<1>4. QED
  BY <1>2, <1>3, DeviceKeepsInv DEF PushInv, PushTypeOK

LEMMA NotifyKeepsInv ==
  ASSUME PushInv, NEW e \in Events, NEW to \in InSomeOrder(TokensOf(e)), notify(e, to)
  PROVE  PushInv'
<1>1. Cardinality(TokensOf(e)) \in Nat
  <2>1. IsFiniteSet(TokensOf(e))
    BY PushConstants, FS_Subset DEF TokensOf
  <2>2. QED
    BY <2>1, FS_CardinalityType
<1>2. to \in Seq(Tokens) /\ Once(to)
  <2>1. to \in [1 .. Cardinality(TokensOf(e)) -> TokensOf(e)] /\ Once(to)
    BY DEF InSomeOrder, Once
  <2>2. to \in [1 .. Cardinality(TokensOf(e)) -> Tokens]
    BY <2>1 DEF TokensOf
  <2>3. QED
    BY <1>1, <2>1, <2>2, SeqDef
<1> DEFINE s == [send[e] EXCEPT !.stage = IF to = <<>> THEN "none" ELSE "hook", !.to = to]
<1>3. /\ send[e] \in Sends /\ send[e].stage # "answered" /\ send[e].tickets = <<>>
      /\ posted[e] \in [Tokens -> Nat] /\ \A t \in Tokens : posted[e][t] = 0
  BY DEF notify, PushInv, SendOK, PushTypeOK
<1>4. s \in Sends /\ s.to = to /\ s.stage \in {"none", "hook"} /\ s.tickets = <<>>
  BY <1>2, <1>3 DEF Sends, Stages
<1>5. /\ send' = [send EXCEPT ![e] = s] /\ txn' = [txn EXCEPT ![e] = "open"]
      /\ posted' = [posted EXCEPT ![e] = posted[e]]
      /\ device' \in [Tokens -> Accounts \cup {Nobody}] /\ UNCHANGED <<net, live, user>>
  BY DEF notify, PushInv, PushTypeOK
<1> HIDE DEF s
<1>6. SendOK(s, "open", posted[e])
  <2>1. \A i \in DOMAIN to : to[i] \in Tokens
    BY <1>2
  <2>2. QED
    BY <1>2, <1>3, <1>4, <2>1 DEF SendOK
<1>7. QED
  BY <1>3, <1>4, <1>5, <1>6, OneEvent DEF TxnStates

LEMMA EndTxnKeepsInv ==
  ASSUME PushInv, NEW e \in Events, Commit(e) \/ Rollback(e)
  PROVE  PushInv'
<1>1. /\ txn[e] = "open" /\ posted' = [posted EXCEPT ![e] = posted[e]]
      /\ device' \in [Tokens -> Accounts \cup {Nobody}] /\ UNCHANGED <<net, live, user>>
      /\ send[e] \in Sends /\ posted[e] \in [Tokens -> Nat]
      /\ SendOK(send[e], "open", posted[e])
  BY DEF Commit, Rollback, PushInv, PushTypeOK
<1>2. send[e].stage \in {"none", "hook"} /\ send[e].tickets = <<>>
  BY <1>1, SendFields DEF SendOK, Stages
<1>3. CASE Commit(e)
  <2> DEFINE s == [send[e] EXCEPT !.stage = IF @ = "hook" THEN "posting" ELSE @]
  <2>1. /\ s \in Sends /\ s.stage \in {"none", "posting"} /\ s.to = send[e].to
        /\ s.tickets = <<>>
    BY <1>1, <1>2 DEF Sends, Stages
  <2>2. send' = [send EXCEPT ![e] = s] /\ txn' = [txn EXCEPT ![e] = "committed"]
    BY <1>3 DEF Commit, PushInv, PushTypeOK
  <2> HIDE DEF s
  <2>3. SendOK(s, "committed", posted[e])
    BY <1>1, <1>2, <2>1 DEF SendOK
  <2>4. QED
    BY <1>1, <2>1, <2>2, <2>3, OneEvent DEF TxnStates
<1>4. CASE Rollback(e)
  <2> DEFINE s == IF send[e].stage = "hook" THEN Nothing ELSE send[e]
  <2>1. Nothing \in Sends /\ Nothing.stage = "none" /\ Nothing.to = <<>> /\ Nothing.tickets = <<>>
    BY DEF Nothing, Sends, Stages
  <2>2. send' = [send EXCEPT ![e] = s] /\ txn' = [txn EXCEPT ![e] = "rolled back"]
    BY <1>4 DEF Rollback, PushInv, PushTypeOK
  <2>3. s \in Sends /\ s.stage = "none" /\ s.tickets = <<>> /\ s.to \in {<<>>, send[e].to}
    BY <1>1, <1>2, <2>1
  <2> HIDE DEF s
  <2>4. SendOK(s, "rolled back", posted[e])
    BY <1>1, <1>2, <2>3 DEF SendOK, Once
  <2>5. QED
    BY <1>1, <2>2, <2>3, <2>4, OneEvent DEF TxnStates
<1>5. QED
  BY <1>3, <1>4

(* A batch is put to the gateway once: its tokens are not in the rest. *)
LEMMA PutFacts ==
  ASSUME PushInv, NEW e \in Events, send[e].stage = "posting"
  PROVE  \E p \in [Tokens -> Nat] :
           /\ Put(e) = [posted EXCEPT ![e] = p]
           /\ \A t \in Tokens : p[t] \in {0, 1}
           /\ \A i \in DOMAIN send[e].to : i > BatchSize(send[e]) => p[send[e].to[i]] = 0
<1> DEFINE s == send[e]
           p == [t \in Tokens |-> IF t \in Batch(s) THEN posted[e][t] + 1 ELSE posted[e][t]]
<1>1. s \in Sends /\ posted[e] \in [Tokens -> Nat] /\ SendOK(s, txn[e], posted[e])
      /\ s.stage = "posting"
  BY DEF PushInv, PushTypeOK
<1>2. Put(e) = [posted EXCEPT ![e] = p]
  BY DEF Put, PushInv, PushTypeOK
<1> HIDE DEF s
<1>3. /\ BatchSize(s) \in 0 .. Len(s.to) /\ Len(s.to) \in Nat /\ DOMAIN s.to = 1 .. Len(s.to)
      /\ \A i \in DOMAIN s.to : s.to[i] \in Tokens /\ posted[e][s.to[i]] = 0
  BY <1>1, SendFields, BatchFacts DEF SendOK
<1>4. \A t \in Batch(s) : posted[e][t] = 0
  BY <1>3 DEF Batch
<1>5. \A t \in Tokens : p[t] \in {0, 1}
  BY <1>1, <1>4 DEF SendOK
<1>6. ASSUME NEW i \in DOMAIN s.to, i > BatchSize(s) PROVE s.to[i] \notin Batch(s)
  BY <1>1, <1>3, <1>6 DEF Batch, SendOK, Once
<1>7. \A i \in DOMAIN s.to : i > BatchSize(s) => p[s.to[i]] = 0
  BY <1>3, <1>6
<1>8. p \in [Tokens -> Nat]
  BY <1>1
<1>9. QED
  BY <1>2, <1>5, <1>7, <1>8 DEF s

LEMMA PostKeepsInv ==
  ASSUME PushInv, NEW e \in Events, PostBatch(e) \/ PostFails(e)
  PROVE  PushInv'
<1>1. /\ send[e].stage = "posting" /\ posted' = Put(e)
      /\ device' \in [Tokens -> Accounts \cup {Nobody}] /\ UNCHANGED <<net, live, user>>
      /\ send[e] \in Sends /\ SendOK(send[e], txn[e], posted[e])
      /\ txn' = [txn EXCEPT ![e] = "committed"]
  BY DEF PostBatch, PostFails, PushInv, PushTypeOK, SendOK
<1>2. PICK p \in [Tokens -> Nat] :
        /\ Put(e) = [posted EXCEPT ![e] = p]
        /\ \A t \in Tokens : p[t] \in {0, 1}
        /\ \A i \in DOMAIN send[e].to : i > BatchSize(send[e]) => p[send[e].to[i]] = 0
  BY <1>1, PutFacts
<1>3. CASE PostFails(e)
  <2>1. After(send[e]) \in Sends /\ SendOK(After(send[e]), "committed", p)
    BY <1>1, <1>2, AfterOK DEF SendOK
  <2>2. send' = [send EXCEPT ![e] = After(send[e])]
    BY <1>3 DEF PostFails
  <2>3. QED
    BY <1>1, <1>2, <2>1, <2>2, OneEvent DEF TxnStates
<1>4. CASE PostBatch(e)
  <2> DEFINE tickets == [i \in 1 .. BatchSize(send[e]) |->
               IF send[e].to[i] \in live THEN "ok or another error" ELSE "DeviceNotRegistered"]
             s == [send[e] EXCEPT !.stage = "answered", !.tickets = tickets,
                                  !.dead = Batch(send[e]) \ live]
  <2>1. BatchSize(send[e]) \in 0 .. Len(send[e].to) /\ BatchSize(send[e]) \in Nat
        /\ DOMAIN send[e].to = 1 .. Len(send[e].to) /\ Len(send[e].to) \in Nat
        /\ \A i \in DOMAIN send[e].to : send[e].to[i] \in Tokens
    BY <1>1, BatchFacts, SendFields
  <2>2. tickets \in Seq(Ticket)
    <3>1. tickets \in [1 .. BatchSize(send[e]) -> Ticket]
      BY DEF Ticket
    <3>2. QED
      BY <2>1, <3>1, SeqDef
  <2>3. \A t \in Batch(send[e]) : t \in Tokens
    BY <2>1 DEF Batch
  <2>4. send' = [send EXCEPT ![e] = s]
    BY <1>4 DEF PostBatch, PushInv, PushTypeOK
  <2>5. \A i \in 1 .. BatchSize(send[e]) :
          tickets[i] = "DeviceNotRegistered" => send[e].to[i] \in Batch(send[e]) \ live
    BY DEF Batch
  <2> HIDE DEF tickets
  <2>6. /\ s \in Sends /\ s.stage = "answered" /\ s.to = send[e].to
        /\ s.tickets = tickets /\ s.dead = Batch(send[e]) \ live
    BY <1>1, <2>2, <2>3 DEF Sends, Stages
  <2> HIDE DEF s
  <2>7. BatchSize(s) = BatchSize(send[e])
    BY <2>6 DEF BatchSize
  <2>8. DeadTokens(s) \subseteq s.dead
    BY <2>5, <2>6, <2>7 DEF DeadTokens
  <2>9. SendOK(s, "committed", p)
    BY <1>1, <1>2, <2>6, <2>7, <2>8 DEF SendOK
  <2>10. QED
    BY <1>1, <1>2, <2>4, <2>6, <2>9, OneEvent DEF TxnStates
<1>5. QED
  BY <1>3, <1>4

LEMMA EndSendKeepsInv ==
  ASSUME PushInv, NEW e \in Events, _handle_tickets(e) \/ Die(e)
  PROVE  PushInv'
<1>1. /\ send[e] \in Sends /\ SendOK(send[e], "committed", posted[e])
      /\ posted[e] \in [Tokens -> Nat] /\ posted' = [posted EXCEPT ![e] = posted[e]]
      /\ txn' = [txn EXCEPT ![e] = "committed"]
      /\ device' \in [Tokens -> Accounts \cup {Nobody}] /\ UNCHANGED <<net, live, user>>
  <2>1. /\ send[e].stage \in {"posting", "answered"}
        /\ UNCHANGED <<txn, posted, net, live, user>>
    BY DEF _handle_tickets, Die
  <2>2. txn[e] = "committed" /\ SendOK(send[e], txn[e], posted[e])
    BY <2>1 DEF PushInv, SendOK
  <2>3. device' \in [Tokens -> Accounts \cup {Nobody}]
    BY DEF _handle_tickets, Die, PushInv, PushTypeOK
  <2>4. QED
    BY <2>1, <2>2, <2>3 DEF PushInv, PushTypeOK
<1>2. CASE _handle_tickets(e)
  <2>1. send[e].stage = "answered" /\ send' = [send EXCEPT ![e] = After(send[e])]
    BY <1>2 DEF _handle_tickets
  <2>2. After(send[e]) \in Sends /\ SendOK(After(send[e]), "committed", posted[e])
    BY <1>1, <2>1, AfterOK DEF SendOK
  <2>3. QED
    BY <1>1, <2>1, <2>2, OneEvent DEF TxnStates
<1>3. CASE Die(e)
  <2>1. Nothing \in Sends /\ Nothing.stage = "none" /\ Nothing.to = <<>> /\ Nothing.tickets = <<>>
    BY DEF Nothing, Sends, Stages
  <2>2. send' = [send EXCEPT ![e] = Nothing]
    BY <1>3 DEF Die
  <2>3. SendOK(Nothing, "committed", posted[e])
    BY <1>1, <2>1 DEF SendOK, Once
  <2>4. QED
    BY <1>1, <2>1, <2>2, <2>3, OneEvent DEF TxnStates
<1>4. QED
  BY <1>2, <1>3

LEMMA PushInvStep == PushInv /\ [PushNext]_pushVars => PushInv'
<1> SUFFICES ASSUME PushInv, [PushNext]_pushVars PROVE PushInv'
  OBVIOUS
<1>1. CASE UNCHANGED pushVars
  BY <1>1, DeviceKeepsInv DEF pushVars, PushInv, PushTypeOK
<1>2. ASSUME NEW e \in Events, Thread(e) PROVE PushInv'
  BY <1>2, PostKeepsInv, EndSendKeepsInv DEF Thread
<1>3. QED
  BY <1>1, <1>2, HandsetKeepsInv, ArriveKeepsInv, NotifyKeepsInv, EndTxnKeepsInv DEF PushNext

LEMMA PushInvariance == PushSpec => []PushInv
  BY PushInvInit, PushInvStep, PTL DEF PushSpec

-----------------------------------------------------------------------------
(* Every variable keeps its type; no ticket outlives its batch. *)
THEOREM PushTypeCorrect == PushSpec => []PushTypeOK
<1>1. PushInv => PushTypeOK
  BY DEF PushInv
<1>2. QED
  BY <1>1, PushInvariance, PTL

(* No phone buzzes about a move that was rolled back, and none twice about *)
(* one move. *)
THEOREM NoPhoneIsFooled == PushSpec => []NoFalseAlarm
<1>1. PushInv => NoFalseAlarm
  <2> SUFFICES ASSUME PushInv, NEW e \in Events, NEW t \in Tokens, posted[e][t] > 0
               PROVE  txn[e] = "committed" /\ posted[e][t] = 1
    BY DEF NoFalseAlarm
  <2>1. posted[e][t] \in {0, 1} /\ (posted[e][t] = 1 => txn[e] = "committed")
    BY DEF PushInv, SendOK
  <2>2. QED
    BY <2>1
<1>2. QED
  BY <1>1, PushInvariance, PTL

(* A registration goes for a reason. *)
THEOREM RegistrationsGoForAReason == PushSpec => RowsGoForAReason
<1>1. ASSUME PushInv, [PushNext]_pushVars, NEW t \in Tokens, device'[t] # device[t], device[t] # Nobody
      PROVE  \/ Delete(device[t], t) \in net \ net'
             \/ device'[t] # Nobody /\ Post(device'[t], t) \in net \ net'
             \/ device'[t] = Nobody /\ \E e \in Events : t \in send[e].dead
  <2> USE DEF PushInv, PushTypeOK
  <2>1. ASSUME NEW m \in net, register_device(m)
        PROVE  device'[t] # Nobody /\ Post(device'[t], t) \in net \ net'
    <3>1. /\ m.call = "POST" /\ m.by \in Accounts /\ m.token = t /\ device'[t] = m.by
          /\ m = [call |-> m.call, by |-> m.by, token |-> m.token]
      BY <1>1, <2>1 DEF register_device, Calls
    <3>2. m = Post(device'[t], t) /\ m \notin net'
      BY <2>1, <3>1 DEF Post, register_device
    <3>3. QED
      BY <3>1, <3>2, PushConstants
  <2>2. ASSUME NEW m \in net, forget_device(m)
        PROVE  Delete(device[t], t) \in net \ net'
    <3>1. /\ m.call = "DELETE" /\ m.token = t /\ device[t] = m.by
          /\ m = [call |-> m.call, by |-> m.by, token |-> m.token]
      BY <1>1, <2>2 DEF forget_device, Calls
    <3>2. m = Delete(device[t], t) /\ m \notin net'
      BY <2>2, <3>1 DEF Delete, forget_device
    <3>3. QED
      BY <3>2
  <2>3. ASSUME NEW e \in Events, _handle_tickets(e)
        PROVE  device'[t] = Nobody /\ t \in send[e].dead
    BY <1>1, <2>3 DEF _handle_tickets, SendOK
  <2>4. CASE device' = device
    BY <1>1, <2>4
  <2>5. QED
    BY <1>1, <2>1, <2>2, <2>3, <2>4 DEF PushNext, pushVars, Handset, SignIn, SignOut, Launch, Uninstall,
       Reinstall, Arrive, Lose, notify, Commit, Rollback, Thread, PostBatch, PostFails, Die
<1>2. PushInv /\ [PushNext]_pushVars =>
        [\A t \in Tokens :
           device'[t] # device[t] /\ device[t] # Nobody =>
             \/ Delete(device[t], t) \in net \ net'
             \/ device'[t] # Nobody /\ Post(device'[t], t) \in net \ net'
             \/ device'[t] = Nobody /\ \E e \in Events : t \in send[e].dead]_pushVars
  BY <1>1
<1>3. QED
  BY <1>2, PushInvariance, PTL DEF PushSpec, RowsGoForAReason
=============================================================================
