----------------------- MODULE CustomerAccountsProofs -----------------------
(***************************************************************************)
(* Proofs about CustomerAccounts, for every set of people, numbers,        *)
(* accounts and orders.  Every order somebody sees rests on one of two     *)
(* pieces of evidence, and each is carried along from where it arose: the  *)
(* tracking token, from the link of the order to the account; the text     *)
(* with the code, from the challenge to the stamp.                         *)
(***************************************************************************)
EXTENDS CustomerAccounts, TLAPS

OneAccountPerNumber ==
  \A c, d \in Customers :
    Exists(c) /\ Exists(d) /\ customers[c].phone = customers[d].phone => c = d

(* An account was linked to an order by somebody with its token. *)
LinksAreHeld ==
  \A o \in Orders : orders[o] # Null /\ orders[o].customer # Null =>
    <<person[orders[o].customer], o>> \in links

(* A request acts for an account, and names an order its holder may claim. *)
RequestsAreSound ==
  \A q \in open :
    /\ Exists(q.customer)
    /\ q.kind = "sign-up" => <<person[q.customer], q.order>> \in links

(* A code was texted once, to the number and at the time its challenge says.*)
CodesAreTexted ==
  /\ \A t, u \in texts : t[2] = u[2] => t = u
  /\ \A t \in texts : t[4] <= now
  /\ \A ch \in challenges : \E t \in texts :
       t[2] = ch.code /\ t[3] = ch.phone /\ t[4] = ch.issued

(* The text t lets its reader stamp the account c at the time s. *)
Earns(t, c, s) ==
  /\ t[1] = person[c] /\ t[3] = customers[c].phone
  /\ t[4] <= s /\ s <= t[4] + OTP_TTL_SECONDS

StampsAreEarned ==
  \A c \in Customers : Exists(c) /\ customers[c].phone_verified_at # Null =>
    \E t \in texts : Earns(t, c, customers[c].phone_verified_at)

Inv == /\ TypeOK /\ OneAccountPerNumber /\ LinksAreHeld /\ RequestsAreSound
       /\ CodesAreTexted /\ StampsAreEarned

-----------------------------------------------------------------------------
LEMMA Nulls == Null \notin Customers /\ Null \notin People /\ Null \notin Orders
               /\ Null \notin Time /\ Null \notin Rows /\ Null \notin OrderRows
<1>1. \A t \in Time : t \in Int
  BY AccountConstants DEF Time
<1>2. QED
  BY <1>1, AccountConstants, NullIsNoRow

LEMMA InvInit == Init => Inv
<1> SUFFICES ASSUME Init PROVE Inv
  OBVIOUS
<1> USE DEF Init
<1>1. TypeOK
  BY AccountConstants DEF TypeOK, Time
<1>2. OneAccountPerNumber /\ LinksAreHeld /\ RequestsAreSound /\ CodesAreTexted /\ StampsAreEarned
  BY DEF OneAccountPerNumber, LinksAreHeld, RequestsAreSound, CodesAreTexted, StampsAreEarned, Exists
<1>3. QED
  BY <1>1, <1>2 DEF Inv

(* What the world does takes no evidence away. *)
LEMMA WorldKeepsInv ==
  ASSUME Inv,
         \/ Tick
         \/ \E n \in Phones, p \in People : Reassign(n, p)
         \/ \E p, q \in People, o \in Orders : ShareLink(p, q, o)
  PROVE  Inv'
<1>1. /\ now \in Time /\ now' \in Time /\ now <= now'
      /\ sim' \in [Phones -> People]
      /\ links \subseteq links' /\ links' \subseteq People \X Orders
      /\ UNCHANGED <<customers, orders, challenges, open, person, texts>>
  <2> USE DEF Inv, TypeOK
  <2>1. CASE Tick
    BY <2>1, AccountConstants DEF Tick, Time
  <2>2. CASE \E n \in Phones, p \in People : Reassign(n, p)
    BY <2>2 DEF Reassign, Time
  <2>3. CASE \E p, q \in People, o \in Orders : ShareLink(p, q, o)
    BY <2>3 DEF ShareLink, Time
  <2>4. QED
    BY <2>1, <2>2, <2>3
<1>2. TypeOK'
  BY <1>1 DEF Inv, TypeOK
<1>3. OneAccountPerNumber' /\ StampsAreEarned'
  BY <1>1 DEF Inv, OneAccountPerNumber, StampsAreEarned, Exists, Earns
<1>4. LinksAreHeld' /\ RequestsAreSound'
  BY <1>1 DEF Inv, LinksAreHeld, RequestsAreSound, Exists
<1>5. CodesAreTexted'
  <2>1. \A t \in texts : t[4] \in Time
    BY DEF Inv, TypeOK
  <2>2. \A t \in texts : t[4] <= now'
    BY <1>1, <2>1 DEF Inv, CodesAreTexted, Time
  <2>3. QED
    BY <1>1, <2>2 DEF Inv, CodesAreTexted
<1>6. QED
  BY <1>2, <1>3, <1>4, <1>5 DEF Inv

(* Steps that change the orders only: one order is placed, or comes to an  *)
(* account whose holder has its token. *)
LEMMA OrderKeepsInv ==
  ASSUME Inv, NEW o \in Orders, NEW row \in OrderRows,
         orders' = [orders EXCEPT ![o] = row],
         links \subseteq links', links' \subseteq People \X Orders,
         open' \subseteq open,
         row.customer # Null => Exists(row.customer) /\ <<person[row.customer], o>> \in links',
         UNCHANGED <<now, customers, challenges, person, sim, texts>>
  PROVE  Inv'
<1>1. /\ orders'[o] = row
      /\ \A x \in Orders \ {o} : orders'[x] = orders[x]
      /\ orders' \in [Orders -> OrderRows \cup {Null}]
  BY DEF Inv, TypeOK
<1>2. TypeOK'
  BY <1>1 DEF Inv, TypeOK, Exists
<1>3. LinksAreHeld'
  BY <1>1 DEF Inv, LinksAreHeld
<1>4. RequestsAreSound' /\ OneAccountPerNumber' /\ StampsAreEarned' /\ CodesAreTexted'
  BY DEF Inv, RequestsAreSound, OneAccountPerNumber, StampsAreEarned, CodesAreTexted, Exists, Earns
<1>5. QED
  BY <1>2, <1>3, <1>4 DEF Inv

LEMMA PlaceKeepsInv ==
  ASSUME Inv, NEW p \in People, NEW o \in Orders, NEW n \in Phones,
         NEW c \in Customers \cup {Null}, _place_order(p, o, n, c)
  PROVE  Inv'
<1> DEFINE row == [customer_phone |-> n, customer |-> c]
<1>1. row \in OrderRows /\ row.customer = c
  BY DEF OrderRows
<1>2. c # Null => Exists(c) /\ person[c] = p
  BY Nulls DEF _place_order, Inv, TypeOK, Exists
<1>3. /\ orders' = [orders EXCEPT ![o] = row]
      /\ links \subseteq links' /\ links' \subseteq People \X Orders /\ <<p, o>> \in links'
      /\ UNCHANGED <<now, customers, challenges, open, person, sim, texts>>
  BY DEF _place_order, Inv, TypeOK
<1> HIDE DEF row
<1>4. QED
  BY <1>1, <1>2, <1>3, OrderKeepsInv

(* An order that is nobody's comes to an account. *)
LEMMA LinkKeepsInv ==
  ASSUME Inv, NEW o \in Orders, NEW c \in Customers, Exists(c), Unclaimed(o),
         <<person[c], o>> \in links, orders' = Linked(o, c), open' \subseteq open,
         UNCHANGED <<world, customers, challenges>>
  PROVE  Inv'
<1> DEFINE row == [orders[o] EXCEPT !.customer = c]
<1>1. orders[o] \in OrderRows
  BY DEF Inv, TypeOK, Unclaimed
<1>2. row \in OrderRows /\ row.customer = c
  BY <1>1 DEF OrderRows
<1>3. orders' = [orders EXCEPT ![o] = row]
  BY DEF Linked, Inv, TypeOK
<1>4. links \subseteq People \X Orders
  BY DEF Inv, TypeOK
<1> HIDE DEF row
<1>5. QED
  BY <1>2, <1>3, <1>4, OrderKeepsInv DEF world

LEMMA RequestFields ==
  ASSUME TypeOK, NEW q \in open
  PROVE  q.customer \in Customers /\ (q.kind = "sign-up" => q.order \in Orders)
  BY DEF TypeOK, Requests

(* A request that ends without a trace. *)
LEMMA EndKeepsInv ==
  ASSUME Inv, open' \subseteq open, UNCHANGED <<world, customers, orders, challenges>>
  PROVE  Inv'
<1> USE DEF Inv, world
<1>1. TypeOK'
  BY DEF TypeOK
<1>2. OneAccountPerNumber' /\ LinksAreHeld' /\ RequestsAreSound' /\ CodesAreTexted' /\ StampsAreEarned'
  BY DEF OneAccountPerNumber, LinksAreHeld, RequestsAreSound, CodesAreTexted, StampsAreEarned,
         Exists, Earns
<1>3. QED
  BY <1>1, <1>2

LEMMA ClaimOrderKeepsInv ==
  ASSUME Inv, NEW q \in open, _claim_order(q)
  PROVE  Inv'
<1>1. q.customer \in Customers /\ q.order \in Orders /\ open' \subseteq open
  BY RequestFields DEF _claim_order, Close, Inv
<1>2. Exists(q.customer) /\ <<person[q.customer], q.order>> \in links
  BY DEF _claim_order, Inv, RequestsAreSound
<1>3. CASE Unclaimed(q.order)
  BY <1>1, <1>2, <1>3, LinkKeepsInv DEF _claim_order
<1>4. CASE ~Unclaimed(q.order)
  BY <1>1, <1>4, EndKeepsInv DEF _claim_order
<1>5. QED
  BY <1>3, <1>4

LEMMA SignupKeepsInv ==
  ASSUME Inv, NEW p \in People, NEW c \in Customers, NEW n \in Phones,
         NEW o \in Orders \cup {Null}, Signup(p, c, n, o)
  PROVE  Inv'
<1> DEFINE row == [phone |-> n, phone_verified_at |-> Null]
           q == [kind |-> "sign-up", customer |-> c, order |-> o]
<1>1. row \in Rows /\ row # Null /\ row.phone = n /\ row.phone_verified_at = Null
  BY Nulls DEF Rows
<1>2. /\ customers'[c] = row /\ person'[c] = p
      /\ \A d \in Customers \ {c} : customers'[d] = customers[d] /\ person'[d] = person[d]
      /\ customers' \in [Customers -> Rows \cup {Null}]
      /\ person' \in [Customers -> People \cup {Null}]
  BY <1>1 DEF Signup, Inv, TypeOK
<1>3. UNCHANGED <<now, orders, challenges, sim, links, texts>>
  BY DEF Signup
<1>4. ~Exists(c) /\ Free(n)
  BY DEF Signup
<1>5. /\ o = Null => open' = open
      /\ o # Null => open' = open \cup {q} /\ q \in Requests /\ <<p, o>> \in links
  BY DEF Signup, Requests
<1>6. q.kind = "sign-up" /\ q.customer = c /\ q.order = o
  OBVIOUS
<1> HIDE DEF row, q
<1>7. \A x \in Orders : orders[x] # Null /\ orders[x].customer # Null =>
        orders[x].customer \in Customers \ {c}
  BY <1>4 DEF Inv, TypeOK, OrderRows, Exists
<1>8. TypeOK'
  <2>1. open' \subseteq Requests
    BY <1>5 DEF Inv, TypeOK
  <2>2. \A d \in Customers : customers'[d] = Null <=> person'[d] = Null
    BY <1>1, <1>2, Nulls DEF Inv, TypeOK
  <2>3. \A x \in Orders : orders'[x] # Null /\ orders'[x].customer # Null =>
          customers'[orders'[x].customer] # Null
    BY <1>2, <1>3, <1>7 DEF Inv, TypeOK
  <2>4. QED
    BY <1>2, <1>3, <2>1, <2>2, <2>3 DEF Inv, TypeOK
<1>9. OneAccountPerNumber'
  BY <1>1, <1>2, <1>4 DEF Inv, OneAccountPerNumber, Free, Exists
<1>10. LinksAreHeld'
  BY <1>2, <1>3, <1>7 DEF Inv, LinksAreHeld
<1>11. RequestsAreSound'
  <2>1. ASSUME NEW x \in open
        PROVE  Exists(x.customer)' /\ (x.kind = "sign-up" => <<person'[x.customer], x.order>> \in links')
    <3>1. Exists(x.customer) /\ x.customer \in Customers \ {c}
      BY <1>4, RequestFields DEF Inv, RequestsAreSound
    <3>2. QED
      BY <1>2, <1>3, <3>1 DEF Inv, RequestsAreSound, Exists
  <2>2. o # Null => Exists(q.customer)' /\ <<person'[q.customer], q.order>> \in links'
    BY <1>1, <1>2, <1>3, <1>5, <1>6 DEF Exists
  <2>3. QED
    BY <1>5, <2>1, <2>2 DEF RequestsAreSound
<1>12. CodesAreTexted'
  BY <1>3 DEF Inv, CodesAreTexted
<1>13. StampsAreEarned'
  BY <1>1, <1>2, <1>3 DEF Inv, StampsAreEarned, Exists, Earns
<1>14. QED
  BY <1>8, <1>9, <1>10, <1>11, <1>12, <1>13 DEF Inv

LEMMA ChallengeKeepsInv ==
  ASSUME Inv, NEW c \in Customers, NEW code \in Codes, PhoneChallenge(c, code)
  PROVE  Inv'
<1> DEFINE n == customers[c].phone
           text == <<sim[n], code, n, now>>
           ch == [customer |-> c, phone |-> n, code |-> code, issued |-> now]
<1>1. n \in Phones /\ now \in Time /\ sim[n] \in People
  BY DEF PhoneChallenge, Exists, Inv, TypeOK, Rows
<1>2. text \in People \X Codes \X Phones \X Time /\ ch \in Challenges
  BY <1>1 DEF Challenges
<1>3. /\ texts' = texts \cup {text} /\ challenges' = challenges \cup {ch}
      /\ \A t \in texts : t[2] # code
      /\ UNCHANGED <<now, customers, orders, open, person, sim, links>>
  BY DEF PhoneChallenge
<1>4. /\ text[2] = code /\ text[3] = n /\ text[4] = now
      /\ ch.code = code /\ ch.phone = n /\ ch.issued = now
  OBVIOUS
<1> HIDE DEF text, ch, n
<1>5. TypeOK'
  BY <1>2, <1>3 DEF Inv, TypeOK
<1>6. OneAccountPerNumber' /\ LinksAreHeld' /\ RequestsAreSound'
  BY <1>3 DEF Inv, OneAccountPerNumber, LinksAreHeld, RequestsAreSound, Exists
<1>7. CodesAreTexted'
  BY <1>1, <1>3, <1>4 DEF Inv, CodesAreTexted, Time
<1>8. StampsAreEarned'
  BY <1>3 DEF Inv, StampsAreEarned, Exists, Earns
<1>9. QED
  BY <1>5, <1>6, <1>7, <1>8 DEF Inv

LEMMA VerifyReadKeepsInv ==
  ASSUME Inv, NEW c \in Customers, VerifyRead(c)
  PROVE  Inv'
<1> DEFINE q == [kind |-> "verify", customer |-> c]
<1>1. /\ q \in Requests /\ q.kind # "sign-up" /\ q.customer = c /\ Exists(c)
      /\ open' = open \cup {q} /\ UNCHANGED <<world, customers, orders, challenges>>
  BY DEF VerifyRead, Requests
<1> HIDE DEF q
<1> USE DEF Inv, world
<1>2. TypeOK'
  BY <1>1 DEF TypeOK
<1>3. RequestsAreSound'
  BY <1>1 DEF RequestsAreSound, Exists
<1>4. OneAccountPerNumber' /\ LinksAreHeld' /\ CodesAreTexted' /\ StampsAreEarned'
  BY <1>1 DEF OneAccountPerNumber, LinksAreHeld, CodesAreTexted, StampsAreEarned, Exists, Earns
<1>5. QED
  BY <1>2, <1>3, <1>4

(* The code names the text: who brings it had the SIM of the account's     *)
(* number when the challenge was issued. *)
LEMMA VerifyKeepsInv ==
  ASSUME Inv, NEW q \in open, NEW ch \in challenges, PhoneVerify(q, ch)
  PROVE  Inv'
<1> DEFINE c == q.customer
<1>1. c \in Customers /\ Exists(c) /\ customers[c] \in Rows
  BY RequestFields DEF Inv, RequestsAreSound, TypeOK, Exists
<1>2. /\ open' \subseteq open /\ UNCHANGED <<world, orders, challenges>>
      /\ customers' = [customers EXCEPT ![c].phone_verified_at = now]
  BY DEF PhoneVerify, Close
<1>3. now \in Time
  BY DEF Inv, TypeOK
<1>4. PICK t \in texts : t[1] = person[c] /\ check(ch, t[2], c)
  BY DEF PhoneVerify
<1>5. /\ customers'[c] \in Rows /\ customers'[c] # Null
      /\ customers'[c].phone = customers[c].phone /\ customers'[c].phone_verified_at = now
      /\ \A d \in Customers \ {c} : customers'[d] = customers[d]
      /\ customers' \in [Customers -> Rows \cup {Null}]
  BY <1>1, <1>2, <1>3, Nulls DEF Inv, TypeOK, Rows
<1> HIDE DEF c
<1>6. t[3] = customers[c].phone /\ t[4] = ch.issued
  BY <1>4 DEF check, Inv, CodesAreTexted
<1>7. t[4] <= now /\ now <= t[4] + OTP_TTL_SECONDS
  <2>1. t[4] \in Time
    BY DEF Inv, TypeOK
  <2>2. now - t[4] <= OTP_TTL_SECONDS /\ t[4] <= now
    BY <1>4, <1>6 DEF check, Inv, CodesAreTexted
  <2>3. QED
    BY <1>3, <2>1, <2>2, AccountConstants DEF Time
<1>8. TypeOK'
  BY <1>1, <1>2, <1>5 DEF Inv, TypeOK, world, Exists
<1>9. OneAccountPerNumber' /\ RequestsAreSound'
  <2>1. \A d \in Customers :
          Exists(d)' = Exists(d) /\ (Exists(d) => customers'[d].phone = customers[d].phone)
    BY <1>1, <1>5 DEF Exists
  <2>2. \A x \in open : x.customer \in Customers
    BY RequestFields DEF Inv
  <2>3. QED
    BY <1>2, <2>1, <2>2 DEF Inv, OneAccountPerNumber, RequestsAreSound, world
<1>10. LinksAreHeld' /\ CodesAreTexted'
  BY <1>2 DEF Inv, LinksAreHeld, CodesAreTexted, world
<1>11. StampsAreEarned'
  <2>1. ASSUME NEW d \in Customers, Exists(d)', customers'[d].phone_verified_at # Null
        PROVE  \E u \in texts' : Earns(u, d, customers[d].phone_verified_at)'
    <3>1. CASE d = c
      BY <1>2, <1>4, <1>5, <1>6, <1>7, <3>1 DEF Earns, world
    <3>2. CASE d # c
      BY <1>2, <1>5, <2>1, <3>2 DEF Earns, world, Exists, Inv, StampsAreEarned
    <3>3. QED
      BY <3>1, <3>2
  <2>2. QED
    BY <2>1 DEF StampsAreEarned
<1>12. QED
  BY <1>8, <1>9, <1>10, <1>11 DEF Inv

LEMMA InvStep == Inv /\ [Next]_vars => Inv'
<1> SUFFICES ASSUME Inv, [Next]_vars PROVE Inv'
  OBVIOUS
<1>1. CASE UNCHANGED vars
  BY <1>1, EndKeepsInv DEF vars, world
<1>2. CASE \/ Tick
           \/ \E n \in Phones, p \in People : Reassign(n, p)
           \/ \E p, q \in People, o \in Orders : ShareLink(p, q, o)
  BY <1>2, WorldKeepsInv
<1>3. ASSUME NEW c \in Customers, NEW o \in Orders, claim(c, o) PROVE Inv'
  BY <1>3, LinkKeepsInv DEF claim
<1>4. ASSUME NEW q \in open, End(q) PROVE Inv'
  BY <1>4, EndKeepsInv DEF End, Close
<1>5. QED
  BY <1>1, <1>2, <1>3, <1>4, PlaceKeepsInv, SignupKeepsInv, ChallengeKeepsInv,
     VerifyReadKeepsInv, VerifyKeepsInv, ClaimOrderKeepsInv DEF Next

LEMMA Invariance == Spec => []Inv
  BY InvInit, InvStep, PTL DEF Spec

-----------------------------------------------------------------------------
(* Every variable keeps its type; every account has a holder, and every    *)
(* linked order an account. *)
THEOREM TypeCorrect == Spec => []TypeOK
<1>1. Inv => TypeOK
  BY DEF Inv
<1>2. QED
  BY <1>1, Invariance, PTL

(* No order is in the histories of two accounts. *)
THEOREM HistoriesDisjoint == Spec => []SeenByOne
<1>1. Inv => SeenByOne
  BY Nulls DEF Inv, OneAccountPerNumber, SeenByOne, visible_orders
<1>2. QED
  BY <1>1, Invariance, PTL

(* What an account sees, its holder may see. *)
THEOREM HistoriesEarned == Spec => []SeesOnEvidence
<1>1. Inv => SeesOnEvidence
  <2> SUFFICES ASSUME Inv, NEW c \in Customers, Exists(c), NEW o \in visible_orders(c)
               PROVE  \/ <<person[c], o>> \in links
                      \/ \E t \in texts :
                           /\ t[1] = person[c] /\ t[3] = orders[o].customer_phone
                           /\ t[4] <= customers[c].phone_verified_at
                           /\ customers[c].phone_verified_at <= t[4] + OTP_TTL_SECONDS
    BY DEF SeesOnEvidence
  <2>1. CASE orders[o].customer = c
    BY <2>1, Nulls DEF Inv, LinksAreHeld, visible_orders
  <2>2. CASE orders[o].customer # c
    BY <2>2 DEF Inv, StampsAreEarned, Earns, visible_orders
  <2>3. QED
    BY <2>1, <2>2
<1>2. QED
  BY <1>1, Invariance, PTL

(* An order is linked once, by an account that gives it up no more.        *)
LEMMA OrdersAreLinkedOnce ==
  ASSUME Inv, [Next]_vars, NEW o \in Orders, orders[o] # Null
  PROVE  \/ orders'[o] = orders[o]
         \/ /\ orders[o].customer = Null
            /\ orders'[o] # Null /\ orders'[o].customer \in Customers
<1> USE DEF Inv, world
<1>1. ASSUME NEW x \in Orders, NEW c \in Customers, Unclaimed(x), orders' = Linked(x, c)
      PROVE  \/ orders'[o] = orders[o]
             \/ /\ orders[o].customer = Null
                /\ orders'[o] # Null /\ orders'[o].customer \in Customers
  <2>1. CASE x = o
    <3>1. orders[o] \in OrderRows
      BY DEF TypeOK
    <3>2. orders'[o] = [orders[o] EXCEPT !.customer = c]
      BY <1>1, <2>1 DEF Linked, TypeOK
    <3>3. QED
      BY <1>1, <2>1, <3>1, <3>2, Nulls DEF Unclaimed, OrderRows
  <2>2. CASE x # o
    BY <1>1, <2>2 DEF Linked, TypeOK
  <2>3. QED
    BY <2>1, <2>2
<1>2. ASSUME NEW p \in People, NEW x \in Orders, NEW n \in Phones, NEW c \in Customers \cup {Null},
             _place_order(p, x, n, c)
      PROVE  orders'[o] = orders[o]
  BY <1>2 DEF _place_order, TypeOK
<1>3. ASSUME NEW c \in Customers, NEW x \in Orders, claim(c, x)
      PROVE  \/ orders'[o] = orders[o]
             \/ /\ orders[o].customer = Null
                /\ orders'[o] # Null /\ orders'[o].customer \in Customers
  BY <1>1, <1>3 DEF claim
<1>4. ASSUME NEW q \in open, _claim_order(q)
      PROVE  \/ orders'[o] = orders[o]
             \/ /\ orders[o].customer = Null
                /\ orders'[o] # Null /\ orders'[o].customer \in Customers
  BY <1>1, <1>4, RequestFields DEF _claim_order
<1>5. CASE orders' = orders
  BY <1>5
<1>6. QED
  BY <1>2, <1>3, <1>4, <1>5 DEF Next, vars, Tick, Reassign, ShareLink, Signup, PhoneChallenge,
     VerifyRead, End, PhoneVerify

(* An account keeps its number, and its stamp once it has one. *)
LEMMA AccountsKeep ==
  ASSUME Inv, [Next]_vars, NEW c \in Customers, Exists(c)
  PROVE  /\ customers'[c].phone = customers[c].phone
         /\ customers[c].phone_verified_at # Null => customers'[c].phone_verified_at # Null
<1> USE DEF Inv
<1>1. customers[c] \in Rows
  BY DEF TypeOK, Exists
<1>2. ASSUME NEW p \in People, NEW d \in Customers, NEW n \in Phones, NEW o \in Orders \cup {Null},
             Signup(p, d, n, o)
      PROVE  customers'[c] = customers[c]
  BY <1>2 DEF Signup, TypeOK
<1>3. ASSUME NEW q \in open, NEW ch \in challenges, PhoneVerify(q, ch)
      PROVE  /\ customers'[c].phone = customers[c].phone
             /\ customers[c].phone_verified_at # Null => customers'[c].phone_verified_at # Null
  <2>1. CASE q.customer = c
    <3>1. customers'[c] = [customers[c] EXCEPT !.phone_verified_at = now]
      BY <1>3, <2>1 DEF PhoneVerify, TypeOK
    <3>2. now # Null
      BY Nulls DEF TypeOK
    <3>3. QED
      BY <1>1, <3>1, <3>2 DEF Rows
  <2>2. CASE q.customer # c
    BY <1>3, <2>2 DEF PhoneVerify, TypeOK
  <2>3. QED
    BY <2>1, <2>2
<1>4. CASE customers' = customers
  BY <1>4
<1>5. QED
  BY <1>2, <1>3, <1>4 DEF Next, vars, world, Tick, Reassign, ShareLink, _place_order, claim,
     PhoneChallenge, VerifyRead, End, _claim_order

(* An order that has come to an account stays with it; what an account saw *)
(* by its number alone leaves its history only with a claim.               *)
THEOREM HistoriesStay == Spec => HistoryStays
<1>1. ASSUME Inv, [Next]_vars, NEW c \in Customers, Exists(c),
             NEW o \in visible_orders(c) \ visible_orders(c)'
      PROVE  orders[o].customer = Null /\ orders'[o].customer \notin {Null, c}
  <2>1. o \in Orders /\ orders[o] # Null
    BY DEF visible_orders
  <2>2. orders'[o] # orders[o]
    BY <2>1, <1>1, AccountsKeep DEF visible_orders
  <2>3. orders[o].customer = Null /\ orders'[o] # Null /\ orders'[o].customer \in Customers
    BY <1>1, <2>1, <2>2, OrdersAreLinkedOnce
  <2>4. orders'[o].customer # c
    BY <1>1, <2>1, <2>3 DEF visible_orders
  <2>5. QED
    BY <2>3, <2>4, Nulls
<1>2. Inv /\ [Next]_vars =>
        [\A c \in Customers : Exists(c) => \A o \in visible_orders(c) \ visible_orders(c)' :
           orders[o].customer = Null /\ orders'[o].customer \notin {Null, c}]_vars
  BY <1>1
<1>3. QED
  BY <1>2, Invariance, PTL DEF Spec, HistoryStays
=============================================================================
