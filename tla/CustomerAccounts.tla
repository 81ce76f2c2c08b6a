-------------------------- MODULE CustomerAccounts --------------------------
(***************************************************************************)
(* Shoppers' accounts and the orders they see (api/views/customer.py,      *)
(* api/views/auth.py, api/otp.py).                                         *)
(*                                                                         *)
(* An account is a number and a password; it sees the orders linked to it  *)
(* and, once it has proved to hold the SIM, those which carry its number   *)
(* and are nobody's.  Links are made at checkout, at sign-up or later by   *)
(* who holds the order's tracking token.  The proof of the SIM leaves no   *)
(* row: the client brings a signed challenge back with the code that was   *)
(* texted, and every challenge that is young enough counts.                *)
(*                                                                         *)
(* People hold SIMs and tracking links, and pass both on; a disconnected   *)
(* number goes to somebody else.  Nobody guesses a code (the `otp` rate is *)
(* there for that) and nobody tells one to somebody else.                  *)
(***************************************************************************)
EXTENDS Integers, FiniteSets

CONSTANTS
  People, Phones, Null,
  Customers,       \* ids of accounts
  Orders,
  Codes,           \* bound: the codes that come up, none twice
  OTP_TTL_SECONDS,
  MaxTime,         \* bound: the last tick of the clock
  MaxOpen          \* bound: requests in flight

ASSUME AccountConstants ==
  /\ Null \notin People \cup Phones \cup Customers \cup Orders \cup Int
  /\ OTP_TTL_SECONDS \in Nat /\ MaxTime \in Nat /\ MaxOpen \in Nat

VARIABLES
  now,
  customers,       \* the row of each account, or Null
  orders,          \* `customer_phone` and `customer` of each order, or Null
  challenges,      \* signed challenges in the hands of clients
  open,            \* requests between what they read or wrote first and their end
  person,          \* external: who has the password of each account
  sim,             \* external: who holds the SIM of each number
  links,           \* external: who has the tracking token of which order
  texts            \* external: the codes each person was texted, with the time

vars == <<now, customers, orders, challenges, open, person, sim, links, texts>>
world == <<now, person, sim, links, texts>>

Time == 0 .. MaxTime
Rows == [phone : Phones, phone_verified_at : Time \cup {Null}]
OrderRows == [customer_phone : Phones, customer : Customers \cup {Null}]
Challenges == [customer : Customers, phone : Phones, code : Codes, issued : Time]

ASSUME NullIsNoRow == Null \notin Rows \cup OrderRows

(* A sign-up between its two commits, and a verification that has read the *)
(* row of its account as not verified. *)
Requests == [kind : {"sign-up"}, customer : Customers, order : Orders]
       \cup [kind : {"verify"}, customer : Customers]

TypeOK ==
  /\ now \in Time
  /\ customers \in [Customers -> Rows \cup {Null}]
  /\ orders \in [Orders -> OrderRows \cup {Null}]
  /\ challenges \subseteq Challenges
  /\ open \subseteq Requests
  /\ person \in [Customers -> People \cup {Null}]
  /\ sim \in [Phones -> People]
  /\ links \subseteq People \X Orders
  /\ texts \subseteq People \X Codes \X Phones \X Time
  /\ \A c \in Customers : customers[c] = Null <=> person[c] = Null
  /\ \A o \in Orders : orders[o] # Null /\ orders[o].customer # Null =>
       customers[orders[o].customer] # Null

Init ==
  /\ now = 0
  /\ customers = [c \in Customers |-> Null]
  /\ orders = [o \in Orders |-> Null]
  /\ challenges = {} /\ open = {}
  /\ person = [c \in Customers |-> Null]
  /\ sim \in [Phones -> People]
  /\ links = {} /\ texts = {}

-----------------------------------------------------------------------------
(* The world. *)

Tick ==
  /\ now < MaxTime
  /\ now' = now + 1
  /\ UNCHANGED <<customers, orders, challenges, open, person, sim, links, texts>>

Reassign(n, p) ==
  /\ sim' = [sim EXCEPT ![n] = p]
  /\ UNCHANGED <<now, customers, orders, challenges, open, person, links, texts>>

ShareLink(p, q, o) ==
  /\ <<p, o>> \in links
  /\ links' = links \cup {<<q, o>>}
  /\ UNCHANGED <<now, customers, orders, challenges, open, person, sim, texts>>

-----------------------------------------------------------------------------
(* Orders and their links. *)

Exists(c) == customers[c] # Null

(* Anybody orders under any number, as a guest or signed in; the answer has *)
(* the tracking token. *)
_place_order(p, o, n, c) ==
  /\ orders[o] = Null
  /\ c # Null => person[c] = p
  /\ orders' = [orders EXCEPT ![o] = [customer_phone |-> n, customer |-> c]]
  /\ links' = links \cup {<<p, o>>}
  /\ UNCHANGED <<now, customers, challenges, open, person, sim, texts>>

Unclaimed(o) == orders[o] # Null /\ orders[o].customer = Null

Linked(o, c) == [orders EXCEPT ![o].customer = c]

(* Mutant: looked up by token, then saved. *)
claim_any(c, o) ==
  /\ Exists(c) /\ orders[o] # Null /\ <<person[c], o>> \in links
  /\ orders' = Linked(o, c)
  /\ UNCHANGED <<world, customers, challenges, open>>

(* One UPDATE of the orders with this token that are nobody's.  A second   *)
(* tap finds the order already theirs; everybody else is told 404.         *)
claim(c, o) ==
  /\ Exists(c) /\ Unclaimed(o) /\ <<person[c], o>> \in links
  /\ orders' = Linked(o, c)
  /\ UNCHANGED <<world, customers, challenges, open>>

-----------------------------------------------------------------------------
(* Sign-up. *)

Free(n) == \A c \in Customers : Exists(c) => customers[c].phone # n

(* The first commit: the account, one for each number (409 otherwise).     *)
Signup(p, c, n, o) ==
  /\ ~Exists(c) /\ Free(n) /\ Cardinality(open) < MaxOpen
  /\ o # Null => <<p, o>> \in links
  /\ customers' = [customers EXCEPT ![c] = [phone |-> n, phone_verified_at |-> Null]]
  /\ person' = [person EXCEPT ![c] = p]
  /\ open' = IF o = Null THEN open
             ELSE open \cup {[kind |-> "sign-up", customer |-> c, order |-> o]}
  /\ UNCHANGED <<now, orders, challenges, sim, links, texts>>

Close(q) == q \in open /\ open' = open \ {q}

(* The second: the order named, unless it is somebody's by now.            *)
_claim_order(q) ==
  /\ Close(q) /\ q.kind = "sign-up"
  /\ orders' = IF Unclaimed(q.order) THEN Linked(q.order, q.customer) ELSE orders
  /\ UNCHANGED <<world, customers, challenges>>

-----------------------------------------------------------------------------
(* The proof of the SIM. *)

(* A code nobody was texted before goes to who holds the SIM now, and the  *)
(* challenge to the client. *)
PhoneChallenge(c, code) ==
  /\ Exists(c) /\ customers[c].phone_verified_at = Null
  /\ \A t \in texts : t[2] # code
  /\ LET n == customers[c].phone IN
       /\ texts' = texts \cup {<<sim[n], code, n, now>>}
       /\ challenges' = challenges \cup
            {[customer |-> c, phone |-> n, code |-> code, issued |-> now]}
  /\ UNCHANGED <<now, customers, orders, open, person, sim, links>>

(* Mutant: no expiry. *)
check_forever(ch, code, c) ==
  ch.code = code /\ ch.customer = c /\ ch.phone = customers[c].phone

check(ch, code, c) ==
  /\ now - ch.issued <= OTP_TTL_SECONDS
  /\ ch.customer = c /\ ch.phone = customers[c].phone
  /\ ch.code = code

(* The account is read as the caller's token names it. *)
VerifyRead(c) ==
  /\ Exists(c) /\ customers[c].phone_verified_at = Null /\ Cardinality(open) < MaxOpen
  /\ open' = open \cup {[kind |-> "verify", customer |-> c]}
  /\ UNCHANGED <<world, customers, orders, challenges>>

(* Whoever has the password brings any challenge and a code they were      *)
(* texted; only the stamp is saved. *)
PhoneVerify(q, ch) ==
  /\ Close(q) /\ q.kind = "verify"
  /\ \E t \in texts : t[1] = person[q.customer] /\ check(ch, t[2], q.customer)
  /\ customers' = [customers EXCEPT ![q.customer].phone_verified_at = now]
  /\ UNCHANGED <<world, orders, challenges>>

(* 400, or the worker dies. *)
End(q) == Close(q) /\ UNCHANGED <<world, customers, orders, challenges>>

-----------------------------------------------------------------------------
(* Mutant: everything that carries the number. *)
visible_by_number(c) ==
  {o \in Orders : orders[o] # Null /\
     \/ orders[o].customer = c
     \/ customers[c].phone_verified_at # Null /\ orders[o].customer_phone = customers[c].phone}

visible_orders(c) ==
  {o \in Orders : orders[o] # Null /\
     \/ orders[o].customer = c
     \/ /\ customers[c].phone_verified_at # Null
        /\ orders[o].customer = Null
        /\ orders[o].customer_phone = customers[c].phone}

Next ==
  \/ Tick
  \/ \E n \in Phones, p \in People : Reassign(n, p)
  \/ \E p, q \in People, o \in Orders : ShareLink(p, q, o)
  \/ \E p \in People, o \in Orders, n \in Phones, c \in Customers \cup {Null} : _place_order(p, o, n, c)
  \/ \E c \in Customers, o \in Orders : claim(c, o)
  \/ \E p \in People, c \in Customers, n \in Phones, o \in Orders \cup {Null} : Signup(p, c, n, o)
  \/ \E c \in Customers, code \in Codes : PhoneChallenge(c, code)
  \/ \E c \in Customers : VerifyRead(c)
  \/ \E q \in open : _claim_order(q) \/ End(q) \/ \E ch \in challenges : PhoneVerify(q, ch)

Spec == Init /\ [][Next]_vars

-----------------------------------------------------------------------------
(* No order is in the histories of two accounts: the links, the numbers    *)
(* and the rule for orders that are nobody's never overlap ("an order      *)
(* already belonging to somebody is never matched by a phone number").     *)
SeenByOne ==
  \A c, d \in Customers : Exists(c) /\ Exists(d) /\ c # d =>
    visible_orders(c) \cap visible_orders(d) = {}

(* What an account sees, its holder may see: they have the tracking token, *)
(* or had the SIM when the account was stamped or at most the lifetime of  *)
(* a code before ("possession of the SIM has to be the thing being proved").*)
SeesOnEvidence ==
  \A c \in Customers : Exists(c) => \A o \in visible_orders(c) :
    \/ <<person[c], o>> \in links
    \/ \E t \in texts :
         /\ t[1] = person[c] /\ t[3] = orders[o].customer_phone
         /\ t[4] <= customers[c].phone_verified_at
         /\ customers[c].phone_verified_at <= t[4] + OTP_TTL_SECONDS

(* An order that has come to an account stays with it, whoever holds the   *)
(* token and however requests race; and what an account has once seen by   *)
(* its number alone leaves its history only when somebody claims it.       *)
HistoryStays ==
  [][\A c \in Customers : Exists(c) => \A o \in visible_orders(c) \ visible_orders(c)' :
       orders[o].customer = Null /\ orders'[o].customer \notin {Null, c}]_vars
=============================================================================
