--------------------------- MODULE AccountsProofs ---------------------------
(***************************************************************************)
(* Proofs about the accounts of staff: first Sessions, then Admins.        *)
(*                                                                         *)
(* About Sessions, for every number of tokens, requests, changes of secret *)
(* and ticks.  That sessions end holds for every kind of account; that     *)
(* retired tokens are dead holds where nobody saves a stale version, which *)
(* is everybody but riders; that a reset is complete holds where the secret*)
(* and the version change under one lock, which is staff accounts.         *)
(***************************************************************************)
EXTENDS Sessions, Admins, TLAPS

(* The claim says when the session began, and no token outlives the        *)
(* ceiling by more than one token's life.                                  *)
Ceiling ==
  /\ \A t \in tokens : t.ait = t.began /\ t.exp <= t.began + SessionMax + TokenLife
  /\ \A q \in open : q.ait = q.began

(* Nothing is newer than the row, and what was retired is older. *)
Generations ==
  /\ \A t \in tokens : t.ver <= version
  /\ \A t \in retired : t.ver < version
  /\ \A q \in open : q.row.version <= version /\ q.op \notin {"put", "pin", "bump"}

(* What carries the row's version carries its secret. *)
Secrets ==
  /\ \A t \in tokens : t.ver = version => t.secret = secret
  /\ \A q \in open : q.row.version = version => q.row.secret = secret
  /\ \A q \in open : q.op \notin {"change", "renew"}

-----------------------------------------------------------------------------
(* Every variable keeps its type. *)
THEOREM TypeCorrect == Spec => []TypeOK
<1>1. Init => TypeOK
  BY DEF Init, TypeOK
<1>2. ASSUME TypeOK, [Next]_vars PROVE TypeOK'
  <2> USE <1>2 DEF TypeOK
  <2>1. Row \in Rows
    BY DEF Row, Rows
  <2>2. ASSUME NEW q \in open
        PROVE  q \in Requests /\ q.row \in Rows /\ q.ait \in Nat /\ q.began \in Nat
    BY DEF Requests
  <2>3. ASSUME Retire PROVE version' \in Nat /\ retired' = tokens
    BY <2>3 DEF Retire
  <2>4. ASSUME NewSecret PROVE secret' \in Nat
    BY <2>4 DEF NewSecret
  <2>5. ASSUME NEW row \in Rows, NEW ait \in Nat, NEW began \in Nat,
               create_access_token(row, ait, began)
        PROVE  tokens' \subseteq Tokens /\ tokens \subseteq tokens'
    <3>1. Token(row, ait, began) \in Tokens
      BY SessionsConstants DEF Token, Tokens, Rows
    <3>2. QED
      BY <2>5, <3>1 DEF create_access_token
  <2>a. ASSUME NEW op \in {"login", "refresh", "logout", "change", "put"},
               NEW row \in Rows, NEW ait \in Nat, NEW began \in Nat
        PROVE  Request(op, row, ait, began) \in Requests
    BY DEF Request, Requests
  <2>6. ASSUME Login PROVE TypeOK'
    <3>1. Request("login", Row, 0, 0) \in Requests
      BY <2>1, <2>a
    <3>2. open' \subseteq Requests
      BY <2>6, <3>1 DEF Login, Begin
    <3>3. QED
      BY <2>6, <3>2 DEF Login
  <2>7. ASSUME NEW t \in tokens, TokenStep(t) PROVE TypeOK'
    <3>1. PICK op \in {"refresh", "logout", "change"} : Authenticate(t, op)
      BY <2>7 DEF TokenStep
    <3>2. t.secret \in Nat /\ t.ait \in Nat /\ t.began \in Nat
      BY DEF Tokens
    <3>3. [Row EXCEPT !.secret = t.secret] \in Rows
      BY <3>2 DEF Row, Rows
    <3>4. Request(op, [Row EXCEPT !.secret = t.secret], t.ait, t.began) \in Requests
      BY <2>a, <3>2, <3>3
    <3>5. open' \subseteq Requests
      BY <3>1, <3>4 DEF Authenticate, Begin
    <3>6. QED
      BY <3>1, <3>5 DEF Authenticate
  <2>8. ASSUME NEW q \in open, RequestStep(q) PROVE TypeOK'
    <3>1. CASE Mint(q)
      BY <3>1, <2>2, <2>5 DEF Mint
    <3>2. CASE Drop(q)
      BY <3>2 DEF Drop
    <3>3. CASE Logout(q)
      BY <3>3, <2>3 DEF Logout
    <3>4. CASE ChangePassword(q)
      <4>0. NewRow(q) \in Rows
        BY <2>2 DEF NewRow, Rows
      <4>1. [q EXCEPT !.op = "renew", !.row = NewRow(q)] \in Requests
        BY <2>2, <4>0 DEF Requests
      <4>2. QED
        BY <3>4, <2>3, <2>4, <4>1 DEF ChangePassword
    <3>5. CASE RefreshFromDb(q)
      <4>1. [Row EXCEPT !.secret = q.row.secret] \in Rows
        BY <2>1, <2>2 DEF Rows
      <4>2. QED
        BY <3>5, <2>5, <4>1 DEF RefreshFromDb
    <3>6. CASE PutSave(q)
      <4>1. [q EXCEPT !.op = "pin"] \in Requests
        BY <2>2 DEF Requests
      <4>2. q.row.active \in BOOLEAN /\ q.row.version \in Nat /\ q.row.secret \in Nat
        BY <2>2 DEF Rows
      <4>3. QED
        BY <3>6, <4>1, <4>2 DEF PutSave
    <3>7. CASE PutPin(q)
      <4>1. [q EXCEPT !.op = "bump"] \in Requests
        BY <2>2 DEF Requests
      <4>2. QED
        BY <3>7, <2>4, <4>1 DEF PutPin
    <3>8. CASE PutBump(q)
      BY <3>8, <2>3 DEF PutBump
    <3>9. QED
      BY <2>8, <3>1, <3>2, <3>3, <3>4, <3>5, <3>6, <3>7, <3>8 DEF RequestStep
  <2>9. ASSUME NEW to \in Settings, NEW reset \in BOOLEAN, ManagerStep(to, reset)
        PROVE  TypeOK'
    <3>1. CASE PutAdmin(to, reset)
      <4>1. Set(to, active) \in BOOLEAN
        BY DEF Set
      <4>2. QED
        BY <3>1, <2>3, <2>4, <4>1 DEF PutAdmin
    <3>2. CASE PutRead(to, reset)
      <4> DEFINE row == [Row EXCEPT !.active = Set(to, active)]
      <4>0. row \in Rows
        BY <2>1 DEF Rows, Set
      <4>1. [Request("put", row, 0, 0) EXCEPT !.reset = reset] \in Requests
        BY <4>0 DEF Request, Requests
      <4>2. QED
        BY <3>2, <4>1 DEF PutRead, Begin
    <3>3. QED
      BY <2>9, <3>1, <3>2 DEF ManagerStep
  <2>10. CASE Dismiss
    BY <2>10 DEF Dismiss
  <2>11. CASE Tick
    BY <2>11 DEF Tick
  <2>12. CASE UNCHANGED vars
    BY <2>12 DEF vars
  <2>13. QED
    BY <2>6, <2>7, <2>8, <2>9, <2>10, <2>11, <2>12 DEF Next
<1>3. QED
  BY <1>1, <1>2, PTL DEF Spec

-----------------------------------------------------------------------------
(* Renewal has a ceiling: no session of any account is accepted for longer *)
(* than SESSION_MAX_HOURS and one token's life, however often the apps     *)
(* refresh it (`renewable_session`).                                       *)
THEOREM EverySessionEnds == Spec => []SessionsEnd
<1>1. Init => Ceiling
  BY DEF Init, Ceiling
<1>2. ASSUME TypeOK, TypeOK', Ceiling, [Next]_vars PROVE Ceiling'
  <2> USE <1>2 DEF TypeOK
  <2>1. ASSUME tokens' = tokens, \A q \in open' : q.ait = q.began PROVE Ceiling'
    BY <2>1 DEF Ceiling
  <2>2. ASSUME NEW row, NEW ait \in Nat, now - ait <= SessionMax,
               create_access_token(row, ait, ait), open' \subseteq open
        PROVE  Ceiling'
    <3>1. now + TokenLife <= ait + SessionMax + TokenLife
      BY <2>2, SessionsConstants
    <3>2. QED
      BY <2>2, <3>1 DEF Ceiling, create_access_token, Token
  <2>3. CASE tokens' = tokens /\ open' \subseteq open
    BY <2>1, <2>3 DEF Ceiling
  <2>4. ASSUME NEW q, q.ait = q.began, Begin(q), tokens' = tokens PROVE Ceiling'
    BY <2>1, <2>4 DEF Ceiling, Begin
  <2>5. ASSUME NEW q \in open, NEW p \in Requests, p.ait = q.ait, p.began = q.began,
               open' \subseteq (open \ {q}) \cup {p}, tokens' = tokens
        PROVE  Ceiling'
    BY <2>1, <2>5 DEF Ceiling
  <2>6. now - now <= SessionMax
    BY SessionsConstants
  <2>7. CASE Login
    <3>1. Request("login", Row, 0, 0).ait = Request("login", Row, 0, 0).began
      BY DEF Request
    <3>2. QED
      BY <2>4, <2>7, <3>1 DEF Login
  <2>8. ASSUME NEW t \in tokens, TokenStep(t) PROVE Ceiling'
    <3>1. PICK op \in {"refresh", "logout", "change"} : Authenticate(t, op)
      BY <2>8 DEF TokenStep
    <3> DEFINE q == Request(op, [Row EXCEPT !.secret = t.secret], t.ait, t.began)
    <3>2. q.ait = q.began
      BY DEF Request, Ceiling
    <3>3. Begin(q) /\ tokens' = tokens
      BY <3>1 DEF Authenticate
    <3> HIDE DEF q
    <3>4. QED
      BY <2>4, <3>2, <3>3
  <2>9. ASSUME NEW q \in open, RequestStep(q) PROVE Ceiling'
    <3>1. q \in Requests /\ q.ait \in Nat /\ q.ait = q.began
      BY DEF Requests, Ceiling
    <3>2. CASE Mint(q)
      <4>1. CASE q.op = "refresh"
        BY <2>2, <3>1, <3>2, <4>1 DEF Mint, Renewable
      <4>2. CASE q.op # "refresh"
        BY <2>2, <2>6, <3>2, <4>2 DEF Mint
      <4>3. QED
        BY <4>1, <4>2
    <3>3. CASE Drop(q) \/ Logout(q) \/ PutBump(q)
      BY <2>3, <3>3 DEF Drop, Logout, PutBump
    <3>4. CASE ChangePassword(q)
      <4>1. [q EXCEPT !.op = "renew", !.row = NewRow(q)] \in Requests
        <5>1. open' \subseteq Requests
          OBVIOUS
        <5>2. QED
          BY <3>4, <5>1 DEF ChangePassword
      <4>2. QED
        BY <2>5, <3>1, <3>4, <4>1 DEF ChangePassword, Requests
    <3>5. CASE RefreshFromDb(q)
      BY <2>2, <2>6, <3>5 DEF RefreshFromDb
    <3>6. CASE PutSave(q)
      BY <2>5, <3>1, <3>6 DEF PutSave, Requests
    <3>7. CASE PutPin(q)
      BY <2>5, <3>1, <3>7 DEF PutPin, Requests
    <3>8. QED
      BY <2>9, <3>2, <3>3, <3>4, <3>5, <3>6, <3>7 DEF RequestStep
  <2>10. ASSUME NEW to \in Settings, NEW reset \in BOOLEAN, ManagerStep(to, reset)
         PROVE  Ceiling'
    <3>1. CASE PutAdmin(to, reset)
      BY <2>3, <3>1 DEF PutAdmin
    <3>2. CASE PutRead(to, reset)
      <4> DEFINE q == [Request("put", [Row EXCEPT !.active = Set(to, active)], 0, 0) EXCEPT !.reset = reset]
      <4>1. q.ait = q.began
        BY DEF Request
      <4>2. Begin(q) /\ tokens' = tokens
        BY <3>2 DEF PutRead
      <4> HIDE DEF q
      <4>3. QED
        BY <2>4, <4>1, <4>2
    <3>3. QED
      BY <2>10, <3>1, <3>2 DEF ManagerStep
  <2>11. CASE Dismiss \/ Tick \/ UNCHANGED vars
    BY <2>3, <2>11 DEF Dismiss, Tick, vars
  <2>12. QED
    BY <2>7, <2>8, <2>9, <2>10, <2>11 DEF Next
<1>3. TypeOK /\ Ceiling => SessionsEnd
  <2> SUFFICES ASSUME TypeOK, Ceiling, NEW t \in tokens, Accepted(t)
               PROVE  now - t.began < SessionMax + TokenLife
    BY DEF SessionsEnd
  <2>1. t.exp \in Nat /\ t.began \in Nat /\ now \in Nat
    BY DEF TypeOK, Tokens
  <2>2. now < t.exp /\ t.exp <= t.began + SessionMax + TokenLife
    BY DEF Accepted, Ceiling
  <2>3. QED
    BY <2>1, <2>2, SessionsConstants
<1>4. QED
  BY <1>1, <1>2, <1>3, TypeCorrect, PTL DEF Spec

-----------------------------------------------------------------------------
(* An account stays of the kind it is. *)
LEMMA KindStays ==
  ASSUME [Next]_vars
  PROVE  kind' = kind
<1>1. ASSUME NEW t \in tokens, TokenStep(t) PROVE kind' = kind
  BY <1>1 DEF TokenStep, Authenticate
<1>2. ASSUME NEW q \in open, RequestStep(q) PROVE kind' = kind
  BY <1>2 DEF RequestStep, Mint, Drop, Logout, ChangePassword, RefreshFromDb, PutSave, PutPin, PutBump
<1>3. ASSUME NEW to \in Settings, NEW reset \in BOOLEAN, ManagerStep(to, reset)
      PROVE  kind' = kind
  BY <1>3 DEF ManagerStep, PutAdmin, PutRead
<1>4. QED
  BY <1>1, <1>2, <1>3 DEF Next, Login, Dismiss, Tick, vars

(* A row's version never falls where no stale copy of the row is saved, so *)
(* a generation that was retired is never current again.                   *)
LEMMA GenerationsKept ==
  ASSUME kind # "rider", TypeOK, Generations, [Next]_vars
  PROVE  Generations'
<1> USE DEF TypeOK
<1>1. ASSUME NEW q \in open
      PROVE  q.row.version \in Nat /\ q.row.version <= version
             /\ q.op \notin {"put", "pin", "bump"}
  BY DEF Requests, Rows, Generations
<1>2. \A t \in tokens : t.ver \in Nat
  BY DEF Tokens
<1>3. CASE UNCHANGED <<version, tokens, retired>> /\ open' \subseteq open
  BY <1>3 DEF Generations
<1>4. ASSUME Retire, tokens' = tokens,
             \A q \in open' : q.op \notin {"put", "pin", "bump"} /\ q.row.version \in Nat
                              /\ q.row.version <= version
      PROVE  Generations'
  <2>1. version' = version + 1 /\ retired' = tokens
    BY <1>4 DEF Retire
  <2>2. \A t \in tokens : t.ver <= version /\ t.ver < version + 1
    BY <1>2 DEF Generations
  <2>3. \A q \in open' : q.row.version <= version + 1
    BY <1>4
  <2>4. QED
    BY <1>2, <1>4, <2>1, <2>2, <2>3 DEF Generations
<1>5. ASSUME NEW row, NEW ait, NEW began, row.version <= version,
             create_access_token(row, ait, began),
             UNCHANGED <<version, retired>>, open' \subseteq open
      PROVE  Generations'
  BY <1>5 DEF Generations, create_access_token, Token
<1>6. ASSUME NEW q \in Requests, q.op \notin {"put", "pin", "bump"}, q.row.version <= version,
             Begin(q), UNCHANGED <<version, tokens, retired>>
      PROVE  Generations'
  BY <1>6 DEF Generations, Begin
<1>7. CASE Login
  <2>1. Request("login", Row, 0, 0) \in Requests
    BY DEF Request, Requests, Row, Rows
  <2>2. Request("login", Row, 0, 0).row.version = version /\ Request("login", Row, 0, 0).op = "login"
    BY DEF Request, Row
  <2>3. QED
    BY <1>6, <1>7, <2>1, <2>2 DEF Login
<1>8. ASSUME NEW t \in tokens, TokenStep(t) PROVE Generations'
  <2>1. PICK op \in {"refresh", "logout", "change"} : Authenticate(t, op)
    BY <1>8 DEF TokenStep
  <2> DEFINE q == Request(op, [Row EXCEPT !.secret = t.secret], t.ait, t.began)
  <2>2. t.secret \in Nat /\ t.ait \in Nat /\ t.began \in Nat
    BY DEF Tokens
  <2>3. [Row EXCEPT !.secret = t.secret] \in Rows
    BY <2>2 DEF Row, Rows
  <2>4. q \in Requests
    BY <2>2, <2>3 DEF Request, Requests
  <2>5. q.op = op /\ q.row.version = version
    BY DEF Request, Row
  <2>6. Begin(q) /\ UNCHANGED <<version, tokens, retired>>
    BY <2>1 DEF Authenticate
  <2> HIDE DEF q
  <2>7. QED
    BY <1>6, <2>4, <2>5, <2>6
<1>9. ASSUME NEW q \in open, RequestStep(q) PROVE Generations'
  <2>1. CASE Mint(q)
    BY <1>1, <1>5, <2>1 DEF Mint
  <2>2. CASE Drop(q)
    BY <1>3, <2>2 DEF Drop
  <2>3. CASE Logout(q)
    BY <1>1, <1>4, <2>3 DEF Logout
  <2>4. CASE ChangePassword(q)
    <3> DEFINE n == [q EXCEPT !.op = "renew", !.row = NewRow(q)]
    <3>1. q \in Requests /\ q.row \in Rows
      BY DEF Requests
    <3>2. NewRow(q).version = q.row.version
      BY <3>1 DEF NewRow, Rows
    <3>3. n.op = "renew" /\ n.row = NewRow(q)
      BY <3>1 DEF Requests
    <3>4. open' = (open \ {q}) \cup {n} /\ Retire /\ tokens' = tokens
      BY <2>4 DEF ChangePassword
    <3> HIDE DEF n
    <3>5. QED
      BY <1>1, <1>4, <3>2, <3>3, <3>4
  <2>5. CASE RefreshFromDb(q)
    <3>1. [Row EXCEPT !.secret = q.row.secret].version <= version
      BY DEF Row
    <3>2. QED
      BY <1>5, <2>5, <3>1 DEF RefreshFromDb
  <2>6. QED
    BY <1>1, <1>9, <2>1, <2>2, <2>3, <2>4, <2>5 DEF RequestStep, PutSave, PutPin, PutBump
<1>10. ASSUME NEW to \in Settings, NEW reset \in BOOLEAN, ManagerStep(to, reset)
       PROVE  Generations'
  BY <1>1, <1>3, <1>4, <1>10 DEF ManagerStep, PutAdmin, PutRead
<1>11. QED
  BY <1>3, <1>7, <1>8, <1>9, <1>10 DEF Next, Dismiss, Tick, vars

(* Signing out, a password change and a reset are final for every token    *)
(* that was out, of every staff and customer account: no later request,    *)
(* whatever it had read before, brings one back.                           *)
THEOREM RetiredTokensAreDead == Spec => []RetiredStaysRetired
<1> DEFINE IInv == kind # "rider" => Generations
<1>1. Init => IInv
  BY DEF Init, Generations
<1>2. TypeOK /\ IInv /\ [Next]_vars => IInv'
  BY KindStays, GenerationsKept
<1>3. TypeOK /\ IInv => RetiredStaysRetired
  <2> SUFFICES ASSUME TypeOK, Generations, NEW t \in retired
               PROVE  ~Accepted(t)
    BY DEF RetiredStaysRetired
  <2>1. t.ver < version /\ version \in Nat /\ t.ver \in Nat
    BY DEF Generations, TypeOK, Tokens
  <2>2. QED
    BY <2>1 DEF Accepted
<1> HIDE DEF IInv
<1>4. QED
  BY <1>1, <1>2, <1>3, TypeCorrect, PTL DEF Spec

-----------------------------------------------------------------------------
(* Of a staff account, the version and the password change together, so    *)
(* what carries the one carries the other.                                 *)
LEMMA SecretsKept ==
  ASSUME kind = "admin", TypeOK, TypeOK', Generations, Secrets, [Next]_vars
  PROVE  Secrets'
<1> USE DEF TypeOK
<1>1. ASSUME NEW q \in open
      PROVE  q.op \notin {"put", "pin", "bump", "change", "renew"}
  BY DEF Generations, Secrets
<1>2. \A t \in tokens : t.ver \in Nat
  BY DEF Tokens
<1>3. \A q \in open : q.row.version \in Nat
  BY DEF Requests, Rows
<1>4. CASE UNCHANGED <<version, secret, tokens>> /\ open' \subseteq open
  BY <1>4 DEF Secrets
<1>5. ASSUME Retire, UNCHANGED tokens, open' \subseteq open
      PROVE  Secrets'
  <2>1. version' = version + 1
    BY <1>5 DEF Retire
  <2>2. \A t \in tokens : t.ver # version + 1
    BY <1>2 DEF Generations
  <2>3. \A q \in open : q.row.version # version + 1
    BY <1>3 DEF Generations
  <2>4. QED
    BY <1>5, <2>1, <2>2, <2>3 DEF Secrets
<1>6. ASSUME NEW q, q.row.version = version => q.row.secret = secret,
             q.op \notin {"change", "renew"}, Begin(q), UNCHANGED <<version, secret, tokens>>
      PROVE  Secrets'
  BY <1>6 DEF Secrets, Begin
<1>7. CASE Login
  <2> DEFINE q == Request("login", Row, 0, 0)
  <2>1. q.op = "login" /\ q.row.secret = secret
    BY DEF Request, Row
  <2>2. Begin(q) /\ UNCHANGED <<version, secret, tokens>>
    BY <1>7 DEF Login
  <2> HIDE DEF q
  <2>3. QED
    BY <1>6, <2>1, <2>2
<1>8. ASSUME NEW t \in tokens, TokenStep(t) PROVE Secrets'
  <2>1. PICK op \in {"refresh", "logout", "change"} : Authenticate(t, op)
    BY <1>8 DEF TokenStep
  <2> DEFINE q == Request(op, [Row EXCEPT !.secret = t.secret], t.ait, t.began)
  <2>2. op # "change" /\ Accepted(t)
    BY <2>1 DEF Authenticate
  <2>3. t.secret = secret
    BY <2>2 DEF Accepted, Secrets
  <2>4. q.op = op /\ q.row.secret = t.secret
    BY DEF Request, Row
  <2>5. Begin(q) /\ UNCHANGED <<version, secret, tokens>>
    BY <2>1 DEF Authenticate
  <2> HIDE DEF q
  <2>6. QED
    BY <1>6, <2>1, <2>2, <2>3, <2>4, <2>5
<1>9. ASSUME NEW q \in open, RequestStep(q) PROVE Secrets'
  <2>1. CASE Mint(q)
    BY <2>1 DEF Mint, create_access_token, Token, Secrets
  <2>2. CASE Drop(q)
    BY <1>4, <2>2 DEF Drop
  <2>3. CASE Logout(q)
    BY <1>5, <2>3 DEF Logout
  <2>4. QED
    BY <1>1, <1>9, <2>1, <2>2, <2>3
    DEF RequestStep, ChangePassword, RefreshFromDb, PutSave, PutPin, PutBump
<1>10. ASSUME NEW to \in Settings, NEW reset \in BOOLEAN, ManagerStep(to, reset)
       PROVE  Secrets'
  <2>1. PutAdmin(to, reset)
    BY <1>10 DEF ManagerStep, PutRead
  <2>2. CASE reset
    BY <1>5, <2>1, <2>2 DEF PutAdmin
  <2>3. CASE ~reset
    BY <1>4, <2>1, <2>3 DEF PutAdmin
  <2>4. QED
    BY <2>2, <2>3
<1>11. CASE Dismiss
  BY <1>4, <1>11 DEF Dismiss
<1>12. CASE Tick
  BY <1>4, <1>12 DEF Tick
<1>13. CASE UNCHANGED vars
  BY <1>4, <1>13 DEF vars
<1>14. QED
  BY <1>7, <1>8, <1>9, <1>10, <1>11, <1>12, <1>13 DEF Next

(* A staff password reset is complete: whatever sign-in or renewal was in  *)
(* flight, nothing obtained with the old password is accepted after it     *)
(* (`AdminDetailView.put`, one transaction under the row's lock).          *)
THEOREM ResetsAreComplete == Spec => []OldSecretIsOut
<1> DEFINE IInv == kind = "admin" => Generations /\ Secrets
<1>1. Init => IInv
  BY DEF Init, Generations, Secrets
<1>2. TypeOK /\ TypeOK' /\ IInv /\ [Next]_vars => IInv'
  BY KindStays, GenerationsKept, SecretsKept
<1>3. IInv => OldSecretIsOut
  BY DEF Secrets, OldSecretIsOut, Accepted
<1> HIDE DEF IInv
<1>4. QED
  BY <1>1, <1>2, <1>3, TypeCorrect, PTL DEF Spec

-----------------------------------------------------------------------------
(***************************************************************************)
(* Proofs about Admins, for every set of accounts and every number of      *)
(* requests in flight.  The guard of one transaction looks at rows it does *)
(* not hold, so what it saw lasts only while nobody else takes an Admin    *)
(* away; what it reads of its own row lasts because it holds that row.     *)
(***************************************************************************)

(* One transaction holds a row, the row is there, and it says what the     *)
(* transaction read of it.                                                 *)
OneHolder ==
  \A p, q \in edits : p.locked /\ q.locked /\ p.target = q.target => p = q

Exists ==
  \A q \in edits : /\ role[q.target] # "none"
                   /\ q.locked => q.row.role # "none"

Reads == \A q \in edits : q.locked => q.row = Wanted(q.target, q.wish)

OwnRows == OneHolder /\ Exists /\ Reads

(* A transaction past the guard that takes an Admin away. *)
Taking(q) == q.locked /\ Loses(q.target, q.row)

(* Unless two of those overlapped, there is one at most, and the other     *)
(* Admin it saw is still there.                                            *)
Guarded ==
  overlapped \/ /\ \E a \in Accounts : Administers(a)
                /\ \A p, q \in edits : Taking(p) /\ Taking(q) => p = q
                /\ \A q \in edits : Taking(q) => other_active_admins(q.target) # {}

-----------------------------------------------------------------------------
(* Every variable keeps its type. *)
THEOREM AdminsTypeCorrect == AdminsSpec => []AdminsTypeOK
<1>1. AdminsInit => AdminsTypeOK
  BY DEF AdminsInit, AdminsTypeOK
<1>2. ASSUME AdminsTypeOK, [AdminsNext]_adminsVars PROVE AdminsTypeOK'
  <2> USE <1>2 DEF AdminsTypeOK
  <2>1. ASSUME NEW t \in Accounts, NEW wish \in Wishes
        PROVE  Wanted(t, wish) \in [role : Roles \cup {"none"}, is_active : BOOLEAN]
    BY DEF Wanted, Wishes
  <2>2. ASSUME NEW c \in Accounts, AccountStep(c) PROVE AdminsTypeOK'
    <3>1. ASSUME NEW t \in Accounts, NEW wish \in Wishes, get_admin(c, t, wish)
          PROVE  AdminsTypeOK'
      <4>1. [caller |-> c, target |-> t, wish |-> wish, locked |-> FALSE, row |-> NoRow] \in Edits
        BY DEF Edits, NoRow
      <4>2. QED
        BY <3>1, <4>1 DEF get_admin
    <3>2. ASSUME NEW a \in Accounts, NEW r \in Roles, NEW on \in BOOLEAN, Create(c, a, r, on)
          PROVE  AdminsTypeOK'
      BY <3>2 DEF Create
    <3>3. QED
      BY <2>2, <3>1, <3>2 DEF AccountStep
  <2>3. ASSUME NEW q \in edits, EditStep(q) PROVE AdminsTypeOK'
    <3>1. /\ q.target \in Accounts /\ q.wish \in Wishes
          /\ q.row.role \in Roles \cup {"none"} /\ q.row.is_active \in BOOLEAN
      BY DEF Edits
    <3>2. CASE Lock(q)
      <4>1. [q EXCEPT !.locked = TRUE, !.row = Wanted(q.target, q.wish)] \in Edits
        BY <2>1, <3>1 DEF Edits
      <4>2. overlapped' \in BOOLEAN
        BY <3>2 DEF Lock
      <4>3. QED
        BY <3>2, <4>1, <4>2 DEF Lock
    <3>3. CASE End(q)
      BY <3>3 DEF End
    <3>4. CASE Commit(q)
      BY <3>1, <3>4 DEF Commit
    <3>5. QED
      BY <2>3, <3>2, <3>3, <3>4 DEF EditStep
  <2>4. CASE UNCHANGED adminsVars
    BY <2>4 DEF adminsVars
  <2>5. QED
    BY <2>2, <2>3, <2>4 DEF AdminsNext
<1>3. QED
  BY <1>1, <1>2, PTL DEF AdminsSpec

-----------------------------------------------------------------------------
(* What a transaction read of the row it holds stays true until it ends.   *)
LEMMA RowsKept ==
  ASSUME AdminsTypeOK, OwnRows, [AdminsNext]_adminsVars
  PROVE  OwnRows'
<1> USE DEF AdminsTypeOK, OwnRows
<1>1. CASE UNCHANGED <<role, is_active>> /\ edits' \subseteq edits
  BY <1>1 DEF OneHolder, Exists, Reads, Wanted
<1>2. ASSUME NEW c \in Accounts, AccountStep(c) PROVE OwnRows'
  <2>1. ASSUME NEW t \in Accounts, NEW wish \in Wishes, get_admin(c, t, wish)
        PROVE  OwnRows'
    BY <2>1 DEF get_admin, OneHolder, Exists, Reads, Wanted
  <2>2. ASSUME NEW a \in Accounts, NEW r \in Roles, NEW on \in BOOLEAN, Create(c, a, r, on)
        PROVE  OwnRows'
    <3>1. \A q \in edits : q.target # a
      BY <2>2 DEF Create, Exists
    <3>2. \A q \in edits : role'[q.target] = role[q.target] /\ is_active'[q.target] = is_active[q.target]
      BY <2>2, <3>1 DEF Create, Edits
    <3>3. QED
      BY <2>2, <3>2 DEF Create, OneHolder, Exists, Reads, Wanted
  <2>3. QED
    BY <1>2, <2>1, <2>2 DEF AccountStep
<1>3. ASSUME NEW q \in edits, EditStep(q) PROVE OwnRows'
  <2>1. CASE Lock(q)
    <3> DEFINE n == [q EXCEPT !.locked = TRUE, !.row = Wanted(q.target, q.wish)]
    <3>1. /\ n.locked /\ n.target = q.target /\ n.wish = q.wish
          /\ n.row = Wanted(q.target, q.wish)
      BY DEF Edits
    <3>2. edits' = (edits \ {q}) \cup {n} /\ RowFree(q.target) /\ UNCHANGED <<role, is_active>>
      BY <2>1 DEF Lock
    <3>3. Wanted(q.target, q.wish).role # "none"
      BY DEF Exists, Wanted, Wishes, Edits, Roles
    <3> HIDE DEF n
    <3>4. OneHolder'
      BY <3>1, <3>2 DEF OneHolder, RowFree
    <3>5. Exists'
      BY <3>1, <3>2, <3>3 DEF Exists
    <3>6. Reads'
      BY <3>1, <3>2 DEF Reads, Wanted
    <3>7. QED
      BY <3>4, <3>5, <3>6
  <2>2. CASE End(q)
    BY <1>1, <2>2 DEF End
  <2>3. CASE Commit(q)
    <3>1. q.locked /\ edits' = edits \ {q}
      BY <2>3 DEF Commit
    <3>2. ASSUME NEW p \in edits', p.locked
          PROVE  role'[p.target] = role[p.target] /\ is_active'[p.target] = is_active[p.target]
      <4>1. p.target # q.target
        BY <3>1, <3>2 DEF OneHolder
      <4>2. QED
        BY <2>3, <3>1, <4>1 DEF Commit, Edits
    <3>3. \A p \in edits' : role'[p.target] # "none"
      <4>1. q.row.role # "none" /\ q.target \in Accounts
        BY <3>1 DEF Exists, Edits
      <4>2. QED
        BY <2>3, <3>1, <4>1 DEF Commit, Exists, Edits
    <3>4. QED
      BY <3>1, <3>2, <3>3 DEF OneHolder, Exists, Reads, Wanted
  <2>4. QED
    BY <1>3, <2>1, <2>2, <2>3 DEF EditStep
<1>4. CASE UNCHANGED adminsVars
  BY <1>1, <1>4 DEF adminsVars
<1>5. QED
  BY <1>2, <1>3, <1>4 DEF AdminsNext

(* Edits of one account do not undo each other (`select_for_update` in     *)
(* `AdminDetailView`): what an edit was not asked to change, it leaves.    *)
THEOREM EditsAreSerial == AdminsSpec => EditsKeepTheRest
<1>1. AdminsInit => OwnRows
  BY DEF AdminsInit, OwnRows, OneHolder, Exists, Reads
<1>2. AdminsTypeOK /\ OwnRows /\ [AdminsNext]_adminsVars => OwnRows'
  BY RowsKept
<1>3. ASSUME AdminsTypeOK, OwnRows, NEW q \in edits, Commit(q)
      PROVE  /\ q.wish.role = "keep" => role'[q.target] = role[q.target]
             /\ q.wish.is_active = "keep" => is_active'[q.target] = is_active[q.target]
  <2>1. q.row = Wanted(q.target, q.wish) /\ q.target \in Accounts
    BY <1>3 DEF AdminsTypeOK, OwnRows, Reads, Commit, Edits
  <2>2. role'[q.target] = q.row.role /\ is_active'[q.target] = q.row.is_active
    BY <1>3, <2>1 DEF AdminsTypeOK, Commit
  <2>3. QED
    BY <2>1, <2>2 DEF Wanted
<1>4. AdminsTypeOK /\ OwnRows =>
        [\A q \in edits : Commit(q) =>
           /\ q.wish.role = "keep" => role'[q.target] = role[q.target]
           /\ q.wish.is_active = "keep" => is_active'[q.target] = is_active[q.target]]_adminsVars
  BY <1>3
<1>5. QED
  BY <1>1, <1>2, <1>4, AdminsTypeCorrect, PTL DEF AdminsSpec, EditsKeepTheRest

-----------------------------------------------------------------------------
(* The guard does its work as long as two of the transactions it lets      *)
(* through do not overlap.                                                 *)
LEMMA GuardHolds ==
  ASSUME AdminsTypeOK, OwnRows, Guarded, [AdminsNext]_adminsVars
  PROVE  Guarded'
<1> USE DEF AdminsTypeOK
<1>1. CASE overlapped'
  BY <1>1 DEF Guarded
<1>2. ASSUME ~overlapped, ~overlapped' PROVE Guarded'
  <2>1. /\ \E a \in Accounts : Administers(a)
        /\ \A p, q \in edits : Taking(p) /\ Taking(q) => p = q
        /\ \A q \in edits : Taking(q) => other_active_admins(q.target) # {}
    BY <1>2 DEF Guarded
  <2>2. CASE UNCHANGED <<role, is_active>> /\ edits' \subseteq edits
    BY <2>1, <2>2 DEF Guarded, Taking, Loses, other_active_admins, Administers
  <2>3. ASSUME NEW c \in Accounts, AccountStep(c) PROVE Guarded'
    <3>1. ASSUME NEW t \in Accounts, NEW wish \in Wishes, get_admin(c, t, wish)
          PROVE  Guarded'
      BY <2>1, <3>1 DEF get_admin, Guarded, Taking, Loses, other_active_admins, Administers
    <3>2. ASSUME NEW a \in Accounts, NEW r \in Roles, NEW on \in BOOLEAN, Create(c, a, r, on)
          PROVE  Guarded'
      <4>1. \A q \in edits : role'[q.target] = role[q.target]
        BY <3>2 DEF Create, OwnRows, Exists, Edits
      <4>2. \A b \in Accounts : Administers(b) => Administers(b)'
        BY <3>2 DEF Create, Administers
      <4>3. \A q \in edits : Taking(q)' <=> Taking(q)
        BY <4>1 DEF Taking, Loses
      <4>4. QED
        BY <2>1, <3>2, <4>2, <4>3 DEF Create, Guarded, other_active_admins
    <3>3. QED
      BY <2>3, <3>1, <3>2 DEF AccountStep
  <2>4. ASSUME NEW q \in edits, EditStep(q) PROVE Guarded'
    <3>1. CASE Lock(q)
      <4> DEFINE row == Wanted(q.target, q.wish)
                 n == [q EXCEPT !.locked = TRUE, !.row = row]
      <4>1. n.locked /\ n.target = q.target /\ n.row = row
        BY DEF Edits
      <4>2. /\ edits' = (edits \ {q}) \cup {n}
            /\ UNCHANGED <<role, is_active>>
            /\ Loses(q.target, row) => other_active_admins(q.target) # {}
            /\ Loses(q.target, row) => \A p \in edits : ~Taking(p)
        BY <1>2, <3>1 DEF Lock, Guard, Taking
      <4>3. Taking(n) <=> Loses(q.target, row)
        BY <4>1 DEF Taking
      <4>4. \A p \in edits' : (Taking(p)' <=> Taking(p)) /\ (p = n \/ p \in edits)
        BY <4>2 DEF Taking, Loses
      <4>5. /\ \A a \in Accounts : Administers(a)' <=> Administers(a)
            /\ other_active_admins(n.target) = other_active_admins(q.target)
            /\ \A t : other_active_admins(t)' = other_active_admins(t)
        BY <4>1, <4>2 DEF Administers, other_active_admins
      <4> HIDE DEF n, row
      <4>6. \A p, r \in edits' : Taking(p)' /\ Taking(r)' => p = r
        BY <2>1, <4>2, <4>3, <4>4
      <4>7. \A p \in edits' : Taking(p)' => other_active_admins(p.target)' # {}
        BY <2>1, <4>2, <4>3, <4>4, <4>5
      <4>8. QED
        BY <2>1, <4>5, <4>6, <4>7 DEF Guarded
    <3>2. CASE End(q)
      BY <2>2, <3>2 DEF End
    <3>3. CASE Commit(q)
      <4>1. /\ q.locked /\ edits' = edits \ {q} /\ q.target \in Accounts
            /\ role' = [role EXCEPT ![q.target] = q.row.role]
            /\ is_active' = [is_active EXCEPT ![q.target] = q.row.is_active]
        BY <3>3 DEF Commit, Edits
      <4>2. \A p \in edits' : Taking(p)' <=> Taking(p)
        <5>1. \A p \in edits' : p.locked => p.target # q.target
          BY <4>1 DEF OwnRows, OneHolder
        <5>2. QED
          BY <4>1, <5>1 DEF Taking, Loses, Edits
      <4>3. \A a \in Accounts \ {q.target} : Administers(a)' <=> Administers(a)
        BY <4>1 DEF Administers
      <4>4. CASE Taking(q)
        <5>1. \A p \in edits' : ~Taking(p)'
          BY <2>1, <4>1, <4>2, <4>4
        <5>2. \E a \in Accounts : Administers(a)'
          BY <2>1, <4>3, <4>4 DEF other_active_admins
        <5>3. QED
          BY <5>1, <5>2 DEF Guarded
      <4>5. CASE ~Taking(q)
        <5>1. Administers(q.target) => Administers(q.target)'
          BY <4>1, <4>5 DEF Administers, Taking, Loses
        <5>2. \A a \in Accounts : Administers(a) => Administers(a)'
          BY <4>3, <5>1
        <5>3. \A p \in edits' : Taking(p)' => other_active_admins(p.target)' # {}
          BY <2>1, <4>1, <4>2, <5>2 DEF other_active_admins
        <5>4. QED
          BY <2>1, <4>1, <4>2, <5>2, <5>3 DEF Guarded
      <4>6. QED
        BY <4>4, <4>5
    <3>4. QED
      BY <2>4, <3>1, <3>2, <3>3 DEF EditStep
  <2>5. CASE UNCHANGED adminsVars
    BY <2>2, <2>5 DEF adminsVars
  <2>6. QED
    BY <2>3, <2>4, <2>5 DEF AdminsNext
<1>3. overlapped => overlapped'
  BY DEF AdminsNext, AccountStep, EditStep, get_admin, Create, Lock, End, Commit, adminsVars
<1>4. QED
  BY <1>1, <1>2, <1>3

(* The last active Admin is never taken away while the transactions that   *)
(* take one away come one after the other, however long ago their callers  *)
(* were let in (guard 3 of api/views/admins.py).                           *)
THEOREM ConsoleStaysAdministrable == AdminsSpec => []SomebodyAdministers
<1>1. AdminsInit => OwnRows /\ Guarded
  BY DEF AdminsInit, OwnRows, OneHolder, Exists, Reads, Guarded
<1>2. AdminsTypeOK /\ OwnRows /\ [AdminsNext]_adminsVars => OwnRows'
  BY RowsKept
<1>3. AdminsTypeOK /\ OwnRows /\ Guarded /\ [AdminsNext]_adminsVars => Guarded'
  BY GuardHolds
<1>4. Guarded => SomebodyAdministers
  BY DEF Guarded, SomebodyAdministers
<1>5. QED
  BY <1>1, <1>2, <1>3, <1>4, AdminsTypeCorrect, PTL DEF AdminsSpec
=============================================================================
