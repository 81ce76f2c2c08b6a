------------------------------ MODULE Sessions ------------------------------
(***************************************************************************)
(* The bearer tokens of one account: api/security.py, api/authentication.py*)
(* and api/views/auth.py, with the writes that retire tokens.  The three   *)
(* kinds of account share the mechanism and differ in who else writes the  *)
(* row:                                                                    *)
(*   "admin"     PUT /api/admins/{id} locks the row and resets a password  *)
(*               and token_version in one transaction;                     *)
(*   "rider"     PUT /api/users/{id} reads the row, saves every column of  *)
(*               it and resets the PIN and token_version, each in a        *)
(*               transaction of its own;                                   *)
(*   "customer"  changes the password for itself.                          *)
(* The server stores no token: `tokens` are the ones clients hold.         *)
(***************************************************************************)
EXTENDS Integers, FiniteSets

CONSTANTS
  Kinds,         \* the kinds of account that are looked at
  TokenLife,     \* ACCESS_TOKEN_EXPIRE_MINUTES
  SessionMax,    \* SESSION_MAX_HOURS, in the same unit
  MaxTime, MaxVersion, MaxTokens, MaxOpen   \* bounds

ASSUME SessionsConstants ==
  /\ Kinds \subseteq {"admin", "rider", "customer"}
  /\ TokenLife \in Nat /\ SessionMax \in Nat
  /\ {MaxTime, MaxVersion, MaxTokens, MaxOpen} \subseteq Nat

VARIABLES
  kind,        \* which kind of account this is, the same for ever
  now,
  active,      \* is_active
  version,     \* token_version
  secret,      \* how often the password or PIN was changed
  tokens,      \* tokens minted so far: claims, and the secret signed in with
  open,        \* requests between their read of the row and their last write
  retired      \* history: the tokens that were out when tokens were retired

vars == <<kind, now, active, version, secret, tokens, open, retired>>

(* `ver`, `ait` and `exp` are claims; `secret` is the one a sign-in was made *)
(* with and `began` when that was, which no server reads.                  *)
Tokens == [ver : Nat, ait : Nat, exp : Nat, secret : Nat, began : Nat]

(* `row` is what the request read, except that its secret is the one the   *)
(* caller is known to have and, in a PUT, is_active the one it is to have;  *)
(* `ait` and `began` are those of the caller's token.                      *)
Rows == [active : BOOLEAN, version : Nat, secret : Nat]

Settings == {"keep", "on", "off"}

Requests ==
  [op : {"login", "refresh", "logout", "change", "renew", "put", "pin", "bump"}, row : Rows,
   ait : Nat, began : Nat, reset : BOOLEAN]

TypeOK ==
  /\ kind \in Kinds
  /\ now \in Nat
  /\ active \in BOOLEAN
  /\ version \in Nat
  /\ secret \in Nat
  /\ tokens \subseteq Tokens
  /\ open \subseteq Requests
  /\ retired \subseteq tokens

Init ==
  /\ kind \in Kinds
  /\ now = 0
  /\ active = TRUE
  /\ version = 0
  /\ secret = 0
  /\ tokens = {}
  /\ open = {}
  /\ retired = {}

-----------------------------------------------------------------------------
Row == [active |-> active, version |-> version, secret |-> secret]

Request(op, row, ait, began) ==
  [op |-> op, row |-> row, ait |-> ait, began |-> began, reset |-> FALSE]

(* is_active after a PUT that asks for `to`, when it was `read`. *)
Set(to, read) == IF to = "keep" THEN read ELSE to = "on"

Begin(q) ==
  /\ Cardinality(open) < MaxOpen
  /\ open' = open \cup {q}

(* `create_access_token`: the version is the one the request read. *)
Token(row, ait, began) ==
  [ver |-> row.version, ait |-> ait, exp |-> now + TokenLife, secret |-> row.secret, began |-> began]

create_access_token(row, ait, began) ==
  /\ Cardinality(tokens) < MaxTokens
  /\ tokens' = tokens \cup {Token(row, ait, began)}

(* Mutant: the `ver` claim is not compared. *)
AcceptedAnyVersion(t) == active /\ now < t.exp

(* `BearerJWTAuthentication.authenticate`, on the row as it is. *)
Accepted(t) == active /\ now < t.exp /\ t.ver = version

(* token_version = F("token_version") + 1. *)
Retire ==
  /\ version < MaxVersion
  /\ version' = version + 1
  /\ retired' = tokens

(* A new password or PIN is saved. *)
NewSecret ==
  /\ secret < MaxVersion
  /\ secret' = secret + 1

-----------------------------------------------------------------------------
(* Signing in: the row and its secret are read, then the token is minted.  *)
Login ==
  /\ active
  /\ Begin(Request("login", Row, 0, 0))
  /\ UNCHANGED <<kind, now, active, version, secret, tokens, retired>>

(* A request that comes with a token: .../me, .../logout, and a customer's *)
(* change of password, which checks the current one against the row read.  *)
Authenticate(t, op) ==
  /\ op = "change" => kind = "customer"
  /\ Accepted(t)
  /\ Begin(Request(op, [Row EXCEPT !.secret = t.secret], t.ait, t.began))
  /\ UNCHANGED <<kind, now, active, version, secret, tokens, retired>>

(* Mutant: renewal without a ceiling. *)
RenewableForever(q) == TRUE

(* `renewable_session`. *)
Renewable(q) == q.op = "refresh" => now - q.ait <= SessionMax

Mint(q) ==
  /\ q \in open /\ q.op \in {"login", "refresh"}
  /\ Renewable(q)
  /\ IF q.op = "refresh" THEN create_access_token(q.row, q.ait, q.began)
     ELSE create_access_token(q.row, now, now)
  /\ open' = open \ {q}
  /\ UNCHANGED <<kind, now, active, version, secret, retired>>

(* The session is too old to renew, or the request dies with its server.   *)
(* A PUT that dies here leaves what it has committed so far.               *)
Drop(q) ==
  /\ q \in open
  /\ open' = open \ {q}
  /\ UNCHANGED <<kind, now, active, version, secret, tokens, retired>>

Logout(q) ==
  /\ q \in open /\ q.op = "logout"
  /\ Retire
  /\ open' = open \ {q}
  /\ UNCHANGED <<kind, now, active, secret, tokens>>

-----------------------------------------------------------------------------
(* What the customer knows of the row once the new password is saved. *)
NewRow(q) == [q.row EXCEPT !.secret = secret + 1]

(* `CustomerPasswordView`: one UPDATE changes both columns ...             *)
ChangePassword(q) ==
  /\ q \in open /\ q.op = "change"
  /\ Retire
  /\ NewSecret
  /\ open' = (open \ {q}) \cup {[q EXCEPT !.op = "renew", !.row = NewRow(q)]}
  /\ UNCHANGED <<kind, now, active, tokens>>

(* ... and the row is read again for the token this device goes on with.   *)
RefreshFromDb(q) ==
  /\ q \in open /\ q.op = "renew"
  /\ create_access_token([Row EXCEPT !.secret = q.row.secret], now, now)
  /\ open' = open \ {q}
  /\ UNCHANGED <<kind, now, active, version, secret, retired>>

(* Mutant: a password reset leaves the sessions alone. *)
PutKeepsSessions(to, reset) ==
  /\ kind = "admin"
  /\ active' = Set(to, active)
  /\ IF reset THEN NewSecret ELSE UNCHANGED secret
  /\ UNCHANGED <<kind, now, version, retired, tokens, open>>

(* `AdminDetailView.put` and `.delete` (which deactivates), under the row's lock. *)
PutAdmin(to, reset) ==
  /\ kind = "admin"
  /\ active' = Set(to, active)
  /\ IF reset THEN Retire /\ NewSecret ELSE UNCHANGED <<version, retired, secret>>
  /\ UNCHANGED <<kind, now, tokens, open>>

(* `UserDetailView.put`: the row is read without a lock ... *)
PutRead(to, reset) ==
  /\ kind = "rider"
  /\ Begin([Request("put", [Row EXCEPT !.active = Set(to, active)], 0, 0) EXCEPT !.reset = reset])
  /\ UNCHANGED <<kind, now, active, version, secret, tokens, retired>>

(* ... `instance.save()` writes every column of what was read ... *)
PutSave(q) ==
  /\ q \in open /\ q.op = "put"
  /\ active' = q.row.active
  /\ version' = q.row.version
  /\ secret' = q.row.secret
  /\ open' = (open \ {q}) \cup (IF q.reset THEN {[q EXCEPT !.op = "pin"]} ELSE {})
  /\ UNCHANGED <<kind, now, tokens, retired>>

(* ... the new PIN's hash is saved ... *)
PutPin(q) ==
  /\ q \in open /\ q.op = "pin"
  /\ NewSecret
  /\ open' = (open \ {q}) \cup {[q EXCEPT !.op = "bump"]}
  /\ UNCHANGED <<kind, now, active, version, tokens, retired>>

(* ... and then the rider's tokens are retired. *)
PutBump(q) ==
  /\ q \in open /\ q.op = "bump"
  /\ Retire
  /\ open' = open \ {q}
  /\ UNCHANGED <<kind, now, active, secret, tokens>>

(* `UserDetailView.delete` of a rider with history: two columns only. *)
Dismiss ==
  /\ kind = "rider"
  /\ active' = FALSE
  /\ UNCHANGED <<kind, now, version, secret, tokens, open, retired>>

Tick ==
  /\ now < MaxTime
  /\ now' = now + 1
  /\ UNCHANGED <<kind, active, version, secret, tokens, open, retired>>

(* A token is presented, or the request q goes one step on. *)
TokenStep(t) == \E op \in {"refresh", "logout", "change"} : Authenticate(t, op)

RequestStep(q) ==
  \/ Mint(q)
  \/ Drop(q)
  \/ Logout(q)
  \/ ChangePassword(q)
  \/ RefreshFromDb(q)
  \/ PutSave(q)
  \/ PutPin(q)
  \/ PutBump(q)

ManagerStep(to, reset) == PutAdmin(to, reset) \/ PutRead(to, reset)

Next ==
  \/ Login
  \/ \E t \in tokens : TokenStep(t)
  \/ \E q \in open : RequestStep(q)
  \/ \E to \in Settings, reset \in BOOLEAN : ManagerStep(to, reset)
  \/ Dismiss
  \/ Tick

Spec == Init /\ [][Next]_vars

-----------------------------------------------------------------------------
(* A token that was out when its account's tokens were retired, by signing *)
(* out or by a reset, is never accepted again: "the credential stops       *)
(* working the moment the button is pressed" (api/views/auth.py).  Of a    *)
(* staff or customer account, that is.                                     *)
RetiredStaysRetired == kind # "rider" => \A t \in retired : ~Accepted(t)

(* No token obtained with an old password is accepted once the request     *)
(* that changed it is over, not even one minted while it was being changed *)
(* ("a reset that leaves the old sessions working is not a reset",         *)
(* api/views/admins.py).  Of a staff account, that is.                     *)
OldSecretIsOut == kind = "admin" => \A t \in tokens : Accepted(t) => t.secret = secret

(* However often a session is renewed, it ends: nothing is accepted longer *)
(* after the sign-in it goes back to than the ceiling and one token's life *)
(* (`renewable_session`).                                                  *)
SessionsEnd == \A t \in tokens : Accepted(t) => now - t.began < SessionMax + TokenLife

(* What RetiredStaysRetired says, of every account: riders sign out with   *)
(* the same promise (`RiderLogoutView`, "the rider's half of LogoutView"). *)
SignOutIsFinal == \A t \in retired : ~Accepted(t)
=============================================================================
