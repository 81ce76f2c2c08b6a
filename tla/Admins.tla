------------------------------- MODULE Admins -------------------------------
(***************************************************************************)
(* The console accounts: api/views/admins.py behind `IsOwnerAdmin`.        *)
(* A request is let in on the row of its caller as it was then; its        *)
(* transaction locks the row of its target, reads it, reads the other rows *)
(* without a lock, and writes the target when it commits.  What the        *)
(* database shows to others is what was committed.                         *)
(***************************************************************************)
EXTENDS Naturals, FiniteSets

CONSTANTS
  Accounts,    \* the rows there are or may be
  MaxEdits      \* bound: requests in flight

ASSUME AdminsConstants == MaxEdits \in Nat

VARIABLES
  role,        \* AdminUser.role, or "none" before the row is created
  is_active,      \* AdminUser.is_active
  edits,        \* requests between their authentication and their end
  overlapped   \* history: two transactions that each take an Admin away have
               \* both been past the guard at once

adminsVars == <<role, is_active, edits, overlapped>>

Roles == {"admin", "manager"}

(* What a PUT asks for.  A DELETE asks for is_active = FALSE alone.        *)
Wishes == [role : Roles \cup {"keep"}, is_active : {"keep", "on", "off"}]

(* `row` is what the request is going to save, once it holds the lock.     *)
Edits ==
  [caller : Accounts, target : Accounts, wish : Wishes, locked : BOOLEAN,
   row : [role : Roles \cup {"none"}, is_active : BOOLEAN]]

AdminsTypeOK ==
  /\ role \in [Accounts -> Roles \cup {"none"}]
  /\ is_active \in [Accounts -> BOOLEAN]
  /\ edits \subseteq Edits
  /\ overlapped \in BOOLEAN

(* `is_owner_admin` of an account that may sign in. *)
Administers(a) == role[a] = "admin" /\ is_active[a]

(* Whoever set the server up made an Admin. *)
AdminsInit ==
  /\ role \in [Accounts -> Roles \cup {"none"}]
  /\ is_active \in [Accounts -> BOOLEAN]
  /\ \E a \in Accounts : Administers(a)
  /\ edits = {}
  /\ overlapped = FALSE

-----------------------------------------------------------------------------
NoRow == [role |-> "none", is_active |-> FALSE]

(* `get_admin`, after `IsOwnerAdmin` let the caller in. *)
get_admin(c, t, wish) ==
  /\ Administers(c)
  /\ role[t] # "none"
  /\ Cardinality(edits) < MaxEdits
  /\ edits' = edits \cup {[caller |-> c, target |-> t, wish |-> wish, locked |-> FALSE, row |-> NoRow]}
  /\ UNCHANGED <<role, is_active, overlapped>>

(* `AdminListCreateView.post`. *)
Create(c, a, r, on) ==
  /\ Administers(c)
  /\ role[a] = "none"
  /\ role' = [role EXCEPT ![a] = r]
  /\ is_active' = [is_active EXCEPT ![a] = on]
  /\ UNCHANGED <<edits, overlapped>>

(* The row with what is asked for, the rest as it is read. *)
Wanted(t, wish) ==
  [role   |-> IF wish.role = "keep" THEN role[t] ELSE wish.role,
   is_active |-> IF wish.is_active = "keep" THEN is_active[t] ELSE wish.is_active = "on"]

(* `losing_admin`. *)
Loses(t, row) == role[t] = "admin" /\ (row.role # "admin" \/ ~row.is_active)

other_active_admins(t) == {a \in Accounts \ {t} : Administers(a)}

(* Mutant: the count of Admins includes the account itself. *)
GuardCountingAll(q, row) ==
  /\ q.caller = q.target => row.role = role[q.target] /\ row.is_active
  /\ Loses(q.target, row) => \E a \in Accounts : Administers(a)

(* The three guards of `AdminDetailView`. *)
Guard(q, row) ==
  /\ q.caller = q.target => row.role = role[q.target] /\ row.is_active
  /\ Loses(q.target, row) => other_active_admins(q.target) # {}

(* Mutant: the row is read without `select_for_update`. *)
RowFreeAnyway(t) == TRUE

RowFree(t) == \A p \in edits : p.locked => p.target # t

(* `select_for_update` and the guards, on the row as it is then. *)
Lock(q) ==
  /\ q \in edits /\ ~q.locked
  /\ RowFree(q.target)
  /\ LET row == Wanted(q.target, q.wish) IN
       /\ Guard(q, row)
       /\ edits' = (edits \ {q}) \cup {[q EXCEPT !.locked = TRUE, !.row = row]}
       /\ overlapped' = \/ overlapped
                        \/ /\ Loses(q.target, row)
                           /\ \E p \in edits : p.locked /\ Loses(p.target, p.row)
  /\ UNCHANGED <<role, is_active>>

(* A guard answers 409, or the worker dies and the transaction rolls back. *)
End(q) ==
  /\ q \in edits
  /\ edits' = edits \ {q}
  /\ UNCHANGED <<role, is_active, overlapped>>

(* `serializer.save()`, or the DELETE's `save`, and the commit. *)
Commit(q) ==
  /\ q \in edits /\ q.locked
  /\ role' = [role EXCEPT ![q.target] = q.row.role]
  /\ is_active' = [is_active EXCEPT ![q.target] = q.row.is_active]
  /\ edits' = edits \ {q}
  /\ UNCHANGED overlapped

AccountStep(c) ==
  \/ \E t \in Accounts, wish \in Wishes : get_admin(c, t, wish)
  \/ \E a \in Accounts, r \in Roles, on \in BOOLEAN : Create(c, a, r, on)

EditStep(q) == Lock(q) \/ End(q) \/ Commit(q)

AdminsNext ==
  \/ \E c \in Accounts : AccountStep(c)
  \/ \E q \in edits : EditStep(q)

AdminsSpec == AdminsInit /\ [][AdminsNext]_adminsVars

-----------------------------------------------------------------------------
(* The console stays administrable, whoever was let in before losing the   *)
(* role, as long as no two transactions that each take an Admin away are   *)
(* past the guard at once.                                                 *)
SomebodyAdministers == overlapped \/ \E a \in Accounts : Administers(a)

(* An edit changes nothing it was not asked to change, however many edits  *)
(* of one account are in flight: no edit undoes another's.                 *)
EditsKeepTheRest ==
  [][\A q \in edits : Commit(q) =>
       /\ q.wish.role = "keep" => role'[q.target] = role[q.target]
       /\ q.wish.is_active = "keep" => is_active'[q.target] = is_active[q.target]]_adminsVars
=============================================================================
