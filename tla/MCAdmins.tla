------------------------------ MODULE MCAdmins ------------------------------
(***************************************************************************)
(* Small consoles: the accounts are interchangeable.                       *)
(***************************************************************************)
EXTENDS Admins, TLC

Symmetric == Permutations(Accounts)
=============================================================================
