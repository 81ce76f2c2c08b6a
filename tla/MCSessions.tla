----------------------------- MODULE MCSessions -----------------------------
(***************************************************************************)
(* Small instances of Sessions: the .cfg files choose the kind of account. *)
(***************************************************************************)
EXTENDS Sessions
=============================================================================
