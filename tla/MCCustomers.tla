---------------------------- MODULE MCCustomers ----------------------------
(***************************************************************************)
(* Two people, two numbers and two accounts: each may sign up under the    *)
(* other's number or take over their SIM; two orders, two codes.           *)
(***************************************************************************)
EXTENDS CustomerAccounts, TLC

CONSTANTS p1, p2, n1, n2, c1, c2, o1, o2, k1, k2

Symmetry == Permutations({p1, p2}) \cup Permutations({n1, n2}) \cup
            Permutations({c1, c2}) \cup Permutations({o1, o2}) \cup
            Permutations({k1, k2})
=============================================================================
