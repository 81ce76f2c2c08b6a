---------------------------- MODULE MCCatalogue ----------------------------
(***************************************************************************)
(* A product and two categories with two uploads, and a name in two        *)
(* spellings besides another.                                              *)
(***************************************************************************)
EXTENDS Catalogue, TLC

CONSTANTS p1, c1, c2, i1, i2

MCFold == "Dairy" :> "dairy" @@ "DAIRY" :> "dairy" @@ "Bread" :> "bread"

(* Bound: names change, and there are two categories, while there are no   *)
(* images; there are images while every name is the one the first category *)
(* starts with.  One image is given a second time, and by then one request *)
(* at a time goes on while the command runs.                               *)
Focus ==
  \/ /\ disk \cup bucket \cup used = {} /\ ~migration.running /\ backend = "local"
     /\ \A q \in open : q.op = "put" => q.image = NoImage
  \/ /\ rows \subseteq {p1, c1} /\ name = [c \in {c1, c2} |-> IF c = c1 THEN "Dairy" ELSE "Bread"]
     /\ label = [p \in {p1} |-> "Dairy"]
     /\ \A q \in open : /\ q.op = "put" => q.name = "Dairy" /\ q.old_name = "Dairy"
                        /\ q.op # "unlink" => q.row # c2
     /\ Cardinality(reused) <= 1
     /\ migration.running /\ reused # {} => Cardinality(open) <= 1

Symmetry == Permutations({i1, i2})
=============================================================================
