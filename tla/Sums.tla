-------------------------------- MODULE Sums --------------------------------
(***************************************************************************)
(* What the proofs about stock and takings need to know of finite sums.    *)
(* `Total(f, S)` is what MapThenSumSet makes of the values of f on S; f is *)
(* a function and not an operator, so that the lemmas can be cited.        *)
(*                                                                         *)
(* The library's induction theorems take an operator, which no prover here *)
(* can supply.  Its theorem on minimal elements takes sets, and gives the  *)
(* induction over finite sets that everything below rests on.              *)
(***************************************************************************)
EXTENDS FiniteSetsExt, FiniteSetTheorems, WellFoundedInduction, TLAPS

Total(f, S) == MapThenSumSet(LAMBDA x : f[x], S)

(* The recursion behind the sum. *)
Pick(s) == CHOOSE x \in s : TRUE
SumStep(f, s, g) == IF s = {} THEN 0 ELSE f[Pick(s)] + g[s \ {Pick(s)}]
SolvesSum(g, f, S) == g = [s \in SUBSET S |-> SumStep(f, s, g)]
SumSolution(f, S) == CHOOSE g : SolvesSum(g, f, S)

-----------------------------------------------------------------------------
(* Induction: what holds of a set once it holds of the set without any one *)
(* of its elements, holds of every finite set.                             *)
LEMMA SubsetInduction ==
  ASSUME NEW S, IsFiniteSet(S), NEW G,
         \A s \in SUBSET S : (\A x \in s : s \ {x} \in G) => s \in G
  PROVE  \A s \in SUBSET S : s \in G
<1> DEFINE Bad == {s \in SUBSET S : s \notin G}
<1>1. SUFFICES ASSUME Bad # {} PROVE FALSE
  OBVIOUS
<1>2. IsWellFoundedOn(StrictSubsetOrdering(S), SUBSET S)
  BY FS_StrictSubsetOrderingWellFounded, FS_FiniteSubsetsOfFinite
<1>3. PICK s \in Bad : \A t \in Bad : <<t, s>> \notin StrictSubsetOrdering(S)
  <2>1. Bad \subseteq SUBSET S
    OBVIOUS
  <2> HIDE DEF Bad
  <2> QED BY <1>1, <1>2, <2>1, WFMin
<1>4. ASSUME NEW x \in s PROVE s \ {x} \in G
  <2>1. /\ s \ {x} \in SUBSET S /\ s \in SUBSET S
        /\ s \ {x} \subseteq s /\ s \ {x} # s
    OBVIOUS
  <2>2. <<s \ {x}, s>> \in StrictSubsetOrdering(S)
    BY <2>1 DEF StrictSubsetOrdering
  <2> QED BY <1>3, <2>1, <2>2
<1> QED BY <1>3, <1>4

(* A set of naturals has a least element, and a greatest if it is finite.  *)
LEMMA LeastOf ==
  ASSUME NEW S \in SUBSET Nat, S # {}
  PROVE  \E x \in S : \A y \in S : x <= y
<1>1. PICK R : IsWellFoundedOn(R, Nat) /\ \A x, y \in Nat : x < y => <<x, y>> \in R
  <2>1. IsWellFoundedOn(OpToRel(<, Nat), Nat)
    BY NatLessThanWellFounded
  <2>2. \A x, y \in Nat : x < y => <<x, y>> \in OpToRel(<, Nat)
    BY DEF OpToRel
  <2> QED BY <2>1, <2>2
<1>2. PICK x \in S : \A y \in S : <<y, x>> \notin R
  <2>1. IsWellFoundedOn(R, Nat) /\ S \subseteq Nat /\ S # {}
    BY <1>1
  <2> QED BY <2>1, WFMin
<1>3. \A y \in S : ~ (y < x)
  BY <1>1, <1>2
<1> QED BY <1>3

LEMMA GreatestOf ==
  ASSUME NEW S \in SUBSET Nat, IsFiniteSet(S), S # {}
  PROVE  \E x \in S : \A y \in S : y <= x
<1> DEFINE G == {s \in SUBSET S : s # {} => \E x \in s : \A y \in s : y <= x}
<1>1. ASSUME NEW s \in SUBSET S, \A x \in s : s \ {x} \in G
      PROVE  s \in G
  <2> SUFFICES ASSUME s # {} PROVE \E x \in s : \A y \in s : y <= x
    OBVIOUS
  <2>1. PICK z \in s : TRUE
    OBVIOUS
  <2>2. CASE s \ {z} = {}
    BY <2>2
  <2>3. CASE s \ {z} # {}
    <3>1. PICK x \in s \ {z} : \A y \in s \ {z} : y <= x
      BY <1>1, <2>3
    <3>2. x \in Nat /\ z \in Nat
      OBVIOUS
    <3> QED BY <3>1, <3>2
  <2> QED BY <2>2, <2>3
<1>2. \A s \in SUBSET S : s \in G
  <2> HIDE DEF G
  <2> QED BY <1>1, SubsetInduction
<1> QED BY <1>2

-----------------------------------------------------------------------------
(* The recursion has one solution, and the sum is its value. *)
LEMMA TotalIsSolution ==
  ASSUME NEW f, NEW S
  PROVE  Total(f, S) = SumSolution(f, S)[S]
BY Zenon DEF Total, SumSolution, SolvesSum, SumStep, Pick, MapThenSumSet, MapThenFoldSet

LEMMA Picked == ASSUME NEW s, s # {} PROVE Pick(s) \in s
BY DEF Pick

(* Two solutions agree where both are defined. *)
LEMMA SolutionsAgree ==
  ASSUME NEW f, NEW S, IsFiniteSet(S), NEW T \in SUBSET S,
         NEW g, SolvesSum(g, f, S), NEW h, SolvesSum(h, f, T)
  PROVE  \A s \in SUBSET T : g[s] = h[s]
<1> DEFINE G == {s \in SUBSET T : g[s] = h[s]}
<1>1. IsFiniteSet(T)
  BY FS_Subset
<1>2. ASSUME NEW s \in SUBSET T, \A x \in s : s \ {x} \in G
      PROVE  s \in G
  <2>1. g[s] = SumStep(f, s, g) /\ h[s] = SumStep(f, s, h)
    BY DEF SolvesSum
  <2>2. CASE s = {}
    BY <2>1, <2>2 DEF SumStep
  <2>3. CASE s # {}
    <3>1. g[s \ {Pick(s)}] = h[s \ {Pick(s)}]
      BY <1>2, <2>3, Picked
    <3> QED BY <2>1, <2>3, <3>1 DEF SumStep
  <2> QED BY <2>2, <2>3
<1>3. \A s \in SUBSET T : s \in G
  <2> HIDE DEF G
  <2> QED BY <1>1, <1>2, SubsetInduction
<1> QED BY <1>3

(* There is a solution: take the value at each set from a solution for the *)
(* set less the element picked.                                            *)
LEMMA SolutionExists ==
  ASSUME NEW f, NEW S, IsFiniteSet(S)
  PROVE  \A s \in SUBSET S : SolvesSum(SumSolution(f, s), f, s)
<1> DEFINE G == {s \in SUBSET S : \E g : SolvesSum(g, f, s)}
<1>1. ASSUME NEW s \in SUBSET S, \A x \in s : s \ {x} \in G
      PROVE  s \in G
  <2> DEFINE At(u) == SumSolution(f, u)[u]
             g == [u \in SUBSET s |-> IF u = {} THEN 0
                                      ELSE f[Pick(u)] + At(u \ {Pick(u)})]
  <2>1. ASSUME NEW x \in s PROVE SolvesSum(SumSolution(f, s \ {x}), f, s \ {x})
    BY <1>1, <2>1 DEF SumSolution
  <2>2. ASSUME NEW u \in SUBSET s, u # s
        PROVE  SolvesSum(SumSolution(f, u), f, u)
    <3>1. PICK x \in s : x \notin u
      BY <2>2
    <3> DEFINE h == SumSolution(f, s \ {x})
               k == [v \in SUBSET u |-> h[v]]
    <3>2. SolvesSum(h, f, s \ {x})
      BY <2>1
    <3>3. ASSUME NEW v \in SUBSET u PROVE k[v] = SumStep(f, v, k)
      <4>1. h[v] = SumStep(f, v, h)
        BY <3>1, <3>2 DEF SolvesSum
      <4>2. CASE v = {}
        BY <4>1, <4>2 DEF SumStep
      <4>3. CASE v # {}
        BY <4>1, <4>3, Picked DEF SumStep
      <4> QED BY <4>2, <4>3
    <3>4. SolvesSum(k, f, u)
      BY <3>3 DEF SolvesSum
    <3> QED BY <3>4 DEF SumSolution
  <2>3. ASSUME NEW u \in SUBSET s, u # s
        PROVE  g[u] = At(u)
    <3>1. SolvesSum(SumSolution(f, u), f, u)
      BY <2>2, <2>3
    <3>2. At(u) = SumStep(f, u, SumSolution(f, u))
      BY <3>1 DEF SolvesSum
    <3>3. CASE u = {}
      BY <3>2, <3>3 DEF SumStep
    <3>4. CASE u # {}
      <4> DEFINE v == u \ {Pick(u)}
      <4>1. v \in SUBSET u /\ v \in SUBSET s /\ v # s
        BY <2>3
      <4>2. SolvesSum(SumSolution(f, v), f, v)
        BY <2>2, <4>1
      <4>3. IsFiniteSet(u)
        BY FS_Subset
      <4>4. SumSolution(f, u)[v] = SumSolution(f, v)[v]
        BY <3>1, <4>1, <4>2, <4>3, SolutionsAgree
      <4> QED BY <3>2, <3>4, <4>4 DEF SumStep
    <3> QED BY <3>3, <3>4
  <2>4. ASSUME NEW u \in SUBSET s PROVE g[u] = SumStep(f, u, g)
    <3>1. CASE u = {}
      BY <3>1 DEF SumStep
    <3>2. CASE u # {}
      <4>1. u \ {Pick(u)} \in SUBSET s /\ u \ {Pick(u)} # s
        BY <3>2, Picked
      <4>2. g[u \ {Pick(u)}] = At(u \ {Pick(u)})
        BY <2>3, <4>1
      <4> QED BY <3>2, <4>2 DEF SumStep
    <3> QED BY <3>1, <3>2
  <2>5. SolvesSum(g, f, s)
    BY <2>4 DEF SolvesSum
  <2> QED BY <2>5
<1>2. \A s \in SUBSET S : s \in G
  <2> HIDE DEF G
  <2> QED BY <1>1, SubsetInduction
<1> QED BY <1>2 DEF SumSolution

-----------------------------------------------------------------------------
(* The recursion, of the sum itself. *)
LEMMA TotalStep ==
  ASSUME NEW f, NEW S, IsFiniteSet(S)
  PROVE  Total(f, S) = IF S = {} THEN 0 ELSE f[Pick(S)] + Total(f, S \ {Pick(S)})
<1> DEFINE g == SumSolution(f, S)
<1>1. SolvesSum(g, f, S)
  BY SolutionExists
<1>2. Total(f, S) = SumStep(f, S, g)
  BY <1>1, TotalIsSolution DEF SolvesSum
<1>3. CASE S = {}
  BY <1>2, <1>3 DEF SumStep
<1>4. CASE S # {}
  <2> DEFINE T == S \ {Pick(S)}
  <2>1. T \in SUBSET S /\ IsFiniteSet(T)
    BY FS_Subset
  <2>2. g[T] = SumSolution(f, T)[T]
    <3> DEFINE h == SumSolution(f, T)
    <3>1. SolvesSum(h, f, T)
      BY <2>1, SolutionExists
    <3>2. T \in SUBSET T
      OBVIOUS
    <3> HIDE DEF g, h, T
    <3>3. \A s \in SUBSET T : g[s] = h[s]
      BY <1>1, <2>1, <3>1, SolutionsAgree
    <3> QED BY <3>2, <3>3 DEF h
  <2>3. g[T] = Total(f, T)
    BY <2>2, TotalIsSolution
  <2> QED BY <1>2, <1>4, <2>3 DEF SumStep
<1> QED BY <1>3, <1>4

LEMMA TotalEmpty == ASSUME NEW f PROVE Total(f, {}) = 0
BY TotalStep, FS_EmptySet

(* A sum of integers is one, and of naturals too. *)
LEMMA TotalType ==
  ASSUME NEW V, V \in {Int, Nat}, NEW f, NEW S, IsFiniteSet(S), \A x \in S : f[x] \in V
  PROVE  Total(f, S) \in V
<1> DEFINE G == {s \in SUBSET S : Total(f, s) \in V}
<1>1. ASSUME NEW s \in SUBSET S, \A x \in s : s \ {x} \in G
      PROVE  s \in G
  <2>1. IsFiniteSet(s)
    BY FS_Subset
  <2>2. CASE s = {}
    BY <2>2, TotalEmpty
  <2>3. CASE s # {}
    <3>1. Pick(s) \in s
      BY <2>3, Picked
    <3>2. Total(f, s) = f[Pick(s)] + Total(f, s \ {Pick(s)})
      BY <2>1, <2>3, TotalStep
    <3>3. Total(f, s \ {Pick(s)}) \in V /\ f[Pick(s)] \in V
      BY <1>1, <3>1
    <3>4. CASE V = Int
      BY <3>2, <3>3, <3>4
    <3>5. CASE V = Nat
      BY <3>2, <3>3, <3>5
    <3> QED BY <3>4, <3>5
  <2> QED BY <2>2, <2>3
<1>2. \A s \in SUBSET S : s \in G
  <2> HIDE DEF G
  <2> QED BY <1>1, SubsetInduction
<1> QED BY <1>2

(* Any element may be taken out first. *)
LEMMA TotalRemove ==
  ASSUME NEW f, NEW S, IsFiniteSet(S), \A x \in S : f[x] \in Int, NEW e \in S
  PROVE  Total(f, S) = f[e] + Total(f, S \ {e})
<1> DEFINE G == {s \in SUBSET S : \A x \in s : Total(f, s) = f[x] + Total(f, s \ {x})}
<1>1. ASSUME NEW s \in SUBSET S, \A x \in s : s \ {x} \in G
      PROVE  s \in G
  <2>1. SUFFICES ASSUME NEW x \in s PROVE Total(f, s) = f[x] + Total(f, s \ {x})
    OBVIOUS
  <2> DEFINE p == Pick(s)
  <2>2. IsFiniteSet(s) /\ p \in s
    BY FS_Subset, Picked
  <2>3. Total(f, s) = f[p] + Total(f, s \ {p})
    BY <2>2, TotalStep
  <2>4. CASE x = p
    BY <2>3, <2>4
  <2>5. CASE x # p
    <3> DEFINE r == (s \ {p}) \ {x}
    <3>1. r = (s \ {x}) \ {p}
      OBVIOUS
    <3>2. Total(f, s \ {p}) = f[x] + Total(f, r)
      BY <1>1, <2>2, <2>5
    <3>3. Total(f, s \ {x}) = f[p] + Total(f, r)
      BY <1>1, <2>2, <2>5, <3>1
    <3>4. IsFiniteSet(r)
      BY <2>2, FS_Subset
    <3>5. Total(f, r) \in Int
      BY <3>4, TotalType
    <3>6. f[x] \in Int /\ f[p] \in Int
      BY <2>2
    <3> HIDE DEF r, p
    <3> QED BY <2>3, <3>2, <3>3, <3>5, <3>6
  <2> QED BY <2>4, <2>5
<1>2. \A s \in SUBSET S : s \in G
  <2> HIDE DEF G
  <2> QED BY <1>1, SubsetInduction
<1> QED BY <1>2

LEMMA TotalAdd ==
  ASSUME NEW f, NEW S, IsFiniteSet(S), NEW e, e \notin S,
         f[e] \in Int, \A x \in S : f[x] \in Int
  PROVE  Total(f, S \cup {e}) = f[e] + Total(f, S)
<1>1. IsFiniteSet(S \cup {e}) /\ (S \cup {e}) \ {e} = S
  BY FS_AddElement
<1> QED BY <1>1, TotalRemove

(* The sum depends on nothing but the values. *)
LEMMA TotalEqual ==
  ASSUME NEW S, IsFiniteSet(S), NEW f, NEW g, \A x \in S : f[x] = g[x]
  PROVE  Total(f, S) = Total(g, S)
<1> DEFINE G == {s \in SUBSET S : Total(f, s) = Total(g, s)}
<1>1. ASSUME NEW s \in SUBSET S, \A x \in s : s \ {x} \in G
      PROVE  s \in G
  <2>1. IsFiniteSet(s)
    BY FS_Subset
  <2>2. CASE s = {}
    BY <2>2, TotalEmpty
  <2>3. CASE s # {}
    <3>1. Pick(s) \in s /\ f[Pick(s)] = g[Pick(s)]
      BY <2>3, Picked
    <3>2. Total(f, s \ {Pick(s)}) = Total(g, s \ {Pick(s)})
      BY <1>1, <3>1
    <3> QED BY <2>1, <2>3, <3>1, <3>2, TotalStep
  <2> QED BY <2>2, <2>3
<1>2. \A s \in SUBSET S : s \in G
  <2> HIDE DEF G
  <2> QED BY <1>1, SubsetInduction
<1> QED BY <1>2

LEMMA TotalScale ==
  ASSUME NEW S, IsFiniteSet(S), NEW k \in Int, NEW f, NEW g,
         \A x \in S : f[x] \in Int /\ g[x] = f[x] * k
  PROVE  Total(g, S) = Total(f, S) * k
<1> DEFINE G == {s \in SUBSET S : Total(g, s) = Total(f, s) * k}
<1>1. ASSUME NEW s \in SUBSET S, \A x \in s : s \ {x} \in G
      PROVE  s \in G
  <2>1. IsFiniteSet(s)
    BY FS_Subset
  <2>2. CASE s = {}
    BY <2>2, TotalEmpty
  <2>3. CASE s # {}
    <3> DEFINE p == Pick(s)
               r == s \ {p}
    <3>1. p \in s /\ f[p] \in Int /\ g[p] = f[p] * k
      BY <2>3, Picked
    <3>2. Total(g, r) = Total(f, r) * k
      BY <1>1, <3>1
    <3>3. IsFiniteSet(r) /\ \A x \in r : f[x] \in Int
      BY <2>1, FS_Subset
    <3>4. Total(f, r) \in Int
      BY <3>3, TotalType
    <3>5. Total(f, s) = f[p] + Total(f, r) /\ Total(g, s) = g[p] + Total(g, r)
      BY <2>1, <2>3, TotalStep
    <3> HIDE DEF p, r
    <3>6. (f[p] + Total(f, r)) * k = f[p] * k + Total(f, r) * k
      BY <3>1, <3>4
    <3> QED BY <3>1, <3>2, <3>5, <3>6
  <2> QED BY <2>2, <2>3
<1>2. \A s \in SUBSET S : s \in G
  <2> HIDE DEF G
  <2> QED BY <1>1, SubsetInduction
<1> QED BY <1>2

(* Two parts of a set add up to the whole. *)
LEMMA TotalSplit ==
  ASSUME NEW S, IsFiniteSet(S), NEW f, \A x \in S : f[x] \in Int, NEW T
  PROVE  Total(f, S) = Total(f, S \cap T) + Total(f, S \ T)
<1> DEFINE G == {s \in SUBSET S : Total(f, s) = Total(f, s \cap T) + Total(f, s \ T)}
<1>1. ASSUME NEW s \in SUBSET S, \A x \in s : s \ {x} \in G
      PROVE  s \in G
  <2>1. IsFiniteSet(s)
    BY FS_Subset
  <2>2. CASE s = {}
    <3>1. s \cap T = {} /\ s \ T = {}
      BY <2>2
    <3> QED BY <2>2, <3>1, TotalEmpty
  <2>3. CASE s # {}
    <3>1. PICK x \in s : f[x] \in Int
      BY <2>3
    <3> DEFINE r == s \ {x}
    <3>2. Total(f, r) = Total(f, r \cap T) + Total(f, r \ T)
      BY <1>1
    <3>3. Total(f, s) = f[x] + Total(f, r)
      BY <2>1, TotalRemove
    <3>4. /\ IsFiniteSet(s \cap T) /\ IsFiniteSet(s \ T)
          /\ IsFiniteSet(r \cap T) /\ IsFiniteSet(r \ T)
      BY <2>1, FS_Subset
    <3>5. Total(f, r \cap T) \in Int /\ Total(f, r \ T) \in Int
      <4>1. (\A y \in r \cap T : f[y] \in Int) /\ (\A y \in r \ T : f[y] \in Int)
        OBVIOUS
      <4> QED BY <3>4, <4>1, TotalType
    <3>6. CASE x \in T
      <4>1. s \ T = r \ T /\ (s \cap T) \ {x} = r \cap T /\ x \in s \cap T
        BY <3>6
      <4>2. Total(f, s \cap T) = f[x] + Total(f, r \cap T)
        <5>1. \A y \in s \cap T : f[y] \in Int
          OBVIOUS
        <5> QED BY <3>4, <4>1, <5>1, TotalRemove
      <4>3. Total(f, s \ T) = Total(f, r \ T)
        BY <4>1
      <4> HIDE DEF r, G
      <4>4. Total(f, s) = Total(f, s \cap T) + Total(f, s \ T)
        BY <3>1, <3>2, <3>3, <3>5, <4>2, <4>3
      <4> QED BY <4>4 DEF G
    <3>7. CASE x \notin T
      <4>1. s \cap T = r \cap T /\ (s \ T) \ {x} = r \ T /\ x \in s \ T
        BY <3>7
      <4>2. Total(f, s \ T) = f[x] + Total(f, r \ T)
        <5>1. \A y \in s \ T : f[y] \in Int
          OBVIOUS
        <5> QED BY <3>4, <4>1, <5>1, TotalRemove
      <4>3. Total(f, s \cap T) = Total(f, r \cap T)
        BY <4>1
      <4> HIDE DEF r, G
      <4>4. Total(f, s) = Total(f, s \cap T) + Total(f, s \ T)
        BY <3>1, <3>2, <3>3, <3>5, <4>2, <4>3
      <4> QED BY <4>4 DEF G
    <3> QED BY <3>6, <3>7
  <2> QED BY <2>2, <2>3
<1>2. \A s \in SUBSET S : s \in G
  <2> HIDE DEF G
  <2> QED BY <1>1, SubsetInduction
<1> QED BY <1>2

(* More of what is not negative is not less. *)
LEMMA TotalGrows ==
  ASSUME NEW S, IsFiniteSet(S), NEW f, \A x \in S : f[x] \in Nat, NEW T \in SUBSET S
  PROVE  Total(f, T) <= Total(f, S)
<1>1. S \cap T = T /\ IsFiniteSet(T) /\ IsFiniteSet(S \ T)
  BY FS_Subset
<1>2. (\A x \in T : f[x] \in Nat) /\ (\A x \in S \ T : f[x] \in Nat)
  OBVIOUS
<1>3. Total(f, T) \in Nat /\ Total(f, S \ T) \in Nat
  BY <1>1, <1>2, TotalType
<1>4. Total(f, S) = Total(f, S \cap T) + Total(f, S \ T)
  <2>1. \A x \in S : f[x] \in Int
    OBVIOUS
  <2> QED BY <2>1, TotalSplit
<1> QED BY <1>1, <1>3, <1>4

(* To count is to add ones. *)
LEMMA TotalCounts ==
  ASSUME NEW S, IsFiniteSet(S), NEW f, \A x \in S : f[x] = 1
  PROVE  Total(f, S) = Cardinality(S)
<1> DEFINE G == {s \in SUBSET S : Total(f, s) = Cardinality(s)}
<1>1. ASSUME NEW s \in SUBSET S, \A x \in s : s \ {x} \in G
      PROVE  s \in G
  <2>1. IsFiniteSet(s)
    BY FS_Subset
  <2>2. CASE s = {}
    BY <2>2, TotalEmpty, FS_EmptySet
  <2>3. CASE s # {}
    <3>1. PICK x \in s : f[x] = 1
      BY <2>3
    <3>2. Total(f, s \ {x}) = Cardinality(s \ {x})
      BY <1>1
    <3>3. Total(f, s) = 1 + Total(f, s \ {x})
      BY <2>1, <3>1, TotalRemove
    <3>4. Cardinality(s \ {x}) = Cardinality(s) - 1 /\ Cardinality(s) \in Nat
      BY <2>1, FS_RemoveElement, FS_CardinalityType
    <3> QED BY <3>2, <3>3, <3>4
  <2> QED BY <2>2, <2>3
<1>2. \A s \in SUBSET S : s \in G
  <2> HIDE DEF G
  <2> QED BY <1>1, SubsetInduction
<1> QED BY <1>2

LEMMA TotalZero ==
  ASSUME NEW S, IsFiniteSet(S), NEW f, \A x \in S : f[x] = 0
  PROVE  Total(f, S) = 0
<1>1. \A x \in S : f[x] \in Int /\ f[x] = f[x] * 0
  OBVIOUS
<1>2. Total(f, S) = Total(f, S) * 0
  BY <1>1, TotalScale
<1>3. Total(f, S) \in Int
  BY <1>1, TotalType
<1> QED BY <1>2, <1>3

(* To count some is to add ones for them and zeros for the others.         *)
LEMMA TotalCountsSome ==
  ASSUME NEW S, IsFiniteSet(S), NEW T \in SUBSET S,
         NEW f, \A x \in S : f[x] = IF x \in T THEN 1 ELSE 0
  PROVE  Total(f, S) = Cardinality(T)
<1>1. S \cap T = T /\ IsFiniteSet(T) /\ IsFiniteSet(S \ T)
  BY FS_Subset
<1>2. (\A x \in T : f[x] = 1) /\ (\A x \in S \ T : f[x] = 0) /\ (\A x \in S : f[x] \in Int)
  OBVIOUS
<1>3. Total(f, S) = Total(f, S \cap T) + Total(f, S \ T)
  BY <1>2, TotalSplit
<1>4. Total(f, T) = Cardinality(T) /\ Total(f, S \ T) = 0
  BY <1>1, <1>2, TotalCounts, TotalZero
<1>5. Cardinality(T) \in Nat
  BY <1>1, FS_CardinalityType
<1> QED BY <1>1, <1>3, <1>4, <1>5

(* The keys of finitely many things are finitely many. *)
LEMMA KeysFinite ==
  ASSUME NEW S, IsFiniteSet(S), NEW c
  PROVE  IsFiniteSet({c[x] : x \in S})
<1> DEFINE G == {s \in SUBSET S : IsFiniteSet({c[x] : x \in s})}
<1>1. ASSUME NEW s \in SUBSET S, \A x \in s : s \ {x} \in G
      PROVE  s \in G
  <2>1. CASE s = {}
    <3>1. {c[x] : x \in s} = {}
      BY <2>1
    <3> QED BY <3>1, FS_EmptySet
  <2>2. CASE s # {}
    <3>1. PICK y \in s : TRUE
      BY <2>2
    <3>2. IsFiniteSet({c[x] : x \in s \ {y}})
      BY <1>1
    <3>3. {c[x] : x \in s} = {c[x] : x \in s \ {y}} \cup {c[y]}
      OBVIOUS
    <3>4. IsFiniteSet({c[x] : x \in s \ {y}} \cup {c[y]})
      BY <3>2, FS_AddElement
    <3>5. IsFiniteSet({c[x] : x \in s})
      BY <3>3, <3>4
    <3> QED BY <3>5
  <2> QED BY <2>1, <2>2
<1>2. \A s \in SUBSET S : s \in G
  <2> HIDE DEF G
  <2> QED BY <1>1, SubsetInduction
<1> QED BY <1>2

(* Sorted by a key and added up key by key, the sum is the same. *)
LEMMA TotalByKey ==
  ASSUME NEW S, IsFiniteSet(S), NEW f, \A x \in S : f[x] \in Int, NEW c, NEW K, IsFiniteSet(K),
         \A x \in S : c[x] \in K,
         NEW part, \A k \in K : \A x : x \in part[k] <=> x \in S /\ c[x] = k,
         NEW h, \A k \in K : h[k] = Total(f, part[k])
  PROVE  Total(h, K) = Total(f, S)
<1> DEFINE Of(L) == {x \in S : c[x] \in L}
           G == {L \in SUBSET K : Total(h, L) = Total(f, Of(L))}
<1>1. ASSUME NEW L \in SUBSET K, \A k \in L : L \ {k} \in G
      PROVE  L \in G
  <2>1. IsFiniteSet(L) /\ IsFiniteSet(Of(L))
    BY FS_Subset
  <2>2. CASE L = {}
    <3>1. Of(L) = {}
      BY <2>2
    <3> QED BY <2>2, <3>1, TotalEmpty
  <2>3. CASE L # {}
    <3> DEFINE k == Pick(L)
               T == part[k]
    <3>1. k \in L
      BY <2>3, Picked
    <3>2. Total(h, L \ {k}) = Total(f, Of(L \ {k}))
      BY <1>1, <3>1
    <3>3. Total(h, L) = h[k] + Total(h, L \ {k})
      BY <2>1, <2>3, TotalStep
    <3>4. h[k] = Total(f, T)
      BY <3>1
    <3>5. Of(L) \cap T = T /\ Of(L) \ T = Of(L \ {k})
      BY <3>1
    <3>6. Total(f, Of(L)) = Total(f, Of(L) \cap T) + Total(f, Of(L) \ T)
      <4> DEFINE u == Of(L)
      <4>1. IsFiniteSet(u) /\ \A x \in u : f[x] \in Int
        BY <2>1
      <4> HIDE DEF u, T
      <4>2. Total(f, u) = Total(f, u \cap T) + Total(f, u \ T)
        BY <4>1, TotalSplit
      <4> QED BY <4>2 DEF u
    <3> HIDE DEF T, Of, k
    <3> QED BY <3>2, <3>3, <3>4, <3>5, <3>6
  <2> QED BY <2>2, <2>3
<1>2. \A L \in SUBSET K : L \in G
  <2> HIDE DEF G
  <2> QED BY <1>1, SubsetInduction
<1>3. Of(K) = S
  OBVIOUS
<1> QED BY <1>2, <1>3
=============================================================================
