------------------------------ MODULE Counting ------------------------------
(***************************************************************************)
(* The facts about finite sets and their cardinalities that the proofs use, *)
(* one definition each.  The lemmas about a component assume Counting, and  *)
(* the module with the component's theorems proves it from the library's    *)
(* theorems, so that no theorem depends on it.                              *)
(***************************************************************************)
EXTENDS Integers, FiniteSets

EmptyCounts ==
    /\ IsFiniteSet({}) /\ Cardinality({}) = 0
    /\ \A S : IsFiniteSet(S) => (Cardinality(S) = 0 <=> S = {})

CountsAreNatural == \A S : IsFiniteSet(S) => Cardinality(S) \in Nat

SingletonCounts == \A x : IsFiniteSet({x}) /\ Cardinality({x}) = 1

SubsetCounts ==
    \A S, T : IsFiniteSet(S) /\ T \subseteq S =>
        IsFiniteSet(T) /\ Cardinality(T) <= Cardinality(S)

AddCounts ==
    \A S, x : IsFiniteSet(S) =>
        /\ IsFiniteSet(S \cup {x})
        /\ Cardinality(S \cup {x}) = IF x \in S THEN Cardinality(S) ELSE Cardinality(S) + 1

RemoveCounts ==
    \A S, x : IsFiniteSet(S) =>
        /\ IsFiniteSet(S \ {x})
        /\ Cardinality(S \ {x}) = IF x \in S THEN Cardinality(S) - 1 ELSE Cardinality(S)

UnionCounts ==
    \A S, T : IsFiniteSet(S) /\ IsFiniteSet(T) =>
        /\ IsFiniteSet(S \cup T)
        /\ Cardinality(S \cup T) = Cardinality(S) + Cardinality(T) - Cardinality(S \cap T)

DifferenceCounts ==
    \A S, T : IsFiniteSet(S) =>
        /\ IsFiniteSet(S \ T)
        /\ Cardinality(S \ T) = Cardinality(S) - Cardinality(S \cap T)

InjectionCounts ==
    \A S, T, f : /\ IsFiniteSet(T) /\ f \in [S -> T]
                 /\ \A x, y \in S : f[x] = f[y] => x = y
        => IsFiniteSet(S) /\ Cardinality(S) <= Cardinality(T)

IntervalCounts ==
    \A a, b \in Int : Cardinality(a..b) = IF a > b THEN 0 ELSE b - a + 1

LeastNatural == \A T : T \subseteq Nat /\ T # {} => \E x \in T : \A y \in T : x <= y

Counting ==
    /\ EmptyCounts /\ CountsAreNatural /\ SingletonCounts /\ SubsetCounts
    /\ AddCounts /\ RemoveCounts /\ UnionCounts /\ DifferenceCounts
    /\ InjectionCounts /\ IntervalCounts /\ LeastNatural

=============================================================================
