------------------------------ MODULE Weights ------------------------------
(***************************************************************************)
(* The machine words of the contract and sums of u64 weights.              *)
(***************************************************************************)
EXTENDS Integers, FiniteSets

CONSTANT MaxU64   \* the largest value of a u64

ASSUME U64Assumption == MaxU64 \in Nat

U64 == 0 .. MaxU64

(***************************************************************************)
(* The sum of the weights w over a set S of keys, as the number of unit    *)
(* votes S holds: key k has the units <<k, 1>> .. <<k, w[k]>>.  Counting   *)
(* units instead of folding makes sums over disjoint sets, and over parts  *)
(* of a set, cardinalities the proofs can reason about.                    *)
(***************************************************************************)
Units(w, S) == {u \in S \X (1 .. MaxU64) : u[2] <= w[u[1]]}

WeightSum(w, S) == Cardinality(Units(w, S))
=============================================================================
