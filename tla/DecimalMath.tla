---------------------------- MODULE DecimalMath ----------------------------
(***************************************************************************)
(* The fixed-point arithmetic behind every percentage rule: the Decimal    *)
(* and Uint128 operators of contracts/src/math.rs that the contract uses,  *)
(* and votes_needed of contracts/src/state.rs, which is built from them.   *)
(*                                                                         *)
(* A Decimal is the number of its atomics: DECIMAL_FRACTIONAL stands for   *)
(* 1.0.  The code fixes DECIMAL_FRACTIONAL = 10^18 and PRECISION_FACTOR =  *)
(* 10^9; here both are parameters, so that TLC can scale them down while   *)
(* they keep the relation between them.                                    *)
(***************************************************************************)
EXTENDS Integers

CONSTANTS
    DECIMAL_FRACTIONAL,   \* the atomics of 1.0 (math.rs)
    PRECISION_FACTOR,     \* the extra digits votes_needed keeps (state.rs)
    MaxU128               \* the largest value of a u128

ASSUME DecimalAssumption ==
    /\ DECIMAL_FRACTIONAL \in Nat \ {0}
    /\ PRECISION_FACTOR \in Nat \ {0, 1}
    /\ MaxU128 \in Nat

Percent(x) == (x * DECIMAL_FRACTIONAL) \div 100

\* Decimal - Decimal, used as 1 - p.
Complement(p) == DECIMAL_FRACTIONAL - p

\* Uint128 * Decimal: multiply_ratio rounds down.
MulDecimal(u, d) == (u * d) \div DECIMAL_FRACTIONAL

----------------------------------------------------------------------------
\* Mutant: the share is rounded down.
VotesNeededRoundingDown(weight, percentage) ==
    MulDecimal(PRECISION_FACTOR * weight, percentage) \div PRECISION_FACTOR

(***************************************************************************)
(* votes_needed(weight, percentage): percentage * weight, rounded up after *)
(* the product has been cut to PRECISION_FACTOR digits.                    *)
(***************************************************************************)
VotesNeeded(weight, percentage) ==
    (MulDecimal(PRECISION_FACTOR * weight, percentage) + PRECISION_FACTOR - 1)
        \div PRECISION_FACTOR

(***************************************************************************)
(* The only intermediate value of votes_needed that can exceed a u128 is   *)
(* the product in multiply_ratio.  The release profile has overflow-checks *)
(* and panic = 'abort' (Cargo.toml), so a product that does not fit aborts *)
(* the transaction.                                                        *)
(***************************************************************************)
VotesNeededFits(weight, percentage) ==
    PRECISION_FACTOR * weight * percentage <= MaxU128
=============================================================================
