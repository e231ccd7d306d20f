---------------------------- MODULE DecimalText ----------------------------
(***************************************************************************)
(* Decimals as text: Decimal::from_str and impl Display of                 *)
(* contracts/src/math.rs, which serde calls whenever a threshold comes in  *)
(* with a message, is stored, is loaded or is answered.                    *)
(*                                                                         *)
(* A text is the sequence of its parts between the dots.  Of a part it     *)
(* matters how many characters it has, whether u128's parser takes it, and *)
(* the number it spells; leading zeros and a leading plus are characters   *)
(* that add nothing to the number.                                         *)
(***************************************************************************)
EXTENDS DecimalMath, Sequences

CONSTANT FRACTIONAL_DIGITS   \* 18: the digits of a Decimal behind the dot

\* 10 to the power k.
PowerOfTen[k \in Nat] == IF k = 0 THEN 1 ELSE 10 * PowerOfTen[k - 1]

ASSUME TextAssumption ==
    /\ FRACTIONAL_DIGITS \in Nat
    /\ DECIMAL_FRACTIONAL = PowerOfTen[FRACTIONAL_DIGITS]
    /\ DECIMAL_FRACTIONAL <= MaxU128

\* A part spells no number that needs more digits than it has characters.
Part == {p \in [chars : Nat, numeric : BOOLEAN, value : Nat] :
            p.value < PowerOfTen[p.chars]}

Spelled(chars, value) == [chars |-> chars, numeric |-> TRUE, value |-> value]
Garbled(chars) == [chars |-> chars, numeric |-> FALSE, value |-> 0]

\* str::parse::<u128>
ParsesU128(part) == part.numeric /\ part.value <= MaxU128

----------------------------------------------------------------------------
\* Decimal::from_str

HasFraction(text) == Len(text) = 2

\* Mutant: the factor is taken from the number, so leading zeros are lost.
FractionalFactorOfNumber(part) ==
    PowerOfTen[FRACTIONAL_DIGITS
                  - (CHOOSE k \in 1 .. part.chars :
                        /\ part.value < PowerOfTen[k]
                        /\ k = 1 \/ part.value >= PowerOfTen[k - 1])]

\* Mutant: the factor does not depend on the digits there are.
FractionalFactorFixed(part) == DECIMAL_FRACTIONAL

FractionalFactor(part) == PowerOfTen[FRACTIONAL_DIGITS - part.chars]

FractionalAtomics(text) ==
    IF HasFraction(text)
    THEN text[2].value * FractionalFactor(text[2])
    ELSE 0

FromStr(text) == text[1].value * DECIMAL_FRACTIONAL + FractionalAtomics(text)

\* The early returns before anything is multiplied.
PartsParse(text) ==
    /\ Len(text) \in {1, 2}
    /\ \A i \in DOMAIN text : ParsesU128(text[i])
    /\ HasFraction(text) => text[2].chars <= FRACTIONAL_DIGITS

\* Otherwise from_str returns an error.
CanFromStr(text) ==
    /\ PartsParse(text)
    /\ text[1].value * DECIMAL_FRACTIONAL <= MaxU128
    /\ FromStr(text) <= MaxU128

(***************************************************************************)
(* The one product of from_str that is not a checked operation:            *)
(* fractional * fractional_factor aborts if it exceeds a u128.             *)
(***************************************************************************)
FromStrAborts(text) ==
    /\ PartsParse(text)
    /\ text[1].value * DECIMAL_FRACTIONAL <= MaxU128
    /\ FractionalAtomics(text) > MaxU128

----------------------------------------------------------------------------
\* impl Display for Decimal

\* n in decimal digits, without leading zeros.
Digits(n) ==
    CHOOSE k \in 1 .. n + 1 :
        n < PowerOfTen[k] /\ (k = 1 \/ n >= PowerOfTen[k - 1])

Integral(n) == Spelled(Digits(n), n)

\* How many digits are left of the fraction without its trailing zeros.
KeptDigits(fractional) ==
    CHOOSE k \in 1 .. FRACTIONAL_DIGITS :
        /\ fractional % PowerOfTen[FRACTIONAL_DIGITS - k] = 0
        /\ k > 1 => fractional % PowerOfTen[FRACTIONAL_DIGITS - k + 1] # 0

\* Mutant: the fraction is not padded with zeros in front.
FractionUnpadded(fractional) ==
    Integral(fractional
                \div PowerOfTen[FRACTIONAL_DIGITS - KeptDigits(fractional)])

Fraction(fractional) ==
    Spelled(KeptDigits(fractional),
            fractional
                \div PowerOfTen[FRACTIONAL_DIGITS - KeptDigits(fractional)])

Display(d) ==
    LET whole      == Integral(d \div DECIMAL_FRACTIONAL)
        fractional == d % DECIMAL_FRACTIONAL
    IN  IF fractional = 0 THEN <<whole>> ELSE <<whole, Fraction(fractional)>>
=============================================================================
