--------------------------- MODULE DecimalProofs ---------------------------
(***************************************************************************)
(* A percentage is never rounded, lost or garbled on its way through       *)
(* messages and storage, and votes_needed rounds it as it says: for every  *)
(* number of digits, every width and every text of a message.              *)
(***************************************************************************)
EXTENDS DecimalStore, ArithmeticLemmas

----------------------------------------------------------------------------
\* Powers of ten

\* What PowerOfTen is defined by.
LEMMA PowerOfTenRecursion ==
    /\ PowerOfTen \in [Nat -> Nat]
    /\ PowerOfTen[0] = 1
    /\ \A k \in Nat : PowerOfTen[k + 1] = 10 * PowerOfTen[k]
<1> DEFINE step == [k \in Nat |-> [x \in Nat |-> 10 * x]]
<1>1. step \in [Nat -> [Nat -> Nat]]
  OBVIOUS
<1>2. PICK f \in [Nat -> Nat] :
         f[0] = 1 /\ Follows(f, step)
  <2> HIDE DEF step
  <2>1. 1 \in Nat
    OBVIOUS
  <2> QED
    BY <1>1, <2>1, RecursionHasSolution
<1>3. \A k \in Nat : f[k + 1] = 10 * f[k]
  BY <1>2 DEF Follows
<1>4. ASSUME NEW k \in Nat PROVE f[k] = IF k = 0 THEN 1 ELSE 10 * f[k - 1]
  <2>1. CASE k = 0
    BY <1>2, <2>1
  <2>2. CASE k # 0
    <3>1. k - 1 \in Nat /\ k = (k - 1) + 1
      BY <2>2
    <3>2. f[(k - 1) + 1] = 10 * f[k - 1]
      BY <1>3, <3>1
    <3> QED
      BY <2>2, <3>1, <3>2
  <2> QED
    BY <2>1, <2>2
<1>5. f = [k \in Nat |-> IF k = 0 THEN 1 ELSE 10 * f[k - 1]]
  BY <1>2, <1>4
<1>6. PowerOfTen = [k \in Nat |-> IF k = 0 THEN 1 ELSE 10 * PowerOfTen[k - 1]]
  BY <1>5, Zenon DEF PowerOfTen
<1>7. \A k \in Nat :
         PowerOfTen[k] = IF k = 0 THEN 1 ELSE 10 * PowerOfTen[k - 1]
  BY <1>6, Zenon
<1> HIDE DEF PowerOfTen
<1>8. PowerOfTen[0] = 1
  BY <1>7
<1>9. ASSUME NEW k \in Nat PROVE PowerOfTen[k + 1] = 10 * PowerOfTen[k]
  <2>1. k + 1 # 0 /\ k + 1 \in Nat /\ (k + 1) - 1 = k
    OBVIOUS
  <2> QED
    BY <1>7, <2>1
<1>10. DOMAIN PowerOfTen = Nat
  BY <1>6
<1> DEFINE N == {k \in Nat : PowerOfTen[k] \in Nat}
<1>11. 0 \in N /\ \A k \in Nat : k \in N => k + 1 \in N
  BY <1>8, <1>9
<1>12. \A k \in Nat : PowerOfTen[k] \in Nat
  <2> HIDE DEF N
  <2>1. Nat \subseteq N
    BY <1>11, NatSetInduction
  <2> QED
    BY <2>1 DEF N
<1>13. PowerOfTen = [k \in Nat |-> PowerOfTen[k]]
  BY <1>6, Zenon
<1> QED
  BY <1>8, <1>9, <1>12, <1>13

\* The digits in front of a place and behind it make all the digits.
LEMMA PowerOfTenAdds ==
    ASSUME NEW m \in Nat, NEW n \in Nat
    PROVE  PowerOfTen[m + n] = PowerOfTen[m] * PowerOfTen[n]
<1> DEFINE S == {k \in Nat : PowerOfTen[m + k] = PowerOfTen[m] * PowerOfTen[k]}
<1>1. 0 \in S
  <2>1. m + 0 = m /\ PowerOfTen[m] \in Nat
    BY PowerOfTenRecursion
  <2> QED
    BY <2>1, PowerOfTenRecursion
<1>2. ASSUME NEW k \in Nat, k \in S PROVE k + 1 \in S
  <2>1. m + (k + 1) = (m + k) + 1 /\ m + k \in Nat
    OBVIOUS
  <2>2. PowerOfTen[m + (k + 1)] = 10 * (PowerOfTen[m] * PowerOfTen[k])
    BY <1>2, <2>1, PowerOfTenRecursion
  <2>3. PowerOfTen[k + 1] = 10 * PowerOfTen[k]
    BY PowerOfTenRecursion
  <2>4. PowerOfTen[m] \in Nat /\ PowerOfTen[k] \in Nat
    BY PowerOfTenRecursion
  <2> QED
    BY <2>2, <2>3, <2>4
<1> HIDE DEF S
<1>3. n \in S
  BY <1>1, <1>2, NatSetInduction
<1> QED
  BY <1>3 DEF S

\* No power is zero.
LEMMA PowerOfTenPositive ==
    ASSUME NEW n \in Nat
    PROVE  PowerOfTen[n] \in Nat \ {0}
<1> DEFINE S == {k \in Nat : PowerOfTen[k] # 0}
<1>1. 0 \in S
  BY PowerOfTenRecursion
<1>2. ASSUME NEW k \in Nat, k \in S PROVE k + 1 \in S
  BY <1>2, PowerOfTenRecursion
<1> HIDE DEF S
<1>3. n \in S
  BY <1>1, <1>2, NatSetInduction
<1> QED
  BY <1>3, PowerOfTenRecursion DEF S

\* The digits behind the dot, split at any place.
LEMMA FractionSplits ==
    ASSUME NEW k \in 0 .. FRACTIONAL_DIGITS
    PROVE  /\ PowerOfTen[k] \in Nat \ {0}
           /\ PowerOfTen[FRACTIONAL_DIGITS - k] \in Nat \ {0}
           /\ PowerOfTen[FRACTIONAL_DIGITS - k] * PowerOfTen[k]
                 = DECIMAL_FRACTIONAL
<1>1. k \in Nat /\ FRACTIONAL_DIGITS - k \in Nat
  BY TextAssumption
<1>2. (FRACTIONAL_DIGITS - k) + k = FRACTIONAL_DIGITS
  BY TextAssumption
<1> QED
  BY <1>1, <1>2, PowerOfTenAdds, PowerOfTenPositive, TextAssumption

----------------------------------------------------------------------------
\* from_str

\* The text of a message has one part or two, with values and lengths.
LEMMA ReceivedParts ==
    ASSUME NEW text \in Texts, PartsParse(text)
    PROVE  /\ text[1] \in Part
           /\ text[1].value \in 0 .. MaxU128
           /\ HasFraction(text) =>
                 /\ text[2].chars \in 0 .. FRACTIONAL_DIGITS
                 /\ text[2].value \in Nat
                 /\ text[2].value < PowerOfTen[text[2].chars]
<1>1. text \in Seq(Part) /\ Len(text) \in {1, 2}
  BY StoreAssumption DEF PartsParse
<1>2. DOMAIN text = 1 .. Len(text)
  BY <1>1
<1>3. 1 \in DOMAIN text /\ text[1] \in Part
  BY <1>1, <1>2
<1>4. text[1].value \in Nat /\ text[1].value <= MaxU128
  BY <1>3 DEF PartsParse, ParsesU128, Part
<1>5. text[1].value \in 0 .. MaxU128
  BY <1>4, DecimalAssumption
<1>6. CASE HasFraction(text)
  <2>1. 2 \in DOMAIN text /\ text[2] \in Part
    BY <1>1, <1>2, <1>6 DEF HasFraction
  <2>2. text[2].chars <= FRACTIONAL_DIGITS
    BY <1>6 DEF PartsParse
  <2> QED
    BY <1>3, <1>5, <2>1, <2>2, TextAssumption DEF Part
<1> QED
  BY <1>3, <1>5, <1>6

\* What from_str computes is a number, and the number the text spells.
LEMMA FromStrDenotes ==
    ASSUME NEW text \in Texts, PartsParse(text)
    PROVE  FromStr(text) \in Nat /\ Denotes(text, FromStr(text))
<1> DEFINE a == text[1].value
           D == DECIMAL_FRACTIONAL
<1>1. a \in Nat /\ D \in Nat
  BY ReceivedParts, DecimalAssumption
<1>2. a * D \in Nat
  BY <1>1
<1>3. CASE ~HasFraction(text)
  <2>1. FromStr(text) = a * D + 0
    BY <1>3 DEF FromStr, FractionalAtomics
  <2> QED
    BY <1>2, <1>3, <2>1 DEF Denotes
<1>4. CASE HasFraction(text)
  <2> DEFINE b == text[2].value
             c == text[2].chars
             P == PowerOfTen[c]
             Q == PowerOfTen[FRACTIONAL_DIGITS - c]
  <2>1. b \in Nat /\ c \in 0 .. FRACTIONAL_DIGITS
    BY <1>4, ReceivedParts
  <2>2. P \in Nat /\ Q \in Nat /\ Q * P = D
    BY <2>1, FractionSplits
  <2>3. FromStr(text) = a * D + b * Q
    BY <1>4 DEF FromStr, FractionalAtomics, FractionalFactor
  <2>4. Denotes(text, a * D + b * Q)
            <=> (a * D + b * Q) * P = (a * P + b) * D
    BY <1>4 DEF Denotes
  <2> HIDE DEF a, b, c, P, Q, D
  <2>5. (a * D + b * Q) * P = (a * P + b) * D
    <3>1. (a * D + b * Q) * P = a * D * P + b * (Q * P)
      BY <1>1, <2>1, <2>2
    <3>2. (a * P + b) * D = a * D * P + b * D
      BY <1>1, <2>1, <2>2
    <3> QED
      BY <2>2, <3>1, <3>2
  <2>6. a * D + b * Q \in Nat
    BY <1>1, <1>2, <2>1, <2>2
  <2> QED
    BY <2>3, <2>4, <2>5, <2>6
<1> QED
  BY <1>3, <1>4

----------------------------------------------------------------------------
\* Display

\* A fraction that is not zero has a last digit that is not zero.
LEMMA KeptDigitsKeep ==
    ASSUME NEW fractional \in 1 .. DECIMAL_FRACTIONAL - 1
    PROVE  /\ KeptDigits(fractional) \in 1 .. FRACTIONAL_DIGITS
           /\ fractional
                 % PowerOfTen[FRACTIONAL_DIGITS - KeptDigits(fractional)] = 0
<1> DEFINE F == FRACTIONAL_DIGITS
           Whole(k) == fractional % PowerOfTen[F - k] = 0
           S == {k \in 1 .. F : Whole(k)}
<1>1. F \in S
  <2>1. F \in Nat /\ F # 0
    BY TextAssumption, DecimalAssumption, PowerOfTenRecursion
  <2>2. PowerOfTen[F - F] = 1
    BY <2>1, PowerOfTenRecursion
  <2>3. fractional % 1 = 0
    BY DecimalAssumption
  <2> QED
    BY <2>1, <2>2, <2>3
<1>2. PICK k \in S : \A j \in S : k <= j
  <2>1. S \in SUBSET Nat
    OBVIOUS
  <2> HIDE DEF S
  <2> QED
    BY <1>1, <2>1, LeastNumber
<1>3. k \in 1 .. F /\ Whole(k)
  OBVIOUS
<1>4. ASSUME k > 1 PROVE fractional % PowerOfTen[F - k + 1] # 0
  <2>1. k - 1 \in 1 .. F /\ k - 1 < k /\ F - (k - 1) = F - k + 1
    BY <1>3, <1>4, TextAssumption
  <2>2. k - 1 \notin S
    BY <1>2, <1>3, <2>1
  <2> QED
    BY <2>1, <2>2
<1>5. \E j \in 1 .. F : Whole(j) /\ (j > 1 => fractional % PowerOfTen[F - j + 1] # 0)
  BY <1>3, <1>4
<1> QED
  BY <1>5 DEF KeptDigits

\* The text of a Decimal is taken back, and for the same Decimal.
LEMMA DisplayIsInverted ==
    ASSUME NEW d \in 0 .. MaxU128
    PROVE  CanFromStr(Display(d)) /\ FromStr(Display(d)) = d
<1> DEFINE D == DECIMAL_FRACTIONAL
           a == d \div D
           f == d % D
           whole == Integral(a)
<1>1. D \in Nat \ {0} /\ D <= MaxU128 /\ MaxU128 \in Nat
  BY DecimalAssumption, TextAssumption
<1>2. a \in Nat /\ f \in 0 .. D - 1 /\ d = D * a + f /\ d \in Nat
  BY <1>1
<1>3. a * D \in Nat /\ a * D <= d /\ a <= d
  <2> HIDE DEF a, f, D
  <2>1. a * D \in Nat /\ a * D <= d
    BY <1>1, <1>2
  <2>2. a <= a * D
    BY <1>1, <1>2
  <2> QED
    BY <1>2, <2>1, <2>2
<1>4. /\ whole.numeric = TRUE /\ whole.value = a
  BY DEF Integral, Spelled
<1>5. ParsesU128(whole)
  BY <1>1, <1>2, <1>3, <1>4 DEF ParsesU128
<1>6. CASE f = 0
  <2> DEFINE text == <<whole>>
  <2>1. Display(d) = text
    BY <1>6 DEF Display
  <2>2. Len(text) = 1 /\ DOMAIN text = {1} /\ text[1] = whole
    OBVIOUS
  <2> HIDE DEF text
  <2>3. PartsParse(text) /\ ~HasFraction(text)
    BY <1>5, <2>2 DEF PartsParse, HasFraction
  <2>4. FromStr(text) = a * D + 0
    BY <1>4, <2>2, <2>3 DEF FromStr, FractionalAtomics
  <2>5. FromStr(text) = d
    BY <1>1, <1>2, <1>6, <2>4
  <2> QED
    BY <1>1, <1>2, <1>3, <1>4, <2>1, <2>2, <2>3, <2>5 DEF CanFromStr
<1>7. CASE f # 0
  <2> DEFINE k == KeptDigits(f)
             Q == PowerOfTen[FRACTIONAL_DIGITS - k]
             fraction == Fraction(f)
             text == <<whole, fraction>>
  <2>1. Display(d) = text
    BY <1>7 DEF Display
  <2>2. Len(text) = 2 /\ DOMAIN text = {1, 2}
        /\ text[1] = whole /\ text[2] = fraction
    OBVIOUS
  <2>3. k \in 1 .. FRACTIONAL_DIGITS /\ f % Q = 0
    BY <1>1, <1>2, <1>7, KeptDigitsKeep
  <2>4. Q \in Nat \ {0}
    BY <2>3, TextAssumption, FractionSplits
  <2>5. /\ fraction.chars = k /\ fraction.numeric = TRUE
        /\ fraction.value = f \div Q
    BY DEF Fraction, Spelled
  <2>6. HasFraction(text)
    BY <2>2 DEF HasFraction
  <2>7. FromStr(text) = a * D + (f \div Q) * Q
    BY <1>4, <2>2, <2>5, <2>6
    DEF FromStr, FractionalAtomics, FractionalFactor
  <2> HIDE DEF a, f, D, Q, k, fraction, text
  <2>8. f \div Q \in Nat /\ (f \div Q) * Q = f
    BY <1>1, <1>2, <2>3, <2>4
  <2>9. f \div Q <= f
    <3> DEFINE e == f \div Q
    <3>1. e \in Nat /\ e * Q = f
      BY <2>8
    <3> HIDE DEF e
    <3>2. e <= e * Q
      BY <2>4, <3>1
    <3>3. e <= f
      BY <3>1, <3>2
    <3> QED
      BY <3>3 DEF e
  <2>10. FromStr(text) = d
    BY <1>1, <1>2, <2>7, <2>8
  <2>11. ParsesU128(fraction)
    BY <1>1, <1>2, <2>5, <2>8, <2>9 DEF ParsesU128
  <2>12. PartsParse(text)
    BY <1>5, <2>2, <2>3, <2>5, <2>11, TextAssumption DEF PartsParse
  <2> QED
    BY <1>1, <1>2, <1>3, <1>4, <2>1, <2>2, <2>10, <2>12 DEF CanFromStr, D
<1> QED
  BY <1>6, <1>7

----------------------------------------------------------------------------
\* The life of a percentage

(***************************************************************************)
(* What is in memory is the number of the message, and a Decimal; what is  *)
(* in the storage can be taken back, and gives that number.                *)
(***************************************************************************)
NumberKept ==
    /\ received \in Texts
    /\ memory # Nothing =>
          memory \in 0 .. MaxU128 /\ Denotes(received, memory)
    /\ stored # Nothing =>
          /\ CanFromStr(stored)
          /\ FromStr(stored) \in 0 .. MaxU128
          /\ Denotes(received, FromStr(stored))

\* NumberKept holds at first and no handler breaks it.
THEOREM PercentagesAreKept == StoreSpec => []NumberKept
<1>1. StoreInit => NumberKept
  BY DEF StoreInit, NumberKept
<1>2. NumberKept /\ [StoreNext]_svars => NumberKept'
  <2> SUFFICES ASSUME NumberKept, [StoreNext]_svars PROVE NumberKept'
    OBVIOUS
  <2> USE DEF NumberKept
  <2>1. CASE Receive
    <3>1. CanFromStr(received) /\ received \in Texts
      BY <2>1 DEF Receive
    <3>2. /\ FromStr(received) \in Nat
          /\ Denotes(received, FromStr(received))
      BY <3>1, FromStrDenotes DEF CanFromStr
    <3>3. FromStr(received) \in 0 .. MaxU128
      BY <3>1, <3>2, DecimalAssumption DEF CanFromStr
    <3> QED
      BY <2>1, <3>2, <3>3 DEF Receive
  <2>2. CASE Save
    <3>1. memory \in 0 .. MaxU128 /\ Denotes(received, memory)
      BY <2>2 DEF Save
    <3>2. CanFromStr(Display(memory)) /\ FromStr(Display(memory)) = memory
      BY <3>1, DisplayIsInverted
    <3> QED
      BY <2>2, <3>1, <3>2 DEF Save
  <2>3. CASE Load
    BY <2>3 DEF Load
  <2>4. CASE UNCHANGED svars
    BY <2>4 DEF svars
  <2> QED
    BY <2>1, <2>2, <2>3, <2>4 DEF StoreNext
<1> QED
  BY <1>1, <1>2, PTL DEF StoreSpec

(***************************************************************************)
(* However often a percentage is saved and loaded, the number in memory is *)
(* exactly the one the message spelled.                                    *)
(***************************************************************************)
THEOREM NoRounding == StoreSpec => []PercentageSurvives
<1>1. NumberKept => PercentageSurvives
  BY DecimalAssumption DEF NumberKept, PercentageSurvives
<1> QED
  BY <1>1, PercentagesAreKept, PTL

\* What a handler saved, the next one can load.
THEOREM SavedIsLoaded == StoreSpec => []StoredTextLoads
<1>1. NumberKept => StoredTextLoads
  BY DEF NumberKept, StoredTextLoads
<1> QED
  BY <1>1, PercentagesAreKept, PTL

(***************************************************************************)
(* No text of a message makes from_str abort: a fraction that passed the   *)
(* check of its digits is less than 1.0 in atomics.                        *)
(***************************************************************************)
THEOREM FromStrNeverAborts == StoreSpec => []FromStrReturns
<1>1. ASSUME NumberKept PROVE FromStrReturns
  <2> SUFFICES ASSUME NEW text \in Texts, PartsParse(text)
               PROVE  ~(FractionalAtomics(text) > MaxU128)
    BY <1>1 DEF NumberKept, FromStrReturns, FromStrAborts
  <2>1. CASE ~HasFraction(text)
    BY <2>1, DecimalAssumption DEF FractionalAtomics
  <2>2. CASE HasFraction(text)
    <3> DEFINE b == text[2].value
               P == PowerOfTen[text[2].chars]
               Q == PowerOfTen[FRACTIONAL_DIGITS - text[2].chars]
    <3>1. /\ b \in Nat /\ b < P /\ P \in Nat /\ Q \in Nat
          /\ Q * P = DECIMAL_FRACTIONAL
      BY <2>2, ReceivedParts, FractionSplits
    <3>2. FractionalAtomics(text) = b * Q
      BY <2>2 DEF FractionalAtomics, FractionalFactor
    <3> HIDE DEF b, P, Q
    <3>3. Q * b <= Q * P
      BY <3>1, ScaleLess
    <3> QED
      BY <3>1, <3>2, <3>3, TextAssumption, DecimalAssumption
  <2> QED
    BY <2>1, <2>2
<1> QED
  BY <1>1, PercentagesAreKept, PTL

----------------------------------------------------------------------------
\* votes_needed

\* One vote less is too little, and what is cut off is less than a unit.
LEMMA VotesNeededTight ==
    ASSUME NEW w \in Nat, NEW p \in Nat, NEW n, n = VotesNeeded(w, p)
    PROVE  /\ n > 0 => (n - 1) * DECIMAL_FRACTIONAL < p * w
           /\ (n * DECIMAL_FRACTIONAL) * PRECISION_FACTOR + DECIMAL_FRACTIONAL
                 > (p * w) * PRECISION_FACTOR
<1> DEFINE D == DECIMAL_FRACTIONAL
           F == PRECISION_FACTOR
           m == MulDecimal(F * w, p)
<1>1. D \in Nat \ {0} /\ F \in Nat \ {0}
  BY DecimalAssumption
<1>2. F * w * p \in Nat /\ p * w \in Nat
  BY <1>1
<1>3. m \in Nat /\ F * w * p < D * m + D
  BY <1>1, <1>2, DivisionBounds DEF MulDecimal
<1>4. n \in Nat /\ m + F - 1 < F * n + F
  <2>1. n = (m + F - 1) \div F
    BY DEF VotesNeeded
  <2> HIDE DEF m, F
  <2>2. m + F - 1 \in Nat
    BY <1>1, <1>3
  <2> QED
    BY <1>1, <2>1, <2>2, DivisionBounds
<1>5. ASSUME n > 0 PROVE (n - 1) * D < p * w
  <2>1. n - 1 \in Nat /\ ~(n - 1 >= n)
    BY <1>4, <1>5
  <2>2. ~((n - 1) * D >= p * w)
    BY <2>1, VotesNeededAtMost
  <2>3. (n - 1) * D \in Int
    BY <1>1, <2>1
  <2> QED
    BY <1>2, <2>2, <2>3
<1> HIDE DEF m, D, F
<1>6. m <= F * n
  BY <1>1, <1>3, <1>4
<1>7. D * m <= D * (F * n)
  BY <1>1, <1>3, <1>4, <1>6, ScaleLess
<1>8. D * (F * n) = (n * D) * F /\ F * w * p = (p * w) * F
      /\ D * (F * n) \in Int /\ D * m \in Int /\ F * w * p \in Int
  BY <1>1, <1>3, <1>4
<1>9. (n * D) * F + D > (p * w) * F
  BY <1>1, <1>3, <1>7, <1>8
<1> QED
  BY <1>5, <1>9 DEF D, F

(***************************************************************************)
(* votes_needed rounds up and no further, for every percentage that can    *)
(* come in with a message and every weight.                                *)
(***************************************************************************)
THEOREM VotesNeededRoundsUp == StoreSpec => []VotesNeededIsTight
<1>1. ASSUME NumberKept PROVE VotesNeededIsTight
  <2> SUFFICES ASSUME memory # Nothing, NEW w \in 0 .. MaxWeight
               PROVE  LET n == VotesNeeded(w, memory)
                      IN  /\ n > 0 =>
                                (n - 1) * DECIMAL_FRACTIONAL < memory * w
                          /\ (n * DECIMAL_FRACTIONAL) * PRECISION_FACTOR
                                + DECIMAL_FRACTIONAL
                                  > (memory * w) * PRECISION_FACTOR
    BY DEF VotesNeededIsTight
  <2>1. memory \in Nat /\ w \in Nat
    BY <1>1, DecimalAssumption, StoreAssumption DEF NumberKept
  <2>2. PICK p \in Nat : p = memory
    BY <2>1
  <2>3. PICK n : n = VotesNeeded(w, p)
    OBVIOUS
  <2> QED
    BY <2>1, <2>2, <2>3, VotesNeededTight
<1> QED
  BY <1>1, PercentagesAreKept, PTL
=============================================================================
