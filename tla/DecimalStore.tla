---------------------------- MODULE DecimalStore ----------------------------
(***************************************************************************)
(* The life of a percentage: it comes in with the InitMsg as text, is in   *)
(* memory while a handler runs, and in between is in the storage, as text  *)
(* again (contracts/src/math.rs, impl Serialize and Deserialize).  Config  *)
(* and proposals are loaded and saved over and over, so what is lost in    *)
(* one round is lost for every later verdict.                              *)
(***************************************************************************)
EXTENDS DecimalText

CONSTANTS
    Texts,      \* the texts a message may carry
    MaxWeight,  \* bound: the weights VotesNeededIsTight looks at
    Nothing     \* no value

ASSUME StoreAssumption ==
    /\ Texts \subseteq Seq(Part)
    /\ MaxWeight \in Nat

VARIABLES
    received,   \* the text of the message
    memory,     \* the Decimal in memory
    stored      \* the text in the storage

svars == <<received, memory, stored>>

StoreInit ==
    /\ received \in Texts
    /\ memory = Nothing
    /\ stored = Nothing

\* DecimalVisitor::visit_str on the message; a text that does not parse, or
\* aborts, ends here.
Receive ==
    /\ memory = Nothing
    /\ stored = Nothing
    /\ CanFromStr(received)
    /\ memory' = FromStr(received)
    /\ UNCHANGED <<received, stored>>

\* Serialize: the handler saves its record and returns.
Save ==
    /\ memory # Nothing
    /\ stored' = Display(memory)
    /\ memory' = Nothing
    /\ UNCHANGED received

\* Deserialize: the next handler loads the record.
Load ==
    /\ memory = Nothing
    /\ stored # Nothing
    /\ CanFromStr(stored)
    /\ memory' = FromStr(stored)
    /\ UNCHANGED <<received, stored>>

StoreNext == Receive \/ Save \/ Load

StoreSpec == StoreInit /\ [][StoreNext]_svars

----------------------------------------------------------------------------
\* d is exactly the number the text spells.
Denotes(text, d) ==
    IF HasFraction(text)
    THEN d * PowerOfTen[text[2].chars]
            = (text[1].value * PowerOfTen[text[2].chars] + text[2].value)
                 * DECIMAL_FRACTIONAL
    ELSE d = text[1].value * DECIMAL_FRACTIONAL

(***************************************************************************)
(* "This never performs any kind of rounding", says from_str, and Display  *)
(* must be its inverse: after any number of saves and loads the percentage *)
(* in memory is exactly the number of the message it came with.            *)
(***************************************************************************)
PercentageSurvives ==
    memory # Nothing => memory <= MaxU128 /\ Denotes(received, memory)

(***************************************************************************)
(* What was saved can be loaded: a text that from_str refuses in the       *)
(* config or in a proposal would stop every later message on it.           *)
(***************************************************************************)
StoredTextLoads ==
    stored # Nothing => CanFromStr(stored) /\ Denotes(received, FromStr(stored))

(***************************************************************************)
(* from_str returns an error or a number and never aborts: the fraction    *)
(* and its factor are multiplied without a check, and it is the earlier    *)
(* check of the number of digits that keeps the product inside a u128.     *)
(***************************************************************************)
FromStrReturns == ~FromStrAborts(received)

(***************************************************************************)
(* "We must *round up* here, as we need 8, not 7 votes to reach 50% of 15  *)
(* total", says votes_needed: one vote less than it answers is too little, *)
(* and its answer falls short of the exact share by less than one unit of  *)
(* the last digit PRECISION_FACTOR keeps.                                  *)
(***************************************************************************)
VotesNeededIsTight ==
    memory # Nothing =>
        \A w \in 0 .. MaxWeight :
            LET n == VotesNeeded(w, memory)
            IN  /\ n > 0 => (n - 1) * DECIMAL_FRACTIONAL < memory * w
                /\ (n * DECIMAL_FRACTIONAL) * PRECISION_FACTOR
                      + DECIMAL_FRACTIONAL
                        > (memory * w) * PRECISION_FACTOR
=============================================================================
