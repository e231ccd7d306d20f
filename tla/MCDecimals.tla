----------------------------- MODULE MCDecimals -----------------------------
(***************************************************************************)
(* DecimalStore for TLC: two digits behind the dot, of which votes_needed  *)
(* keeps one, as it keeps 9 of 18.  29.99 is the largest Decimal.          *)
(***************************************************************************)
EXTENDS DecimalStore

\* 0 to 31 with and without leading zeros, and numbers beyond a u128.
WholeParts ==
         {Spelled(n, v) : n \in {2, 3}, v \in 0 .. 31}
    \cup {Spelled(1, v) : v \in 0 .. 9}
    \cup {Spelled(4, v) : v \in {2999, 3000}}
    \cup {Garbled(0), Garbled(1)}

\* Every fraction of up to two digits, and some longer ones.
FractionParts ==
         {Spelled(1, v) : v \in 0 .. 9}
    \cup {Spelled(2, v) : v \in 0 .. 99}
    \cup {Spelled(3, v) : v \in {0, 5, 50, 500, 999}}
    \cup {Spelled(4, 3000), Garbled(0), Garbled(2)}

AllTexts ==
         {<<w>> : w \in WholeParts}
    \cup {<<w, f>> : w \in WholeParts, f \in FractionParts}
    \cup {<<Spelled(1, 1), Spelled(1, 2), Spelled(1, 3)>>}
=============================================================================
