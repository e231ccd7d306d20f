----------------------------- MODULE MCQueries -----------------------------
(***************************************************************************)
(* Instances of MultisigQueries for TLC: the 30 and 10 of the code become  *)
(* a MAX_LIMIT of 2 and a DEFAULT_LIMIT of at most 2, which three          *)
(* proposals outnumber.                                                    *)
(***************************************************************************)
EXTENDS MultisigQueries

CONSTANTS a, b   \* accounts

Entry(addr, weight) == [addr |-> addr, weight |-> weight]

Distinct == << Entry(a, 2), Entry(b, 1) >>

\* a is entered twice, first with weight 2 and then with weight 1.
Repeated == << Entry(a, 2), Entry(b, 1), Entry(a, 1) >>

Msg(list, threshold) ==
    [ voters            |-> list,
      threshold         |-> threshold,
      max_voting_period |-> [kind |-> "Height", len |-> 1] ]

CountAndQuorum ==
    {AbsoluteCount(3), ThresholdQuorum(Percent(75), Percent(50))}

DistinctInitMsgs == {Msg(Distinct, t) : t \in CountAndQuorum}
RepeatedInitMsgs == {Msg(Repeated, AbsoluteCount(3))}

QLatest == {NoLatest}
QGenesis == [height |-> 1, time |-> 1]
=============================================================================
