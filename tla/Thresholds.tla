----------------------------- MODULE Thresholds -----------------------------
(***************************************************************************)
(* contracts/src/threshold.rs: the three ways a tally decides a proposal   *)
(* and the validation a threshold passes when the contract is created.     *)
(***************************************************************************)
EXTENDS DecimalMath, Expirations

AbsoluteCount(w) == [kind |-> "AbsoluteCount", weight |-> w]
AbsolutePercentage(p) == [kind |-> "AbsolutePercentage", percentage |-> p]
ThresholdQuorum(t, q) ==
    [kind |-> "ThresholdQuorum", threshold |-> t, quorum |-> q]

Threshold ==
         [kind : {"AbsoluteCount"}, weight : U64]
    \cup [kind : {"AbsolutePercentage"}, percentage : Nat]
    \cup [kind : {"ThresholdQuorum"}, threshold : Nat, quorum : Nat]

ValidThreshold(percent) == percent \in Percent(50) .. Percent(100)

ValidQuorum(percent) == percent # 0 /\ percent <= DECIMAL_FRACTIONAL

\* Threshold::validate
Validate(thr, total_weight) ==
    \/ /\ thr.kind = "AbsoluteCount"
       /\ thr.weight # 0
       /\ thr.weight <= total_weight
    \/ /\ thr.kind = "AbsolutePercentage"
       /\ ValidThreshold(thr.percentage)
    \/ /\ thr.kind = "ThresholdQuorum"
       /\ ValidThreshold(thr.threshold)
       /\ ValidQuorum(thr.quorum)

\* The fields of a threshold and the total weight.
WithTotal(thr, total_weight) ==
    [f \in DOMAIN thr \cup {"total_weight"} |->
        IF f = "total_weight" THEN total_weight ELSE thr[f]]

\* Mutant: threshold and quorum are answered for each other.
ToResponseSwapped(thr, total_weight) ==
    IF thr.kind = "ThresholdQuorum"
    THEN WithTotal(ThresholdQuorum(thr.quorum, thr.threshold), total_weight)
    ELSE WithTotal(thr, total_weight)

\* Threshold::to_response: the ThresholdResponse of a threshold.
ToResponse(thr, total_weight) == WithTotal(thr, total_weight)
=============================================================================
