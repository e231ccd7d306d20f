----------------------------- MODULE MCMultisig -----------------------------
(***************************************************************************)
(* Instances of Multisig for TLC.  Percentages are whole percents of       *)
(* DECIMAL_FRACTIONAL = 1000 with PRECISION_FACTOR = 100, so votes_needed  *)
(* loses no digit, as with the real 10^18 and 10^9.                        *)
(***************************************************************************)
EXTENDS MultisigKOfN

CONSTANTS a, b, c, z   \* accounts

Entry(addr, weight) == [addr |-> addr, weight |-> weight]

\* Different weights, one of them zero: z may propose and not vote.
Weighted == << Entry(a, 2), Entry(b, 1), Entry(c, 1), Entry(z, 0) >>

\* One voter each, as in tests/integration.ts.
Equal == << Entry(a, 1), Entry(b, 1), Entry(c, 1) >>

Msg(list, threshold, period) ==
    [voters |-> list, threshold |-> threshold, max_voting_period |-> period]

Heights(n) == [kind |-> "Height", len |-> n]
Seconds(n) == [kind |-> "Time", len |-> n]

Majority == AbsolutePercentage(Percent(51))
Quorum51of50 == ThresholdQuorum(Percent(51), Percent(50))
Quorum75of50 == ThresholdQuorum(Percent(75), Percent(50))

MCGenesis == [height |-> 1, time |-> 1]

\* Two voters and the one who is listed twice: the last entry counts for the
\* bucket, both count for total_weight.
Repeated == << Entry(a, 1), Entry(b, 1), Entry(a, 2) >>

CoreInitMsgs ==
         {Msg(Equal, AbsoluteCount(2), Heights(2))}
    \cup {Msg(Repeated, Quorum51of50, Seconds(2))}

VerdictInitMsgs ==
    {Msg(Weighted, t, d) :
        t \in {AbsoluteCount(3), AbsoluteCount(4), Majority,
               AbsolutePercentage(Percent(50)), Quorum51of50, Quorum75of50},
        d \in {Heights(2), Seconds(3)}}

QuorumInitMsgs == {Msg(Equal, Quorum51of50, Heights(2))}
LateInitMsgs == {Msg(Weighted, Quorum51of50, Heights(2))}
MajorityInitMsgs == {Msg(Weighted, Majority, Heights(2))}

CountInitMsgs ==
         {Msg(Equal, AbsoluteCount(2), Heights(2))}
    \cup {Msg(Weighted, AbsoluteCount(w), Seconds(2)) : w \in {1, 3}}

\* One voter, of little weight and of the largest a u64 holds.
HeavyInitMsgs ==
    {Msg(<< Entry(a, w) >>, AbsolutePercentage(Percent(50)), Heights(1)) :
        w \in {2, MaxU64}}

\* No deadline asked for, one before and one after the limit; then also Never,
\* a deadline already past and one of the other kind.
CoreLatest == {NoLatest, AtHeight(2), AtHeight(5)}
AllLatest == {NoLatest, Never, AtHeight(0), AtHeight(3), AtTime(2)}
=============================================================================
