------------------------------- MODULE Tally -------------------------------
(***************************************************************************)
(* The Votes and Proposal types of contracts/src/state.rs: the running     *)
(* tally of a proposal and the rules that turn it into a verdict.          *)
(*                                                                         *)
(* A proposal keeps the fields the rules read; title, description and the  *)
(* messages it would send are payload no rule looks at.                    *)
(***************************************************************************)
EXTENDS Thresholds

VoteOption == {"Yes", "No", "Abstain", "Veto"}

Status == {"Pending", "Open", "Rejected", "Passed", "Executed"}

Votes == [VoteOption -> Nat]

Proposal == [ start_height : U64,
              expires      : Expiration,
              status       : Status,
              threshold    : Threshold,
              total_weight : U64,
              votes        : Votes ]

Ballot == [weight : U64, vote : VoteOption]

----------------------------------------------------------------------------
\* Votes::yes, Votes::add_vote and Votes::total

VotesYes(init_weight) ==
    [v \in VoteOption |-> IF v = "Yes" THEN init_weight ELSE 0]

\* Mutant: heads are counted instead of weights.
AddVoteByHead(votes, vote, weight) == [votes EXCEPT ![vote] = @ + 1]

AddVote(votes, vote, weight) == [votes EXCEPT ![vote] = @ + weight]

TotalVotes(votes) ==
    votes["Yes"] + votes["No"] + votes["Abstain"] + votes["Veto"]

----------------------------------------------------------------------------
\* The weight that has an opinion, or may still form one.

\* What has not abstained of the whole weight: every vote still missing may
\* be cast with an opinion.
PossibleOpinions(p) == p.total_weight - p.votes["Abstain"]

\* Mutant: the votes still missing are ignored before expiration, too.
OpinionsCastOnly(p, blk) == TotalVotes(p.votes) - p.votes["Abstain"]

\* Once expired only the votes that were cast count.
Opinions(p, blk) ==
    IF IsExpired(p.expires, blk)
    THEN TotalVotes(p.votes) - p.votes["Abstain"]
    ELSE PossibleOpinions(p)

QuorumMet(p) ==
    TotalVotes(p.votes) >= VotesNeeded(p.total_weight, p.threshold.quorum)

\* Proposal::is_passed
IsPassed(p, blk) ==
    \/ /\ p.threshold.kind = "AbsoluteCount"
       /\ p.votes["Yes"] >= p.threshold.weight
    \/ /\ p.threshold.kind = "AbsolutePercentage"
       /\ p.votes["Yes"]
            >= VotesNeeded(PossibleOpinions(p), p.threshold.percentage)
    \/ /\ p.threshold.kind = "ThresholdQuorum"
       /\ QuorumMet(p)
       /\ p.votes["Yes"]
            >= VotesNeeded(Opinions(p, blk), p.threshold.threshold)

\* Mutant: rejects as soon as the No votes reach what is left for Yes.
IsRejectedOffByOne(p, blk) ==
    \/ /\ p.threshold.kind = "AbsoluteCount"
       /\ p.votes["No"] >= p.total_weight - p.threshold.weight
    \/ /\ p.threshold.kind = "AbsolutePercentage"
       /\ p.votes["No"] >= VotesNeeded(PossibleOpinions(p),
                                       Complement(p.threshold.percentage))
    \/ /\ p.threshold.kind = "ThresholdQuorum"
       /\ p.votes["No"] >= VotesNeeded(Opinions(p, blk),
                                       Complement(p.threshold.threshold))

\* Proposal::is_rejected
IsRejected(p, blk) ==
    \/ /\ p.threshold.kind = "AbsoluteCount"
       /\ p.votes["No"] > p.total_weight - p.threshold.weight
    \/ /\ p.threshold.kind = "AbsolutePercentage"
       /\ p.votes["No"] > VotesNeeded(PossibleOpinions(p),
                                      Complement(p.threshold.percentage))
    \/ /\ p.threshold.kind = "ThresholdQuorum"
       /\ p.votes["No"] > VotesNeeded(Opinions(p, blk),
                                      Complement(p.threshold.threshold))

----------------------------------------------------------------------------
(***************************************************************************)
(* Proposal::current_status: only an Open proposal moves, passing is       *)
(* looked at before rejection, and an expired proposal that did not pass   *)
(* is rejected.  update_status stores the answer.                          *)
(***************************************************************************)
CurrentStatus(p, blk) ==
    IF p.status # "Open" THEN p.status
    ELSE IF IsPassed(p, blk) THEN "Passed"
    ELSE IF IsRejected(p, blk) \/ IsExpired(p.expires, blk) THEN "Rejected"
    ELSE "Open"

UpdateStatus(p, blk) == [p EXCEPT !.status = CurrentStatus(p, blk)]

(***************************************************************************)
(* The calls of votes_needed that current_status makes on an Open          *)
(* proposal, as pairs <<weight, percentage>>, in the branches it takes.    *)
(* One that overflows a u128 aborts the transaction.                       *)
(***************************************************************************)
NeededCalls(p, blk) ==
    CASE p.threshold.kind = "AbsoluteCount" -> {}
      [] p.threshold.kind = "AbsolutePercentage" ->
              {<<PossibleOpinions(p), p.threshold.percentage>>}
         \cup {c \in {<<PossibleOpinions(p),
                        Complement(p.threshold.percentage)>>} :
                    ~IsPassed(p, blk)}
      [] p.threshold.kind = "ThresholdQuorum" ->
              {<<p.total_weight, p.threshold.quorum>>}
         \cup {c \in {<<Opinions(p, blk), p.threshold.threshold>>} :
                    QuorumMet(p)}
         \cup {c \in {<<Opinions(p, blk),
                        Complement(p.threshold.threshold)>>} :
                    ~IsPassed(p, blk)}

StatusComputable(p, blk) ==
    \A c \in NeededCalls(p, blk) : VotesNeededFits(c[1], c[2])
=============================================================================
