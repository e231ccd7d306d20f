------------------------- MODULE MultisigProperties -------------------------
(***************************************************************************)
(* What the multisig promises: the correctness properties of Multisig.     *)
(***************************************************************************)
EXTENDS Multisig

----------------------------------------------------------------------------
(***************************************************************************)
(* The storage has the types of contracts/src/state.rs, and the ids of the *)
(* proposals are 1 .. proposal_count without a gap, so the query loops     *)
(* over ids always find a record.                                          *)
(***************************************************************************)
TypeOK ==
    /\ block \in Block
    /\ config \in Config
    /\ voters_list \in Seq(Voter)
    /\ DOMAIN voters \subseteq Addr
    /\ voters \in [DOMAIN voters -> U64]
    /\ proposal_count \in 0 .. MaxProposals
    /\ proposals \in [1 .. proposal_count -> Proposal]
    /\ DOMAIN ballots \subseteq (1 .. proposal_count) \X DOMAIN voters
    /\ ballots \in [DOMAIN ballots -> Ballot]
    /\ dispatched \in [1 .. proposal_count -> Nat]

----------------------------------------------------------------------------
\* The tally against the ballots

\* Who cast `vote' on proposal id.
VotersFor(id, vote) ==
    {a \in DOMAIN voters : /\ <<id, a>> \in DOMAIN ballots
                           /\ ballots[<<id, a>>].vote = vote}

(***************************************************************************)
(* The running tally of a proposal (execute_propose, execute_vote and      *)
(* Votes::add_vote) is at all times what a recount of its ballots gives:   *)
(* per option, the weight of the voters who chose it.  The two are saved   *)
(* under different keys and never compared by the code.                    *)
(***************************************************************************)
TallyMatchesBallots ==
    /\ \A key \in DOMAIN ballots : ballots[key].weight = voters[key[2]]
    /\ \A id \in DOMAIN proposals, vote \in VoteOption :
          proposals[id].votes[vote] = WeightSum(voters, VotersFor(id, vote))

(***************************************************************************)
(* All the votes of a proposal together never exceed its total weight: the *)
(* u64 subtractions total_weight - votes.abstain and                       *)
(* total_weight - weight_needed of is_passed and is_rejected, and the sum  *)
(* in Votes::total, can neither underflow nor overflow (overflow-checks    *)
(* would abort every later transaction on the proposal).                   *)
(***************************************************************************)
TallyWithinTotalWeight ==
    \A id \in DOMAIN proposals :
        /\ TotalVotes(proposals[id].votes) <= proposals[id].total_weight
        /\ proposals[id].threshold.kind = "AbsoluteCount" =>
              proposals[id].threshold.weight <= proposals[id].total_weight

----------------------------------------------------------------------------
\* Verdicts

(***************************************************************************)
(* The rule a finished vote is held to, as the documentation of            *)
(* ThresholdResponse words it, by cross-multiplication instead of          *)
(* votes_needed.  It is meant for percentages of at most as many digits as *)
(* PRECISION_FACTOR keeps.                                                 *)
(***************************************************************************)
MeetsRule(p) ==
    LET yes == p.votes["Yes"]
        one == DECIMAL_FRACTIONAL
    IN  \/ /\ p.threshold.kind = "AbsoluteCount"
           /\ yes >= p.threshold.weight
        \/ /\ p.threshold.kind = "AbsolutePercentage"
           /\ yes * one >= p.threshold.percentage * PossibleOpinions(p)
        \/ /\ p.threshold.kind = "ThresholdQuorum"
           /\ TotalVotes(p.votes) * one >= p.threshold.quorum * p.total_weight
           /\ yes * one >= p.threshold.threshold
                             * (yes + p.votes["No"] + p.votes["Veto"])

\* The tallies p may still end with: none but its own once it is expired.
FinalTallies(p, blk) ==
    IF IsExpired(p.expires, blk)
    THEN {p}
    ELSE {q \in {[p EXCEPT !.votes = w] :
                    w \in [VoteOption -> 0 .. p.total_weight]} :
             /\ TotalVotes(q.votes) <= p.total_weight
             /\ \A v \in VoteOption : q.votes[v] >= p.votes[v]}

(***************************************************************************)
(* Proposal::is_passed is right to stop the vote early: whatever votes     *)
(* were still missing, a Passed or Executed proposal would have met its    *)
(* rule at the end of the voting period, and once the period is over it    *)
(* does.                                                                   *)
(***************************************************************************)
PassIsSure ==
    \A id \in DOMAIN proposals :
        proposals[id].status \in {"Passed", "Executed"} =>
            \A q \in FinalTallies(proposals[id], block) : MeetsRule(q)

(***************************************************************************)
(* Proposal::is_rejected is right to stop the vote early: no votes that    *)
(* were still missing could have made a proposal pass that was rejected    *)
(* before its expiration.                                                  *)
(***************************************************************************)
RejectionIsSure ==
    \A id \in DOMAIN proposals :
        /\ proposals[id].status = "Rejected"
        /\ ~IsExpired(proposals[id].expires, block)
        => \A q \in FinalTallies(proposals[id], block) : ~MeetsRule(q)

\* The stored status of p is the current one, or no worse than out of date: p
\* is expired, and what the status hides is not that p passes.
UpToDate(p, blk) ==
    CurrentStatus(p, blk) # p.status =>
        /\ IsExpired(p.expires, blk)
        /\ p.threshold.kind # "ThresholdQuorum" =>
              CurrentStatus(p, blk) = "Rejected"

(***************************************************************************)
(* How stale a stored status can be.  Execute and Close go by it and       *)
(* query_proposal answers it, but only execute_propose and execute_vote    *)
(* bring it up to date.  While votes are taken it is the current one: no   *)
(* proposal stays Open when its votes already decide it.  Once expired it  *)
(* may lag behind, but under the two absolute rules only where the current *)
(* status is Rejected: nothing that passes is stored Open.                 *)
(***************************************************************************)
OpenIsUndecided == \A id \in DOMAIN proposals : UpToDate(proposals[id], block)

\* Rejected when its voting period is over, although its votes meet its rule.
Wronged(p) ==
    /\ p.status = "Rejected"
    /\ IsExpired(p.expires, block)
    /\ MeetsRule(p)

(***************************************************************************)
(* A Rejected proposal did not pass: its final votes do not meet its rule. *)
(* README, "Once a proposal has expired without passing, anyone can submit *)
(* a Close message".                                                       *)
(***************************************************************************)
RejectedDidNotPass == \A id \in DOMAIN proposals : ~Wronged(proposals[id])

(***************************************************************************)
(* The same for the two absolute rules.  Their verdict does not change     *)
(* with the expiration, so neither execute_close nor the proposer's early  *)
(* deadline may turn votes that meet the rule into a rejection, whichever  *)
(* of the two statuses Close finds stored.                                 *)
(***************************************************************************)
AbsoluteRejectedDidNotPass ==
    \A id \in DOMAIN proposals :
        proposals[id].threshold.kind # "ThresholdQuorum"
            => ~Wronged(proposals[id])

(***************************************************************************)
(* "Returns true if this proposal is sure to be rejected (even before      *)
(* expiration, if no future sequence of possible votes could cause it to   *)
(* pass)", says the comment on Proposal::is_rejected: a proposal that      *)
(* takes votes can still pass.                                             *)
(***************************************************************************)
OpenMayStillPass ==
    \A id \in DOMAIN proposals :
        /\ proposals[id].status = "Open"
        /\ ~IsExpired(proposals[id].expires, block)
        => \E q \in FinalTallies(proposals[id], block) : MeetsRule(q)

(***************************************************************************)
(* "If enough "Yes" votes were submitted before the proposal expiration    *)
(* date, the status is set to "Passed"", says the README: a proposal that  *)
(* passed has some weight behind it.                                       *)
(***************************************************************************)
PassedHasSupport ==
    \A id \in DOMAIN proposals :
        proposals[id].status \in {"Passed", "Executed"} =>
            proposals[id].votes["Yes"] > 0

(***************************************************************************)
(* "We allow execution even after the proposal "expiration" as long as all *)
(* vote come in before that point.  If it was approved on time, it can be  *)
(* executed any time", says execute_execute: what is approved, and so can  *)
(* be executed, is approved in a block before its expiration.              *)
(***************************************************************************)
ApprovedOnTime ==
    [][ \A id \in DOMAIN proposals' :
          /\ proposals'[id].status = "Passed"
          /\ id \in DOMAIN proposals => proposals[id].status # "Passed"
          => ~IsExpired(proposals'[id].expires, block) ]_vars

(***************************************************************************)
(* votes_needed is there "so Decimal works with u64": the status of the    *)
(* proposal any member makes next can be computed without overflow,        *)
(* whatever u64 weights the contract was created with.                     *)
(***************************************************************************)
MembersCanPropose ==
    \A sender \in DOMAIN voters :
        AfterFits(config.max_voting_period, block) =>
            StatusComputable(
                ProposalDraft(sender, After(config.max_voting_period, block)),
                block)

----------------------------------------------------------------------------
\* The life of a proposal

(***************************************************************************)
(* The messages of a proposal are handed to the chain exactly once when it *)
(* is Executed and never otherwise (execute_execute), however transactions *)
(* interleave.                                                             *)
(***************************************************************************)
ExecutedExactlyOnce ==
    \A id \in DOMAIN proposals :
        dispatched[id] = (IF proposals[id].status = "Executed" THEN 1 ELSE 0)

\* What may become of a status by one transaction.
StatusSuccessors(status) ==
    CASE status = "Open"   -> {"Open", "Passed", "Rejected"}
      [] status = "Passed" -> {"Passed", "Executed"}
      [] OTHER             -> {status}

(***************************************************************************)
(* No message ever undoes a decision: a Passed proposal can only be        *)
(* executed, a Rejected or Executed one never changes, a decided tally is  *)
(* frozen with its ballots, and the terms a proposal was made under        *)
(* (expiration, threshold, total weight) are those it is decided by.       *)
(***************************************************************************)
DecisionIsFinal ==
    [][ \A id \in DOMAIN proposals :
          /\ id \in DOMAIN proposals'
          /\ proposals'[id].status \in StatusSuccessors(proposals[id].status)
          /\ proposals[id].status # "Open" =>
                /\ proposals'[id].votes = proposals[id].votes
                /\ \A a \in DOMAIN voters :
                      (<<id, a>> \in DOMAIN ballots')
                         => (<<id, a>> \in DOMAIN ballots)
          /\ \A field \in {"expires", "threshold", "total_weight"} :
                proposals'[id][field] = proposals[id][field] ]_vars

(***************************************************************************)
(* Every stored expiration is one the chain reaches: finite, of the kind   *)
(* of the voting period, and no later than max_voting_period from now.     *)
(***************************************************************************)
ExpiryWithinPeriod ==
    \A id \in DOMAIN proposals :
        LET limit == After(config.max_voting_period, block)
        IN  /\ proposals[id].expires.kind = limit.kind
            /\ proposals[id].expires.at <= limit.at

(***************************************************************************)
(* No vote goes on forever, whatever `latest' its proposer asked for: as   *)
(* long as the chain makes blocks every proposal is decided or expires,    *)
(* and then anyone can close it.                                           *)
(***************************************************************************)
VotingEnds ==
    \A id \in 1 .. MaxProposals :
        (id \in DOMAIN proposals) ~>
            /\ id \in DOMAIN proposals
            /\ \/ proposals[id].status # "Open"
               \/ IsExpired(proposals[id].expires, block)
=============================================================================
