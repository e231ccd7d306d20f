--------------------------- MODULE VerdictProofs ---------------------------
(***************************************************************************)
(* The verdicts of Multisig are right, for every value of its constants:   *)
(* what a stored status says agrees with every way the vote may still end. *)
(***************************************************************************)
EXTENDS MultisigSafetyProofs

----------------------------------------------------------------------------
\* The parts of a proposal

LEMMA ThresholdParts ==
    ASSUME NEW thr \in Threshold
    PROVE  /\ thr.kind \in {"AbsoluteCount", "AbsolutePercentage",
                           "ThresholdQuorum"}
           /\ thr.kind = "AbsoluteCount" => thr.weight \in Nat
           /\ thr.kind = "AbsolutePercentage" => thr.percentage \in Nat
           /\ thr.kind = "ThresholdQuorum" =>
                 thr.threshold \in Nat /\ thr.quorum \in Nat
BY U64Assumption DEF Threshold, U64

LEMMA VotesParts ==
    ASSUME NEW votes \in Votes
    PROVE  /\ votes["Yes"] \in Nat /\ votes["No"] \in Nat
           /\ votes["Abstain"] \in Nat /\ votes["Veto"] \in Nat
           /\ TotalVotes(votes) \in Nat
           /\ TotalVotes(votes) = votes["Yes"] + votes["No"]
                                     + votes["Abstain"] + votes["Veto"]
BY DEF Votes, VoteOption, TotalVotes

\* The tallies a proposal may still end with, by the numbers.
LEMMA FinalTallyParts ==
    ASSUME NEW p \in Proposal, NEW blk, NEW q \in FinalTallies(p, blk),
           TotalVotes(p.votes) <= p.total_weight
    PROVE  /\ q.votes \in Votes
           /\ q.threshold = p.threshold
           /\ q.total_weight = p.total_weight
           /\ TotalVotes(q.votes) <= p.total_weight
           /\ \A v \in VoteOption : q.votes[v] >= p.votes[v]
           /\ IsExpired(p.expires, blk) => q = p
<1>1. p.votes \in Votes /\ p.total_weight \in U64
  BY DEF Proposal
<1>2. CASE IsExpired(p.expires, blk)
  <2>1. q = p
    BY <1>2 DEF FinalTallies
  <2>2. \A v \in VoteOption : p.votes[v] >= p.votes[v]
    BY <1>1 DEF Votes
  <2> QED
    BY <1>1, <2>1, <2>2
<1>3. CASE ~IsExpired(p.expires, blk)
  <2>1. PICK w \in [VoteOption -> 0 .. p.total_weight] :
            q = [p EXCEPT !.votes = w]
    BY <1>3 DEF FinalTallies
  <2>2. w \in Votes
    BY <1>1, U64Assumption DEF Votes, U64
  <2>3. /\ q.votes = w
        /\ q.threshold = p.threshold
        /\ q.total_weight = p.total_weight
    BY <2>1 DEF Proposal
  <2>4. /\ TotalVotes(q.votes) <= p.total_weight
        /\ \A v \in VoteOption : q.votes[v] >= p.votes[v]
    <3>1. /\ TotalVotes(q.votes) <= p.total_weight
          /\ \A v \in VoteOption : q.votes[v] >= p.votes[v]
      BY <1>3 DEF FinalTallies
    <3> QED
      BY <3>1
  <2> QED
    BY <1>3, <2>2, <2>3, <2>4
<1> QED
  BY <1>2, <1>3

\* The tally there is may be the last one.
LEMMA FinalTallyNow ==
    ASSUME NEW p \in Proposal, NEW blk,
           TotalVotes(p.votes) <= p.total_weight
    PROVE  p \in FinalTallies(p, blk)
<1>1. p.votes \in Votes /\ p.total_weight \in Nat
  BY U64Assumption DEF Proposal, U64
<1>2. p = [p EXCEPT !.votes = p.votes]
  BY DEF Proposal
<1>3. p.votes \in [VoteOption -> 0 .. p.total_weight]
  <2>1. /\ p.votes["Yes"] <= p.total_weight
        /\ p.votes["No"] <= p.total_weight
        /\ p.votes["Abstain"] <= p.total_weight
        /\ p.votes["Veto"] <= p.total_weight
    BY <1>1, VotesParts
  <2>2. \A v \in VoteOption : p.votes[v] \in 0 .. p.total_weight
    BY <1>1, <2>1, VotesParts DEF VoteOption
  <2> QED
    BY <1>1, <2>2 DEF Votes
<1>4. \A v \in VoteOption : p.votes[v] >= p.votes[v]
  BY <1>1 DEF Votes
<1> QED
  BY <1>2, <1>3, <1>4 DEF FinalTallies

----------------------------------------------------------------------------
\* Verdicts

\* The percentages of a threshold are kept to their last digit.
NoExcessDigitsIn(thr) ==
    /\ thr.kind = "AbsolutePercentage" => NoExcessDigits(thr.percentage)
    /\ thr.kind = "ThresholdQuorum" =>
          NoExcessDigits(thr.threshold) /\ NoExcessDigits(thr.quorum)

\* A percentage rule that is met while O may have an opinion is met by more
\* Yes votes among fewer opinions.
LEMMA ShareKept ==
    ASSUME NEW D \in Nat, NEW t \in Nat, NEW O \in Nat, NEW S \in Nat,
           NEW y \in Nat, NEW z \in Nat,
           y * D >= t * O, S <= O, z >= y
    PROVE  z * D >= t * S
<1>1. t * S <= t * O
  BY ScaleLess
<1>2. D * y <= D * z
  BY ScaleLess
<1>3. t * S \in Int /\ t * O \in Int
  OBVIOUS
<1>4. D * y \in Int /\ D * z \in Int /\ D * y = y * D /\ D * z = z * D
  OBVIOUS
<1> QED
  BY <1>1, <1>2, <1>3, <1>4

\* A verdict of is_passed holds for every way the vote may still end.
LEMMA PassedMeetsRule ==
    ASSUME NEW p \in Proposal, NEW blk,
           TotalVotes(p.votes) <= p.total_weight,
           NoExcessDigitsIn(p.threshold), IsPassed(p, blk),
           NEW q \in FinalTallies(p, blk)
    PROVE  MeetsRule(q)
<1> DEFINE D == DECIMAL_FRACTIONAL
<1>1. /\ p.votes \in Votes
      /\ p.threshold \in Threshold
      /\ p.total_weight \in Nat
  BY U64Assumption DEF Proposal, U64
<1>2. /\ q.votes \in Votes
      /\ q.threshold = p.threshold
      /\ q.total_weight = p.total_weight
      /\ TotalVotes(q.votes) <= p.total_weight
      /\ \A v \in VoteOption : q.votes[v] >= p.votes[v]
      /\ IsExpired(p.expires, blk) => q = p
  BY FinalTallyParts
<1>3. /\ q.votes["Yes"] >= p.votes["Yes"]
      /\ q.votes["No"] >= p.votes["No"]
      /\ q.votes["Abstain"] >= p.votes["Abstain"]
      /\ q.votes["Veto"] >= p.votes["Veto"]
  BY <1>2 DEF VoteOption
<1>4. D \in Nat
  BY DecimalAssumption
<1>5. /\ PossibleOpinions(p) = p.total_weight - p.votes["Abstain"]
      /\ PossibleOpinions(q) = p.total_weight - q.votes["Abstain"]
      /\ PossibleOpinions(p) \in Nat
      /\ PossibleOpinions(q) \in Nat
      /\ PossibleOpinions(q) <= PossibleOpinions(p)
  BY <1>1, <1>2, <1>3, VotesParts DEF PossibleOpinions
<1>6. CASE p.threshold.kind = "AbsoluteCount"
  <2>1. p.votes["Yes"] >= p.threshold.weight
    BY <1>6 DEF IsPassed
  <2>2. q.votes["Yes"] >= q.threshold.weight
    BY <1>1, <1>2, <1>3, <1>6, <2>1, VotesParts, ThresholdParts
  <2> QED
    BY <1>2, <1>6, <2>2 DEF MeetsRule
<1>7. CASE p.threshold.kind = "AbsolutePercentage"
  <2> DEFINE t == p.threshold.percentage
             n == VotesNeeded(PossibleOpinions(p), t)
  <2>1. t \in Nat /\ NoExcessDigits(t)
    BY <1>1, <1>7, ThresholdParts DEF NoExcessDigitsIn
  <2>2. p.votes["Yes"] >= n
    BY <1>7 DEF IsPassed
  <2>3. n \in Int /\ n * D >= t * PossibleOpinions(p)
    BY <1>5, <2>1, VotesNeededAtLeast, VotesNeededInteger
  <2> HIDE DEF n
  <2>4. q.votes["Yes"] * D >= t * PossibleOpinions(q)
    <3>1. D * n <= D * p.votes["Yes"]
      BY <1>1, <1>4, <2>2, <2>3, VotesParts, ScaleLess
    <3>2. p.votes["Yes"] * D >= t * PossibleOpinions(p)
      BY <1>1, <1>4, <1>5, <2>1, <2>3, <3>1, VotesParts
    <3> QED
      BY <1>1, <1>2, <1>3, <1>4, <1>5, <2>1, <3>2, VotesParts, ShareKept
  <2> QED
    BY <1>2, <1>7, <2>4 DEF MeetsRule
<1>8. CASE p.threshold.kind = "ThresholdQuorum"
  <2> DEFINE t == p.threshold.threshold
             u == p.threshold.quorum
             S == q.votes["Yes"] + q.votes["No"] + q.votes["Veto"]
             m == VotesNeeded(p.total_weight, u)
             n == VotesNeeded(Opinions(p, blk), t)
  <2>1. /\ t \in Nat /\ NoExcessDigits(t)
        /\ u \in Nat /\ NoExcessDigits(u)
    BY <1>1, <1>8, ThresholdParts DEF NoExcessDigitsIn
  <2>2. TotalVotes(p.votes) >= m /\ p.votes["Yes"] >= n
    BY <1>8 DEF IsPassed, QuorumMet
  <2>3. Opinions(p, blk) \in Nat /\ S \in Nat /\ S <= Opinions(p, blk)
    BY <1>1, <1>2, <1>3, <1>5, VotesParts DEF Opinions
  <2>4. /\ m \in Int /\ m * D >= u * p.total_weight
        /\ n \in Int /\ n * D >= t * Opinions(p, blk)
    BY <1>1, <2>1, <2>3, VotesNeededAtLeast, VotesNeededInteger
  <2> HIDE DEF m, n
  <2>5. TotalVotes(q.votes) * D >= u * p.total_weight
    <3>1. TotalVotes(q.votes) >= TotalVotes(p.votes)
      BY <1>1, <1>2, <1>3, VotesParts
    <3>2. D * m <= D * TotalVotes(q.votes)
      BY <1>1, <1>2, <1>4, <2>2, <2>4, <3>1, VotesParts, ScaleLess
    <3> QED
      BY <1>1, <1>2, <1>4, <2>1, <2>4, <3>2, VotesParts
  <2>6. q.votes["Yes"] * D >= t * S
    <3>1. D * n <= D * p.votes["Yes"]
      BY <1>1, <1>4, <2>2, <2>4, VotesParts, ScaleLess
    <3>2. p.votes["Yes"] * D >= t * Opinions(p, blk)
      BY <1>1, <1>4, <2>1, <2>3, <2>4, <3>1, VotesParts
    <3> QED
      BY <1>1, <1>2, <1>3, <1>4, <2>1, <2>3, <3>2, VotesParts, ShareKept
  <2> QED
    BY <1>2, <1>8, <2>5, <2>6 DEF MeetsRule
<1> QED
  BY <1>1, <1>6, <1>7, <1>8, ThresholdParts

\* No percentage of a threshold is more than the whole.
PercentagesAtMostOne(thr) ==
    /\ thr.kind = "AbsolutePercentage" => thr.percentage <= DECIMAL_FRACTIONAL
    /\ thr.kind = "ThresholdQuorum" =>
          thr.threshold <= DECIMAL_FRACTIONAL /\ thr.quorum <= DECIMAL_FRACTIONAL

LEMMA ValidPercentages ==
    ASSUME NEW thr \in Threshold, NEW w, Validate(thr, w)
    PROVE  PercentagesAtMostOne(thr)
<1>1. Percent(100) = DECIMAL_FRACTIONAL
  <2>1. DECIMAL_FRACTIONAL \in Nat
    BY DecimalAssumption
  <2> QED
    BY <2>1 DEF Percent
<1>2. Percent(50) \in Int /\ Percent(100) \in Int
  BY DecimalAssumption DEF Percent
<1> QED
  BY <1>1, <1>2
  DEF Validate, ValidThreshold, ValidQuorum, PercentagesAtMostOne

\* With more No than the complement of t has a share of O opinions, no y Yes
\* among S of them, of which k are No, reach the share t.
LEMMA ShareOutOfReach ==
    ASSUME NEW D \in Nat, NEW t \in Nat, t <= D, NEW O \in Nat,
           NEW S \in Nat, S <= O, NEW y \in Nat, NEW k \in Nat, y + k <= S,
           k * D > (D - t) * O
    PROVE  ~(y * D >= t * S)
<1>1. (D - t) * S <= (D - t) * O
  BY ScaleLess
<1>2. D * (y + k) <= D * S
  BY ScaleLess
<1>3. (D - t) * S = D * S - t * S
  OBVIOUS
<1>4. D * (y + k) = y * D + k * D
  OBVIOUS
<1>5. /\ D * S \in Int /\ t * S \in Int /\ y * D \in Int /\ k * D \in Int
      /\ (D - t) * O \in Int
  OBVIOUS
<1> QED
  BY <1>1, <1>2, <1>3, <1>4, <1>5

\* The same with the number of No votes is_rejected asks for.
LEMMA NoMajorityIsEnough ==
    ASSUME NEW t \in Nat, t <= DECIMAL_FRACTIONAL, NoExcessDigits(t),
           NEW O \in Nat, NEW S \in Nat, S <= O,
           NEW y \in Nat, NEW k \in Nat, y + k <= S,
           NEW l \in Nat, l <= k, l > VotesNeeded(O, Complement(t))
    PROVE  ~(y * DECIMAL_FRACTIONAL >= t * S)
<1> DEFINE D == DECIMAL_FRACTIONAL
           F == PRECISION_FACTOR
           c == Complement(t)
           n == VotesNeeded(O, c)
<1>1. D \in Nat \ {0} /\ F \in Nat \ {0}
  BY DecimalAssumption
<1>2. c = D - t /\ c \in Nat
  BY <1>1 DEF Complement
<1>3. NoExcessDigits(c)
  <2>1. (F * t) % D = 0
    BY DEF NoExcessDigits
  <2>2. PICK e \in Int : F * t = D * e
    BY <1>1, <2>1
  <2>3. F * c = D * (F - e)
    BY <1>1, <1>2, <2>2
  <2>4. (D * (F - e)) % D = 0
    BY <1>1
  <2> QED
    BY <2>3, <2>4 DEF NoExcessDigits
<1>4. n \in Int /\ n * D >= c * O
  BY <1>2, <1>3, VotesNeededAtLeast, VotesNeededInteger
<1>5. n + 1 <= k
  BY <1>4
<1> HIDE DEF n, D
<1>6. D * (n + 1) <= D * k
  BY <1>1, <1>4, <1>5, ScaleLess
<1>7. D * (n + 1) = n * D + D
  BY <1>1, <1>4
<1>8. k * D > (D - t) * O
  <2>1. D * k \in Int /\ n * D \in Int /\ c * O \in Int /\ D * k = k * D
    BY <1>1, <1>2, <1>4
  <2> QED
    BY <1>1, <1>2, <1>4, <1>6, <1>7, <2>1
<1> QED
  BY <1>1, <1>8, ShareOutOfReach DEF D

\* A verdict of is_rejected before the expiration holds for every way the
\* vote may still end.
LEMMA RejectedMissesRule ==
    ASSUME NEW p \in Proposal, NEW blk,
           TotalVotes(p.votes) <= p.total_weight,
           NoExcessDigitsIn(p.threshold), PercentagesAtMostOne(p.threshold),
           IsRejected(p, blk), ~IsExpired(p.expires, blk),
           NEW q \in FinalTallies(p, blk)
    PROVE  ~MeetsRule(q)
<1>1. /\ p.votes \in Votes
      /\ p.threshold \in Threshold
      /\ p.total_weight \in Nat
  BY U64Assumption DEF Proposal, U64
<1>2. /\ q.votes \in Votes
      /\ q.threshold = p.threshold
      /\ q.total_weight = p.total_weight
      /\ TotalVotes(q.votes) <= p.total_weight
      /\ \A v \in VoteOption : q.votes[v] >= p.votes[v]
  BY FinalTallyParts
<1>3. /\ q.votes["No"] >= p.votes["No"]
      /\ q.votes["Abstain"] >= p.votes["Abstain"]
  BY <1>2 DEF VoteOption
<1>4. /\ Opinions(p, blk) = PossibleOpinions(p)
      /\ PossibleOpinions(p) = p.total_weight - p.votes["Abstain"]
      /\ PossibleOpinions(q) = p.total_weight - q.votes["Abstain"]
      /\ PossibleOpinions(p) \in Nat
      /\ PossibleOpinions(q) \in Nat
      /\ PossibleOpinions(q) <= PossibleOpinions(p)
      /\ q.votes["Yes"] + q.votes["No"] <= PossibleOpinions(q)
  BY <1>1, <1>2, <1>3, VotesParts DEF PossibleOpinions, Opinions
<1>5. CASE p.threshold.kind = "AbsoluteCount"
  <2>1. p.votes["No"] > p.total_weight - p.threshold.weight
    BY <1>5 DEF IsRejected
  <2>2. ~(q.votes["Yes"] >= q.threshold.weight)
    BY <1>1, <1>2, <1>3, <1>5, <2>1, VotesParts, ThresholdParts
  <2> QED
    BY <1>2, <1>5, <2>2 DEF MeetsRule
<1>6. CASE p.threshold.kind = "AbsolutePercentage"
  <2> DEFINE t == p.threshold.percentage
  <2>1. t \in Nat /\ NoExcessDigits(t) /\ t <= DECIMAL_FRACTIONAL
    BY <1>1, <1>6, ThresholdParts DEF NoExcessDigitsIn, PercentagesAtMostOne
  <2>2. p.votes["No"] > VotesNeeded(PossibleOpinions(p), Complement(t))
    BY <1>6 DEF IsRejected
  <2> HIDE DEF t
  <2>3. ~(q.votes["Yes"] * DECIMAL_FRACTIONAL >= t * PossibleOpinions(q))
    BY <1>1, <1>2, <1>3, <1>4, <2>1, <2>2, VotesParts, NoMajorityIsEnough
  <2> QED
    BY <1>2, <1>6, <2>3 DEF MeetsRule, t
<1>7. CASE p.threshold.kind = "ThresholdQuorum"
  <2> DEFINE t == p.threshold.threshold
             S == q.votes["Yes"] + q.votes["No"] + q.votes["Veto"]
  <2>1. t \in Nat /\ NoExcessDigits(t) /\ t <= DECIMAL_FRACTIONAL
    BY <1>1, <1>7, ThresholdParts DEF NoExcessDigitsIn, PercentagesAtMostOne
  <2>2. p.votes["No"] > VotesNeeded(PossibleOpinions(p), Complement(t))
    BY <1>4, <1>7 DEF IsRejected
  <2>3. /\ S \in Nat /\ S <= PossibleOpinions(p)
        /\ q.votes["Yes"] + q.votes["No"] <= S
    BY <1>1, <1>2, <1>3, <1>4, VotesParts
  <2> HIDE DEF t, S
  <2>4. ~(q.votes["Yes"] * DECIMAL_FRACTIONAL >= t * S)
    BY <1>1, <1>2, <1>3, <1>4, <2>1, <2>2, <2>3, VotesParts,
       NoMajorityIsEnough
  <2> QED
    BY <1>2, <1>7, <2>4 DEF MeetsRule, t, S
<1> QED
  BY <1>1, <1>5, <1>6, <1>7, ThresholdParts

\* Under the absolute rules votes that meet the rule pass, at any time and
\* whatever digits are cut off.
LEMMA MeetsRulePasses ==
    ASSUME NEW p \in Proposal, TotalVotes(p.votes) <= p.total_weight,
           p.threshold.kind # "ThresholdQuorum", MeetsRule(p), NEW blk
    PROVE  IsPassed(p, blk)
<1>1. /\ p.votes \in Votes
      /\ p.threshold \in Threshold
      /\ p.total_weight \in Nat
  BY U64Assumption DEF Proposal, U64
<1>2. PossibleOpinions(p) \in Nat
  BY <1>1, VotesParts DEF PossibleOpinions
<1>3. CASE p.threshold.kind = "AbsoluteCount"
  BY <1>3 DEF MeetsRule, IsPassed
<1>4. CASE p.threshold.kind = "AbsolutePercentage"
  <2>1. p.votes["Yes"] * DECIMAL_FRACTIONAL
          >= p.threshold.percentage * PossibleOpinions(p)
    BY <1>4 DEF MeetsRule
  <2>2. p.threshold.percentage \in Nat
    BY <1>1, <1>4, ThresholdParts
  <2>3. p.votes["Yes"]
          >= VotesNeeded(PossibleOpinions(p), p.threshold.percentage)
    BY <1>1, <1>2, <2>1, <2>2, VotesParts, VotesNeededAtMost
  <2> QED
    BY <1>4, <2>3 DEF IsPassed
<1> QED
  BY <1>1, <1>3, <1>4, ThresholdParts
----------------------------------------------------------------------------
\* What a step does to a proposal

\* p is the outcome of update_status in this block: a new proposal, or one
\* with a new vote.
JustDecided(p) ==
    \E d \in Proposal : d.status = "Open" /\ p = UpdateStatus(d, block)

JustExecuted(old, new) ==
    /\ old.status = "Passed"
    /\ new = [old EXCEPT !.status = "Executed"]

JustClosed(old, new) ==
    /\ old.status \notin {"Executed", "Rejected", "Passed"}
    /\ IsExpired(old.expires, block)
    /\ new = [old EXCEPT !.status = "Rejected"]

(***************************************************************************)
(* Every verdict is given by update_status in the block of its vote, and   *)
(* from then on only Execute and Close touch the status.                   *)
(***************************************************************************)
Fate(i) ==
    \/ i \in DOMAIN proposals /\ proposals'[i] = proposals[i]
    \/ block' = block /\ JustDecided(proposals'[i])
    \/ /\ block' = block
       /\ i \in DOMAIN proposals
       /\ \/ JustExecuted(proposals[i], proposals'[i])
          \/ JustClosed(proposals[i], proposals'[i])

LEMMA ProposeFate ==
    ASSUME TypeOK, NEW sender \in Addr, NEW latest \in Latest,
           Propose(sender, latest), NEW i \in DOMAIN proposals'
    PROVE  Fate(i)
<1> DEFINE id == proposal_count + 1
           limit == After(config.max_voting_period, block)
           expires == ChosenExpiration(latest, limit)
<1>1. /\ sender \in DOMAIN voters
      /\ AfterFits(config.max_voting_period, block)
      /\ latest # NoLatest => ~Incomparable(latest, limit)
      /\ proposals' = Put(proposals, id, NewProposal(sender, expires))
      /\ block' = block
  BY DEF Propose, CanPropose, NextProposalId
<1>2. limit \in FiniteExpiration
  BY <1>1, AfterType DEF TypeOK, Config
<1>3. expires \in FiniteExpiration
  BY <1>1, <1>2, ChosenExpirationType
<1>4. ProposalDraft(sender, expires) \in Proposal
  BY <1>1, <1>3, NewProposalType
<1>5. ProposalDraft(sender, expires).status = "Open"
  BY DEF ProposalDraft
<1>6. JustDecided(NewProposal(sender, expires))
  BY <1>4, <1>5 DEF JustDecided, NewProposal
<1>7. \/ i = id /\ proposals'[i] = NewProposal(sender, expires)
      \/ i \in DOMAIN proposals /\ proposals'[i] = proposals[i]
  BY <1>1 DEF Put
<1> QED
  BY <1>1, <1>6, <1>7 DEF Fate

LEMMA VoteFate ==
    ASSUME TypeOK, NEW sender \in Addr, NEW id, NEW vote \in VoteOption,
           Vote(sender, id, vote), NEW i \in DOMAIN proposals'
    PROVE  Fate(i)
<1> DEFINE voted == [proposals[id] EXCEPT
                        !.votes = AddVote(@, vote, voters[sender])]
<1>1. /\ sender \in DOMAIN voters
      /\ id \in DOMAIN proposals
      /\ proposals[id].status = "Open"
      /\ proposals' = Put(proposals, id, UpdateStatus(voted, block))
      /\ block' = block
  BY DEF Vote, CanVote, MayVote, Tallied
<1>2. proposals[id] \in Proposal /\ voters[sender] \in U64
  BY <1>1 DEF TypeOK
<1>3. AddVote(proposals[id].votes, vote, voters[sender]) \in Votes
  BY <1>2, AddVoteType DEF Proposal
<1>4. voted \in Proposal /\ voted.status = "Open"
  BY <1>1, <1>2, <1>3 DEF Proposal
<1> HIDE DEF voted
<1>5. JustDecided(UpdateStatus(voted, block))
  BY <1>4 DEF JustDecided
<1>6. \/ i = id /\ proposals'[i] = UpdateStatus(voted, block)
      \/ i \in DOMAIN proposals /\ proposals'[i] = proposals[i]
  BY <1>1 DEF Put
<1> QED
  BY <1>1, <1>5, <1>6 DEF Fate

LEMMA ExecuteFate ==
    ASSUME TypeOK, NEW id, Execute(id), NEW i \in DOMAIN proposals'
    PROVE  Fate(i)
<1>1. /\ id \in DOMAIN proposals
      /\ proposals[id].status = "Passed"
      /\ proposals' = Put(proposals, id,
                          [proposals[id] EXCEPT !.status = "Executed"])
      /\ block' = block
  BY DEF Execute, CanExecute, Executed
<1>2. CASE i = id
  <2>1. proposals'[i] = [proposals[i] EXCEPT !.status = "Executed"]
    BY <1>1, <1>2 DEF Put
  <2> QED
    BY <1>1, <1>2, <2>1 DEF Fate, JustExecuted
<1>3. CASE i # id
  BY <1>1, <1>3 DEF Put, Fate
<1> QED
  BY <1>2, <1>3

LEMMA CloseFate ==
    ASSUME TypeOK, NEW id, Close(id), NEW i \in DOMAIN proposals'
    PROVE  Fate(i)
<1>1. /\ id \in DOMAIN proposals
      /\ proposals[id].status \notin {"Executed", "Rejected", "Passed"}
      /\ IsExpired(proposals[id].expires, block)
      /\ proposals' = Put(proposals, id,
                          [proposals[id] EXCEPT !.status = "Rejected"])
      /\ block' = block
  BY DEF Close, CanClose, WrongCloseStatus
<1>2. CASE i = id
  <2>1. proposals'[i] = [proposals[i] EXCEPT !.status = "Rejected"]
    BY <1>1, <1>2 DEF Put
  <2> QED
    BY <1>1, <1>2, <2>1 DEF Fate, JustClosed
<1>3. CASE i # id
  BY <1>1, <1>3 DEF Put, Fate
<1> QED
  BY <1>2, <1>3

LEMMA NextFate ==
    ASSUME TypeOK, [Next]_vars
    PROVE  \A i \in DOMAIN proposals' : Fate(i)
<1> SUFFICES ASSUME NEW i \in DOMAIN proposals' PROVE Fate(i)
  OBVIOUS
<1>1. ASSUME NEW sender \in Addr, NEW latest \in Latest,
             Propose(sender, latest)
      PROVE  Fate(i)
  BY <1>1, ProposeFate
<1>2. ASSUME NEW sender \in Addr, NEW id \in 1 .. MaxProposals,
             NEW vote \in VoteOption, Vote(sender, id, vote)
      PROVE  Fate(i)
  BY <1>2, VoteFate
<1>3. ASSUME NEW id \in 1 .. MaxProposals, Execute(id) PROVE Fate(i)
  BY <1>3, ExecuteFate
<1>4. ASSUME NEW id \in 1 .. MaxProposals, Close(id) PROVE Fate(i)
  BY <1>4, CloseFate
<1>5. ASSUME NEW dt \in TimeSteps, NewBlock(dt) PROVE Fate(i)
  BY <1>5 DEF NewBlock, Fate
<1>6. CASE UNCHANGED vars
  BY <1>6 DEF vars, Fate
<1> QED
  BY <1>1, <1>2, <1>3, <1>4, <1>5, <1>6 DEF Next

\* Time does not run back: what will not be expired is not.
LEMMA StillInTime ==
    ASSUME TypeOK, [Next]_vars, NEW e \in Expiration, ~IsExpired(e, block')
    PROVE  ~IsExpired(e, block)
<1>1. /\ block'.height >= block.height
      /\ block'.time >= block.time
      /\ block.height \in Nat /\ block.time \in Nat
      /\ block'.height \in Nat /\ block'.time \in Nat
  <2>1. /\ block.height \in Nat /\ block.time \in Nat
    BY U64Assumption DEF TypeOK, Block, U64
  <2>2. CASE block' = block
    BY <2>1, <2>2
  <2>3. ASSUME NEW dt \in TimeSteps, NewBlock(dt)
        PROVE  /\ block' = [height |-> block.height + 1,
                            time |-> block.time + dt]
               /\ dt \in Nat
    BY <2>3, MultisigAssumption DEF NewBlock
  <2>4. block' = block \/ \E dt \in TimeSteps : NewBlock(dt)
    BY DEF Next, vars, Propose, Vote, Execute, Close
  <2> QED
    BY <2>1, <2>2, <2>3, <2>4
<1>2. e.kind # "Never" => e.at \in Nat
  BY U64Assumption DEF Expiration, FiniteExpiration, Never, U64
<1> QED
  BY <1>1, <1>2 DEF IsExpired

----------------------------------------------------------------------------
\* An open proposal is undecided

\* A second update_status in the same block finds nothing to do.
LEMMA UpdateStatusIdempotent ==
    ASSUME NEW p \in Proposal, NEW blk
    PROVE  CurrentStatus(UpdateStatus(p, blk), blk) = CurrentStatus(p, blk)
<1> DEFINE s == CurrentStatus(p, blk)
<1>1. UpdateStatus(p, blk).status = s
  BY UpdateStatusType
<1>2. CASE s # "Open"
  BY <1>1, <1>2 DEF CurrentStatus
<1>3. CASE s = "Open"
  <2>1. p.status = "Open"
    BY <1>3 DEF CurrentStatus
  <2>2. UpdateStatus(p, blk) = p
    BY <1>3, <2>1 DEF UpdateStatus, Proposal
  <2> QED
    BY <2>2
<1> QED
  BY <1>2, <1>3

\* Before the expiration the verdict does not depend on the block.
LEMMA VerdictBeforeExpiration ==
    ASSUME NEW p \in Proposal, NEW blk, ~IsExpired(p.expires, blk),
           NEW later, ~IsExpired(p.expires, later)
    PROVE  CurrentStatus(p, later) = CurrentStatus(p, blk)
<1>1. Opinions(p, later) = Opinions(p, blk)
  BY DEF Opinions
<1>2. /\ IsPassed(p, later) <=> IsPassed(p, blk)
      /\ IsRejected(p, later) <=> IsRejected(p, blk)
  BY <1>1 DEF IsPassed, IsRejected
<1> QED
  BY <1>2 DEF CurrentStatus

\* Under the absolute rules it never does.
LEMMA AbsoluteVerdictTimeless ==
    ASSUME NEW p \in Proposal, p.threshold.kind # "ThresholdQuorum",
           NEW blk, NEW later
    PROVE  IsPassed(p, later) <=> IsPassed(p, blk)
BY DEF IsPassed

\* As time passes a status gets no worse than out of date.
LEMMA StaysUpToDate ==
    ASSUME NEW p \in Proposal, NEW blk, UpToDate(p, blk), NEW later,
           ~IsExpired(p.expires, later) => ~IsExpired(p.expires, blk)
    PROVE  UpToDate(p, later)
<1>1. CASE ~IsExpired(p.expires, later)
  BY <1>1, VerdictBeforeExpiration DEF UpToDate
<1>2. CASE IsExpired(p.expires, later)
  <2>1. ASSUME p.threshold.kind # "ThresholdQuorum",
               CurrentStatus(p, later) # p.status
        PROVE  CurrentStatus(p, later) = "Rejected"
    <3>1. p.status = "Open"
      BY <2>1 DEF CurrentStatus
    <3>2. ~IsPassed(p, blk)
      BY <2>1, <3>1 DEF UpToDate, CurrentStatus
    <3>3. ~IsPassed(p, later)
      BY <2>1, <3>2, AbsoluteVerdictTimeless
    <3> QED
      BY <1>2, <3>1, <3>3 DEF CurrentStatus
  <2> QED
    BY <1>2, <2>1 DEF UpToDate
<1> QED
  BY <1>1, <1>2

LEMMA NextOpenIsUndecided ==
    ASSUME TypeOK, TypeOK', OpenIsUndecided, [Next]_vars
    PROVE  OpenIsUndecided'
<1> SUFFICES ASSUME NEW i \in DOMAIN proposals'
             PROVE  UpToDate(proposals'[i], block')
  BY DEF OpenIsUndecided
<1>1. proposals'[i] \in Proposal
  BY DEF TypeOK
<1>2. Fate(i)
  BY NextFate
<1>3. CASE i \in DOMAIN proposals /\ proposals'[i] = proposals[i]
  <2>1. PICK p \in Proposal : p = proposals'[i]
    BY <1>1
  <2>2. ~IsExpired(p.expires, block') => ~IsExpired(p.expires, block)
    BY StillInTime DEF Proposal
  <2>3. PICK blk, later : blk = block /\ later = block'
    OBVIOUS
  <2>4. UpToDate(p, blk)
    BY <1>3, <2>1, <2>3 DEF OpenIsUndecided
  <2>5. UpToDate(p, later)
    BY <2>2, <2>3, <2>4, StaysUpToDate
  <2> QED
    BY <2>1, <2>3, <2>5
<1>4. CASE block' = block /\ JustDecided(proposals'[i])
  <2>1. PICK d \in Proposal : proposals'[i] = UpdateStatus(d, block)
    BY <1>4 DEF JustDecided
  <2>2. CurrentStatus(proposals'[i], block') = proposals'[i].status
    BY <1>4, <2>1, UpdateStatusIdempotent, UpdateStatusType
  <2> QED
    BY <2>2 DEF UpToDate
<1>5. CASE /\ i \in DOMAIN proposals
           /\ \/ JustExecuted(proposals[i], proposals'[i])
              \/ JustClosed(proposals[i], proposals'[i])
  <2>1. proposals[i] \in Proposal
    BY <1>5 DEF TypeOK
  <2>2. proposals'[i].status # "Open"
    BY <1>5, <2>1 DEF JustExecuted, JustClosed, Proposal
  <2> QED
    BY <2>2 DEF CurrentStatus, UpToDate
<1> QED
  BY <1>2, <1>3, <1>4, <1>5 DEF Fate

(***************************************************************************)
(* execute_propose and execute_vote never leave a proposal open that its   *)
(* votes decide, and the passing of time decides none before it expires:   *)
(* the stored status is up to date for as long as votes are taken, under   *)
(* every threshold and whatever the percentages.  Afterwards, under the    *)
(* absolute rules, an Open status hides at worst that the proposal did not *)
(* pass.                                                                   *)
(***************************************************************************)
THEOREM OpenProposalsAreUndecided == Spec => []OpenIsUndecided
<1>1. Spec => []TypeOK
  BY TypeCorrect
<1>2. Init => OpenIsUndecided
  BY DEF Init, EmptyBucket, OpenIsUndecided
<1> QED
  BY <1>1, <1>2, NextOpenIsUndecided, PTL DEF Spec

----------------------------------------------------------------------------
\* The absolute rules reject nothing that meets them

(***************************************************************************)
(* The inductive invariant: Wronged looks at expired proposals alone, but  *)
(* a proposal is closed for the status it had before.  Under the absolute  *)
(* rules the votes of a proposal that did not pass do not meet its rule,   *)
(* while it is open, too.                                                  *)
(***************************************************************************)
NotPassedMissesRule ==
    \A id \in DOMAIN proposals :
        /\ proposals[id].threshold.kind # "ThresholdQuorum"
        /\ proposals[id].status \notin {"Passed", "Executed"}
        => ~MeetsRule(proposals[id])

\* The rule is about votes and terms.
LEMMA MeetsRuleOfVotes ==
    ASSUME NEW p, NEW q, q.votes = p.votes, q.threshold = p.threshold,
           q.total_weight = p.total_weight
    PROVE  MeetsRule(q) <=> MeetsRule(p)
BY DEF MeetsRule, PossibleOpinions

\* What update_status stores is the record it was given but for the status.
LEMMA JustDecidedParts ==
    ASSUME NEW d \in Proposal, d.status = "Open", NEW p,
           p = UpdateStatus(d, block)
    PROVE  /\ p.expires = d.expires
           /\ p.threshold = d.threshold
           /\ p.total_weight = d.total_weight
           /\ p.votes = d.votes
           /\ p.status = "Passed" <=> IsPassed(d, block)
           /\ p.status = "Rejected" <=>
                 /\ ~IsPassed(d, block)
                 /\ IsRejected(d, block) \/ IsExpired(d.expires, block)
           /\ p.status # "Executed"
BY UpdateStatusType DEF CurrentStatus

LEMMA NextNotPassedMissesRule ==
    ASSUME TypeOK, TypeOK', TallyWithinTotalWeight', NotPassedMissesRule,
           [Next]_vars
    PROVE  NotPassedMissesRule'
<1> SUFFICES ASSUME NEW i \in DOMAIN proposals',
                    proposals'[i].threshold.kind # "ThresholdQuorum",
                    proposals'[i].status \notin {"Passed", "Executed"}
             PROVE  ~MeetsRule(proposals'[i])
  BY DEF NotPassedMissesRule
<1>1. Fate(i)
  BY NextFate
<1>2. CASE i \in DOMAIN proposals /\ proposals'[i] = proposals[i]
  BY <1>2 DEF NotPassedMissesRule
<1>3. CASE JustDecided(proposals'[i])
  <2>1. PICK d \in Proposal :
            d.status = "Open" /\ proposals'[i] = UpdateStatus(d, block)
    BY <1>3 DEF JustDecided
  <2>2. /\ proposals'[i].threshold = d.threshold
        /\ proposals'[i].total_weight = d.total_weight
        /\ proposals'[i].votes = d.votes
        /\ ~IsPassed(d, block)
    BY <2>1, JustDecidedParts
  <2>3. TotalVotes(d.votes) <= d.total_weight
    BY <2>2 DEF TallyWithinTotalWeight
  <2>4. ~MeetsRule(d)
    BY <2>2, <2>3, MeetsRulePasses
  <2> QED
    BY <2>2, <2>4, MeetsRuleOfVotes
<1>4. CASE /\ i \in DOMAIN proposals
           /\ \/ JustExecuted(proposals[i], proposals'[i])
              \/ JustClosed(proposals[i], proposals'[i])
  <2>1. proposals[i] \in Proposal
    BY <1>4 DEF TypeOK
  <2>2. ~JustExecuted(proposals[i], proposals'[i])
    BY <2>1 DEF JustExecuted, Proposal
  <2>3. /\ proposals[i].status \notin {"Passed", "Executed"}
        /\ proposals'[i].votes = proposals[i].votes
        /\ proposals'[i].threshold = proposals[i].threshold
        /\ proposals'[i].total_weight = proposals[i].total_weight
    BY <1>4, <2>1, <2>2 DEF JustClosed, Proposal
  <2>4. ~MeetsRule(proposals[i])
    BY <1>4, <2>3 DEF NotPassedMissesRule
  <2> QED
    BY <2>3, <2>4, MeetsRuleOfVotes
<1> QED
  BY <1>1, <1>2, <1>3, <1>4 DEF Fate

(***************************************************************************)
(* Under AbsoluteCount and AbsolutePercentage no proposal whose votes meet *)
(* its rule is ever rejected, whichever way Close and the verdicts find    *)
(* it, whatever its percentage, its deadline and the weights.  For         *)
(* ThresholdQuorum this fails (the run quorum_close).                      *)
(***************************************************************************)
THEOREM AbsoluteRulesRejectRightly == Spec => []AbsoluteRejectedDidNotPass
<1>1. Spec => []TypeOK
  BY TypeCorrect
<1>2. Spec => []TallyWithinTotalWeight
  BY TallyNeverExceedsTotal
<1>3. Init => NotPassedMissesRule
  BY DEF Init, EmptyBucket, NotPassedMissesRule
<1>4. NotPassedMissesRule => AbsoluteRejectedDidNotPass
  BY DEF NotPassedMissesRule, AbsoluteRejectedDidNotPass, Wronged
<1> QED
  BY <1>1, <1>2, <1>3, <1>4, NextNotPassedMissesRule, PTL DEF Spec

----------------------------------------------------------------------------
\* Approval on time

\* The contracts whose voting period takes some time.
PeriodsTakeTime ==
    \A msg \in InitMsgs : msg.max_voting_period.len > 0

\* The proposals made with no deadline, or one that is still to come.
DeadlinesAhead ==
    \A sender \in Addr, latest \in Latest :
        Propose(sender, latest) /\ latest # NoLatest =>
            ~IsExpired(latest, block)

PeriodTakesTime == config.max_voting_period.len > 0

LEMMA AlwaysPeriodTakesTime ==
    ASSUME PeriodsTakeTime
    PROVE  Spec => []PeriodTakesTime
<1>1. Init => PeriodTakesTime
  BY DEF Init, PeriodsTakeTime, PeriodTakesTime
<1>2. PeriodTakesTime /\ [Next]_vars => PeriodTakesTime'
  BY DEF Next, vars, Propose, Vote, Execute, Close, NewBlock, configured,
         PeriodTakesTime
<1> QED
  BY <1>1, <1>2, PTL DEF Spec

\* The limit of a period that takes time is not reached in the same block.
LEMMA LimitIsAhead ==
    ASSUME TypeOK, PeriodTakesTime
    PROVE  ~IsExpired(After(config.max_voting_period, block), block)
<1>1. /\ block.height \in Nat /\ block.time \in Nat
      /\ config.max_voting_period.len \in Nat
      /\ config.max_voting_period.kind \in {"Height", "Time"}
  BY U64Assumption DEF TypeOK, Block, Config, Duration, U64
<1> QED
  BY <1>1 DEF PeriodTakesTime, After, AtHeight, AtTime, IsExpired

\* What becomes Passed in a step.
NewlyPassed(i) ==
    /\ i \in DOMAIN proposals'
    /\ proposals'[i].status = "Passed"
    /\ i \in DOMAIN proposals => proposals[i].status # "Passed"

(***************************************************************************)
(* Whatever the votes and the rules, the only way to approve a proposal    *)
(* after its expiration is to make it with a deadline in the past (or in a *)
(* contract with a voting period of no length): otherwise what is approved *)
(* is approved on time, as execute_execute has it.  (The run late_approval *)
(* shows the other.)                                                       *)
(***************************************************************************)
THEOREM PassesAreOnTime ==
    ASSUME PeriodsTakeTime
    PROVE  Spec /\ [][DeadlinesAhead]_vars => ApprovedOnTime
<1>1. ASSUME TypeOK, PeriodTakesTime, [Next]_vars, [DeadlinesAhead]_vars,
             NEW i, NewlyPassed(i)
      PROVE  ~IsExpired(proposals'[i].expires, block)
  <2>1. ASSUME NEW sender \in Addr, NEW latest \in Latest,
               Propose(sender, latest)
        PROVE  ~IsExpired(proposals'[i].expires, block)
    <3> DEFINE limit == After(config.max_voting_period, block)
               expires == ChosenExpiration(latest, limit)
               id == proposal_count + 1
    <3>1. /\ AfterFits(config.max_voting_period, block)
          /\ latest # NoLatest => ~Incomparable(latest, limit)
          /\ proposals' = Put(proposals, id, NewProposal(sender, expires))
          /\ sender \in DOMAIN voters
      BY <2>1 DEF Propose, CanPropose, NextProposalId
    <3>2. i = id /\ proposals'[i] = NewProposal(sender, expires)
      BY <1>1, <3>1 DEF NewlyPassed, Put
    <3>3. limit \in FiniteExpiration
      BY <1>1, <3>1, AfterType DEF TypeOK, Config
    <3>4. ProposalDraft(sender, expires) \in Proposal
      BY <1>1, <3>1, <3>3, ChosenExpirationType, NewProposalType
    <3>5. proposals'[i].expires = expires
      BY <3>2, <3>4, UpdateStatusType DEF NewProposal, ProposalDraft
    <3>6. ~IsExpired(limit, block)
      BY <1>1, LimitIsAhead
    <3>7. latest # NoLatest => ~IsExpired(latest, block)
      <4>1. proposals' # proposals
        BY <1>1, <3>2 DEF NewlyPassed
      <4>2. DeadlinesAhead
        BY <1>1, <4>1 DEF vars
      <4> QED
        BY <2>1, <4>2 DEF DeadlinesAhead
    <3> QED
      BY <3>5, <3>6, <3>7 DEF ChosenExpiration
  <2>2. ASSUME NEW sender \in Addr, NEW id \in 1 .. MaxProposals,
               NEW vote \in VoteOption, Vote(sender, id, vote)
        PROVE  ~IsExpired(proposals'[i].expires, block)
    <3> DEFINE voted == [proposals[id] EXCEPT
                            !.votes = AddVote(@, vote, voters[sender])]
    <3>1. /\ sender \in DOMAIN voters
          /\ id \in DOMAIN proposals
          /\ ~IsExpired(proposals[id].expires, block)
          /\ proposals' = Put(proposals, id, UpdateStatus(voted, block))
      BY <2>2 DEF Vote, CanVote, MayVote, Tallied
    <3>2. i = id /\ proposals'[i] = UpdateStatus(voted, block)
      BY <1>1, <3>1 DEF NewlyPassed, Put
    <3>3. proposals[id] \in Proposal /\ voters[sender] \in U64
      BY <1>1, <3>1 DEF TypeOK
    <3>4. AddVote(proposals[id].votes, vote, voters[sender]) \in Votes
      BY <3>3, AddVoteType DEF Proposal
    <3>5. voted \in Proposal /\ voted.expires = proposals[id].expires
      BY <3>3, <3>4 DEF Proposal
    <3> HIDE DEF voted
    <3> QED
      BY <3>1, <3>2, <3>5, UpdateStatusType
  <2>3. ASSUME NEW id \in 1 .. MaxProposals, Execute(id) PROVE FALSE
    <3>1. /\ id \in DOMAIN proposals
          /\ proposals' = Put(proposals, id,
                              [proposals[id] EXCEPT !.status = "Executed"])
      BY <2>3 DEF Execute, CanExecute, Executed
    <3>2. proposals[id] \in Proposal
      BY <1>1, <3>1 DEF TypeOK
    <3> QED
      BY <1>1, <3>1, <3>2 DEF NewlyPassed, Put, Proposal
  <2>4. ASSUME NEW id \in 1 .. MaxProposals, Close(id) PROVE FALSE
    <3>1. /\ id \in DOMAIN proposals
          /\ proposals' = Put(proposals, id,
                              [proposals[id] EXCEPT !.status = "Rejected"])
      BY <2>4 DEF Close, CanClose
    <3>2. proposals[id] \in Proposal
      BY <1>1, <3>1 DEF TypeOK
    <3> QED
      BY <1>1, <3>1, <3>2 DEF NewlyPassed, Put, Proposal
  <2>5. ASSUME proposals' = proposals PROVE FALSE
    BY <1>1, <2>5 DEF NewlyPassed
  <2> QED
    BY <1>1, <2>1, <2>2, <2>3, <2>4, <2>5 DEF Next, NewBlock, vars
<1>2. TypeOK /\ PeriodTakesTime /\ [Next]_vars /\ [DeadlinesAhead]_vars =>
         \A id \in DOMAIN proposals' :
            /\ proposals'[id].status = "Passed"
            /\ id \in DOMAIN proposals => proposals[id].status # "Passed"
            => ~IsExpired(proposals'[id].expires, block)
  BY <1>1 DEF NewlyPassed
<1>3. Spec /\ [][DeadlinesAhead]_vars =>
         [][ \A id \in DOMAIN proposals' :
               /\ proposals'[id].status = "Passed"
               /\ id \in DOMAIN proposals => proposals[id].status # "Passed"
               => ~IsExpired(proposals'[id].expires, block) ]_vars
  BY <1>2, TypeCorrect, AlwaysPeriodTakesTime, PTL DEF Spec
<1> QED
  BY <1>3 DEF ApprovedOnTime

----------------------------------------------------------------------------
\* Early verdicts are right

(***************************************************************************)
(* The contracts meant: those created with percentages of at most as many  *)
(* digits as votes_needed keeps, nine decimals in the code.  With more, it *)
(* rounds down on purpose (state.rs, the comment on PRECISION_FACTOR).     *)
(***************************************************************************)
ExactPercentages == \A msg \in InitMsgs : NoExcessDigitsIn(msg.threshold)

\* What validation and ExactPercentages say of the threshold in force.
SoundThreshold ==
    /\ NoExcessDigitsIn(config.threshold)
    /\ PercentagesAtMostOne(config.threshold)

LEMMA InitSoundThreshold ==
    ASSUME ExactPercentages, Init
    PROVE  SoundThreshold
<1>1. PICK msg \in InitMsgs :
          /\ Validate(msg.threshold, TotalWeight(msg.voters))
          /\ config.threshold = msg.threshold
  BY DEF Init
<1>2. msg.threshold \in Threshold
  BY MultisigAssumption DEF InitMsg
<1> QED
  BY <1>1, <1>2, ValidPercentages DEF ExactPercentages, SoundThreshold

LEMMA NextSoundThreshold ==
    ASSUME SoundThreshold, [Next]_vars
    PROVE  SoundThreshold'
<1>1. config' = config
  BY DEF Next, vars, Propose, Vote, Execute, Close, NewBlock, configured
<1> QED
  BY <1>1 DEF SoundThreshold

(***************************************************************************)
(* What the proofs know of every stored proposal: its tally is within the  *)
(* total weight, and its terms are the sound ones of the contract.         *)
(***************************************************************************)
SoundProposals ==
    \A id \in DOMAIN proposals :
        /\ TotalVotes(proposals[id].votes) <= proposals[id].total_weight
        /\ NoExcessDigitsIn(proposals[id].threshold)
        /\ PercentagesAtMostOne(proposals[id].threshold)

LEMMA SoundProposalsFollow ==
    TypeOK /\ TallyInv /\ SoundThreshold => SoundProposals
<1> SUFFICES ASSUME TypeOK, TallyInv, SoundThreshold PROVE SoundProposals
  OBVIOUS
<1>1. TallyWithinTotalWeight
  BY TallyInvBounds
<1> QED
  BY <1>1 DEF TallyInv, TermsOfConfig, TallyWithinTotalWeight,
              SoundThreshold, SoundProposals

LEMMA SoundProposalsHold ==
    ASSUME ExactPercentages
    PROVE  Spec => [](TypeOK /\ SoundProposals)
<1>1. Spec => []TypeOK
  BY TypeCorrect
<1>2. Init => SoundThreshold
  BY InitSoundThreshold
<1>3. SoundThreshold /\ [Next]_vars => SoundThreshold'
  BY NextSoundThreshold
<1> QED
  BY <1>1, <1>2, <1>3, SoundProposalsFollow, InitTallyInv, NextTallyInv, PTL
  DEF Spec

\* As time passes the tallies a proposal may end with become fewer.
LEMMA FinalTalliesShrink ==
    ASSUME TypeOK, [Next]_vars, NEW p \in Proposal,
           TotalVotes(p.votes) <= p.total_weight
    PROVE  FinalTallies(p, block') \subseteq FinalTallies(p, block)
<1>1. CASE IsExpired(p.expires, block')
  <2>1. FinalTallies(p, block') = {p}
    BY <1>1 DEF FinalTallies
  <2> QED
    BY <2>1, FinalTallyNow
<1>2. CASE ~IsExpired(p.expires, block')
  <2>1. ~IsExpired(p.expires, block)
    BY <1>2, StillInTime DEF Proposal
  <2> QED
    BY <1>2, <2>1 DEF FinalTallies
<1> QED
  BY <1>1, <1>2

\* The tallies p may end with differ from those of q in the status alone.
LEMMA SameFinalTallies ==
    ASSUME NEW p \in Proposal, NEW q \in Proposal, NEW blk,
           q.expires = p.expires, q.threshold = p.threshold,
           q.total_weight = p.total_weight, q.votes = p.votes,
           TotalVotes(p.votes) <= p.total_weight,
           NEW t \in FinalTallies(q, blk)
    PROVE  \E u \in FinalTallies(p, blk) : MeetsRule(t) <=> MeetsRule(u)
<1>1. /\ t.votes \in Votes
      /\ t.threshold = p.threshold
      /\ t.total_weight = p.total_weight
      /\ TotalVotes(t.votes) <= p.total_weight
      /\ \A v \in VoteOption : t.votes[v] >= p.votes[v]
      /\ IsExpired(p.expires, blk) => t = q
  BY FinalTallyParts
<1> DEFINE u == [p EXCEPT !.votes = t.votes]
<1>2. /\ u.votes = t.votes
      /\ u.threshold = t.threshold
      /\ u.total_weight = t.total_weight
  BY <1>1 DEF Proposal
<1>3. u \in FinalTallies(p, blk)
  <2>1. CASE IsExpired(p.expires, blk)
    <3>1. t.votes = p.votes
      BY <1>1, <2>1
    <3>2. u = p
      BY <3>1 DEF Proposal
    <3> QED
      BY <2>1, <3>2 DEF FinalTallies
  <2>2. CASE ~IsExpired(p.expires, blk)
    <3>1. t.votes \in [VoteOption -> 0 .. p.total_weight]
      <4>1. PICK w \in [VoteOption -> 0 .. q.total_weight] :
                t = [q EXCEPT !.votes = w]
        BY <2>2 DEF FinalTallies
      <4>2. t.votes = w
        BY <4>1 DEF Proposal
      <4> QED
        BY <4>2
    <3>2. u \in {[p EXCEPT !.votes = w] :
                    w \in [VoteOption -> 0 .. p.total_weight]}
      BY <3>1
    <3>3. /\ TotalVotes(u.votes) <= p.total_weight
          /\ \A v \in VoteOption : u.votes[v] >= p.votes[v]
      BY <1>1, <1>2
    <3> HIDE DEF u
    <3> QED
      BY <2>2, <3>2, <3>3 DEF FinalTallies
  <2> QED
    BY <2>1, <2>2
<1>4. MeetsRule(t) <=> MeetsRule(u)
  BY <1>2, MeetsRuleOfVotes
<1> HIDE DEF u
<1> QED
  BY <1>3, <1>4

LEMMA NextPassIsSure ==
    ASSUME TypeOK, TypeOK', SoundProposals, SoundProposals', PassIsSure,
           [Next]_vars
    PROVE  PassIsSure'
<1> SUFFICES ASSUME NEW i \in DOMAIN proposals',
                    proposals'[i].status \in {"Passed", "Executed"},
                    NEW q \in FinalTallies(proposals'[i], block')
             PROVE  MeetsRule(q)
  BY DEF PassIsSure
<1>1. Fate(i)
  BY NextFate
<1>2. proposals'[i] \in Proposal
  BY DEF TypeOK
<1>3. CASE i \in DOMAIN proposals /\ proposals'[i] = proposals[i]
  <2>1. TotalVotes(proposals[i].votes) <= proposals[i].total_weight
    BY <1>3 DEF SoundProposals
  <2>2. q \in FinalTallies(proposals[i], block)
    BY <1>2, <1>3, <2>1, FinalTalliesShrink
  <2> QED
    BY <1>3, <2>2 DEF PassIsSure
<1>4. CASE block' = block /\ JustDecided(proposals'[i])
  <2>1. PICK d \in Proposal :
            d.status = "Open" /\ proposals'[i] = UpdateStatus(d, block)
    BY <1>4 DEF JustDecided
  <2>2. /\ proposals'[i].expires = d.expires
        /\ proposals'[i].threshold = d.threshold
        /\ proposals'[i].total_weight = d.total_weight
        /\ proposals'[i].votes = d.votes
        /\ IsPassed(d, block)
    BY <2>1, JustDecidedParts
  <2>3. /\ TotalVotes(d.votes) <= d.total_weight
        /\ NoExcessDigitsIn(d.threshold)
    BY <2>2 DEF SoundProposals
  <2>4. PICK u \in FinalTallies(d, block) : MeetsRule(q) <=> MeetsRule(u)
    BY <1>2, <1>4, <2>2, <2>3, SameFinalTallies
  <2> QED
    BY <2>2, <2>3, <2>4, PassedMeetsRule
<1>5. CASE /\ block' = block
           /\ i \in DOMAIN proposals
           /\ \/ JustExecuted(proposals[i], proposals'[i])
              \/ JustClosed(proposals[i], proposals'[i])
  <2>1. proposals[i] \in Proposal
    BY <1>5 DEF TypeOK
  <2>2. ~JustClosed(proposals[i], proposals'[i])
    BY <2>1 DEF JustClosed, Proposal
  <2>3. /\ proposals[i].status = "Passed"
        /\ proposals'[i].expires = proposals[i].expires
        /\ proposals'[i].threshold = proposals[i].threshold
        /\ proposals'[i].total_weight = proposals[i].total_weight
        /\ proposals'[i].votes = proposals[i].votes
    BY <1>5, <2>1, <2>2 DEF JustExecuted, Proposal
  <2>4. TotalVotes(proposals[i].votes) <= proposals[i].total_weight
    BY <1>5 DEF SoundProposals
  <2>5. PICK u \in FinalTallies(proposals[i], block) :
            MeetsRule(q) <=> MeetsRule(u)
    BY <1>2, <1>5, <2>1, <2>3, <2>4, SameFinalTallies
  <2> QED
    BY <1>5, <2>3, <2>5 DEF PassIsSure
<1> QED
  BY <1>1, <1>3, <1>4, <1>5 DEF Fate

(***************************************************************************)
(* is_passed is right to stop a vote: under all three rules, whatever the  *)
(* weights, a proposal that is Passed or Executed meets its rule in every  *)
(* way its vote may still end, and at its expiration it does.              *)
(***************************************************************************)
THEOREM EarlyPassesAreSure ==
    ASSUME ExactPercentages
    PROVE  Spec => []PassIsSure
<1>1. Spec => [](TypeOK /\ SoundProposals)
  BY SoundProposalsHold
<1>2. Init => PassIsSure
  BY DEF Init, EmptyBucket, PassIsSure
<1>3. /\ TypeOK /\ SoundProposals /\ PassIsSure
      /\ [Next]_vars
      /\ (TypeOK /\ SoundProposals)'
      => PassIsSure'
  BY NextPassIsSure
<1> QED
  BY <1>1, <1>2, <1>3, PTL DEF Spec

LEMMA NextRejectionIsSure ==
    ASSUME TypeOK, TypeOK', SoundProposals, SoundProposals', RejectionIsSure,
           [Next]_vars
    PROVE  RejectionIsSure'
<1> SUFFICES ASSUME NEW i \in DOMAIN proposals',
                    proposals'[i].status = "Rejected",
                    ~IsExpired(proposals'[i].expires, block'),
                    NEW q \in FinalTallies(proposals'[i], block')
             PROVE  ~MeetsRule(q)
  BY DEF RejectionIsSure
<1>1. Fate(i)
  BY NextFate
<1>2. proposals'[i] \in Proposal
  BY DEF TypeOK
<1>3. CASE i \in DOMAIN proposals /\ proposals'[i] = proposals[i]
  <2>1. TotalVotes(proposals[i].votes) <= proposals[i].total_weight
    BY <1>3 DEF SoundProposals
  <2>2. q \in FinalTallies(proposals[i], block)
    BY <1>2, <1>3, <2>1, FinalTalliesShrink
  <2>3. ~IsExpired(proposals[i].expires, block)
    BY <1>2, <1>3, StillInTime DEF Proposal
  <2> QED
    BY <1>3, <2>2, <2>3 DEF RejectionIsSure
<1>4. CASE block' = block /\ JustDecided(proposals'[i])
  <2>1. PICK d \in Proposal :
            d.status = "Open" /\ proposals'[i] = UpdateStatus(d, block)
    BY <1>4 DEF JustDecided
  <2>2. /\ proposals'[i].expires = d.expires
        /\ proposals'[i].threshold = d.threshold
        /\ proposals'[i].total_weight = d.total_weight
        /\ proposals'[i].votes = d.votes
        /\ IsRejected(d, block)
        /\ ~IsExpired(d.expires, block)
    BY <1>4, <2>1, JustDecidedParts
  <2>3. /\ TotalVotes(d.votes) <= d.total_weight
        /\ NoExcessDigitsIn(d.threshold)
        /\ PercentagesAtMostOne(d.threshold)
    BY <2>2 DEF SoundProposals
  <2>4. PICK u \in FinalTallies(d, block) : MeetsRule(q) <=> MeetsRule(u)
    BY <1>2, <1>4, <2>2, <2>3, SameFinalTallies
  <2> QED
    BY <2>2, <2>3, <2>4, RejectedMissesRule
<1>5. CASE /\ block' = block
           /\ i \in DOMAIN proposals
           /\ \/ JustExecuted(proposals[i], proposals'[i])
              \/ JustClosed(proposals[i], proposals'[i])
  <2>1. proposals[i] \in Proposal
    BY <1>5 DEF TypeOK
  <2>2. ~JustExecuted(proposals[i], proposals'[i])
    BY <2>1 DEF JustExecuted, Proposal
  <2>3. /\ IsExpired(proposals[i].expires, block)
        /\ proposals'[i].expires = proposals[i].expires
    BY <1>5, <2>1, <2>2 DEF JustClosed, Proposal
  <2> QED
    BY <1>5, <2>3
<1> QED
  BY <1>1, <1>3, <1>4, <1>5 DEF Fate

(***************************************************************************)
(* is_rejected is right to stop a vote: under all three rules, whatever    *)
(* the weights, no proposal rejected before its expiration could still     *)
(* have met its rule.                                                      *)
(***************************************************************************)
THEOREM EarlyRejectionsAreSure ==
    ASSUME ExactPercentages
    PROVE  Spec => []RejectionIsSure
<1>1. Spec => [](TypeOK /\ SoundProposals)
  BY SoundProposalsHold
<1>2. Init => RejectionIsSure
  BY DEF Init, EmptyBucket, RejectionIsSure
<1>3. /\ TypeOK /\ SoundProposals /\ RejectionIsSure
      /\ [Next]_vars
      /\ (TypeOK /\ SoundProposals)'
      => RejectionIsSure'
  BY NextRejectionIsSure
<1> QED
  BY <1>1, <1>2, <1>3, PTL DEF Spec

----------------------------------------------------------------------------
\* How far the overflow and the pass without support reach

(***************************************************************************)
(* The total weights votes_needed is safe with: less than about 3.4 * 10^11 *)
(* in the code, whose product has 27 digits more than the weight.          *)
(***************************************************************************)
LightWeights ==
    \A msg \in InitMsgs :
        PRECISION_FACTOR * TotalWeight(msg.voters) * DECIMAL_FRACTIONAL
            <= MaxU128

\* No product of votes_needed is larger than that of all the weight and 1.0.
LEMMA LightProductsFit ==
    ASSUME NEW total \in Nat,
           PRECISION_FACTOR * total * DECIMAL_FRACTIONAL <= MaxU128,
           NEW w \in Int, w <= total,
           NEW p \in Int, 0 <= p, p <= DECIMAL_FRACTIONAL
    PROVE  VotesNeededFits(w, p)
<1> DEFINE F == PRECISION_FACTOR
           D == DECIMAL_FRACTIONAL
<1>1. F \in Nat /\ D \in Nat /\ MaxU128 \in Int /\ p \in Nat
  BY DecimalAssumption
<1>2. F * total * D <= MaxU128
  OBVIOUS
<1> HIDE DEF F, D
<1>3. F * p \in Nat /\ F * total \in Nat
  BY <1>1
<1>4. (F * p) * w <= (F * p) * total
  BY <1>3, ScaleLess
<1>5. (F * total) * p <= (F * total) * D
  <2>1. p <= D
    BY DEF D
  <2> QED
    BY <1>1, <1>3, <2>1, ScaleLess
<1>6. /\ (F * p) * w = F * w * p /\ (F * p) * total = (F * total) * p
      /\ (F * p) * w \in Int /\ (F * p) * total \in Int
      /\ (F * total) * D \in Int
  BY <1>1
<1> QED
  BY <1>1, <1>2, <1>4, <1>5, <1>6 DEF VotesNeededFits, F, D

\* The status of a proposal that light can be computed.
LEMMA LightStatusComputable ==
    ASSUME NEW p, NEW blk, NEW total \in Nat,
           PRECISION_FACTOR * total * DECIMAL_FRACTIONAL <= MaxU128,
           p.total_weight = total, p.votes \in Votes,
           p.threshold \in Threshold, PercentagesAtMostOne(p.threshold),
           IsExpired(p.expires, blk) => TotalVotes(p.votes) <= total
    PROVE  StatusComputable(p, blk)
<1>1. /\ p.votes["Abstain"] \in Nat /\ TotalVotes(p.votes) \in Nat
  BY VotesParts
<1>2. PossibleOpinions(p) \in Int /\ PossibleOpinions(p) <= total
  BY <1>1 DEF PossibleOpinions
<1>3. Opinions(p, blk) \in Int /\ Opinions(p, blk) <= total
  BY <1>1, <1>2 DEF Opinions
<1>4. DECIMAL_FRACTIONAL \in Nat
  BY DecimalAssumption
<1>5. CASE p.threshold.kind = "AbsoluteCount"
  BY <1>5 DEF StatusComputable, NeededCalls
<1>6. CASE p.threshold.kind = "AbsolutePercentage"
  <2> DEFINE t == p.threshold.percentage
  <2>1. t \in Nat /\ t <= DECIMAL_FRACTIONAL
    BY <1>6, ThresholdParts DEF PercentagesAtMostOne
  <2>2. /\ Complement(t) \in Int /\ 0 <= Complement(t)
        /\ Complement(t) <= DECIMAL_FRACTIONAL
    BY <1>4, <2>1 DEF Complement
  <2>3. /\ VotesNeededFits(PossibleOpinions(p), t)
        /\ VotesNeededFits(PossibleOpinions(p), Complement(t))
    <3> HIDE DEF t
    <3> QED
      BY <1>2, <2>1, <2>2, LightProductsFit
  <2>4. \A c \in NeededCalls(p, blk) :
           c \in {<<PossibleOpinions(p), t>>,
                  <<PossibleOpinions(p), Complement(t)>>}
    BY <1>6 DEF NeededCalls
  <2> HIDE DEF t
  <2> QED
    BY <2>3, <2>4 DEF StatusComputable
<1>7. CASE p.threshold.kind = "ThresholdQuorum"
  <2> DEFINE t == p.threshold.threshold
             q == p.threshold.quorum
  <2>1. /\ t \in Nat /\ t <= DECIMAL_FRACTIONAL
        /\ q \in Nat /\ q <= DECIMAL_FRACTIONAL
    BY <1>7, ThresholdParts DEF PercentagesAtMostOne
  <2>2. /\ Complement(t) \in Int /\ 0 <= Complement(t)
        /\ Complement(t) <= DECIMAL_FRACTIONAL
    BY <1>4, <2>1 DEF Complement
  <2>3. /\ VotesNeededFits(Opinions(p, blk), t)
        /\ VotesNeededFits(Opinions(p, blk), Complement(t))
        /\ VotesNeededFits(total, q)
    <3> HIDE DEF t, q
    <3> QED
      BY <1>3, <2>1, <2>2, LightProductsFit
  <2>4. \A c \in NeededCalls(p, blk) :
           c \in {<<total, q>>, <<Opinions(p, blk), t>>,
                  <<Opinions(p, blk), Complement(t)>>}
    BY <1>7 DEF NeededCalls
  <2> HIDE DEF t, q
  <2> QED
    BY <2>3, <2>4 DEF StatusComputable
<1> QED
  BY <1>5, <1>6, <1>7, ThresholdParts

\* The weight of the contract is light, and its percentages are shares.
LightConfig ==
    /\ PRECISION_FACTOR * config.total_weight * DECIMAL_FRACTIONAL <= MaxU128
    /\ PercentagesAtMostOne(config.threshold)

LEMMA AlwaysLightConfig ==
    ASSUME LightWeights
    PROVE  Spec => []LightConfig
<1>1. ASSUME Init PROVE LightConfig
  <2>1. PICK msg \in InitMsgs :
            /\ Validate(msg.threshold, TotalWeight(msg.voters))
            /\ config = [ threshold         |-> msg.threshold,
                          total_weight      |-> TotalWeight(msg.voters),
                          max_voting_period |-> msg.max_voting_period ]
    BY <1>1 DEF Init
  <2>2. msg.threshold \in Threshold
    BY MultisigAssumption DEF InitMsg
  <2> QED
    BY <2>1, <2>2, ValidPercentages DEF LightWeights, LightConfig
<1>2. ASSUME LightConfig, [Next]_vars PROVE LightConfig'
  <2>1. config' = config
    BY <1>2 DEF Next, vars, Propose, Vote, Execute, Close, NewBlock, configured
  <2> QED
    BY <1>2, <2>1 DEF LightConfig
<1> QED
  BY <1>1, <1>2, PTL DEF Spec

(***************************************************************************)
(* A contract whose weights are light never aborts on the verdict of a new *)
(* proposal, whoever makes it: what the run heavy_weights finds needs a    *)
(* total weight beyond LightWeights.                                       *)
(***************************************************************************)
THEOREM LightMembersCanPropose ==
    ASSUME LightWeights
    PROVE  Spec => []MembersCanPropose
<1>1. ASSUME TypeOK, TallyInv, LightConfig PROVE MembersCanPropose
  <2> SUFFICES ASSUME NEW sender \in DOMAIN voters
               PROVE  StatusComputable(
                         ProposalDraft(sender,
                             After(config.max_voting_period, block)), block)
    BY DEF MembersCanPropose
  <2>1. PICK p : p = ProposalDraft(sender,
                         After(config.max_voting_period, block))
    OBVIOUS
  <2>2. PICK total \in Nat : total = config.total_weight
    BY <1>1, U64Assumption DEF TypeOK, Config, U64
  <2>3. PICK blk : blk = block
    OBVIOUS
  <2>4. PICK w \in U64 : w = voters[sender]
    BY <1>1 DEF TypeOK
  <2>5. w <= total
    <3>1. WeightSum(voters, {sender}) <= WeightSum(voters, DOMAIN voters)
      BY <1>1, VotersFinite, WeightSumMonotone
    <3>2. WeightSum(voters, {sender}) = w
      BY <2>4, WeightSumSingleton
    <3>3. WeightSum(voters, DOMAIN voters) \in Nat
      BY <1>1, VotersFinite, UnitsFinite
    <3> QED
      BY <1>1, <2>2, <2>4, <3>1, <3>2, <3>3, U64Assumption
      DEF TallyInv, VotersWithinTotal, U64
  <2>6. p.total_weight = total /\ p.threshold = config.threshold
        /\ p.votes = VotesYes(w)
    BY <2>1, <2>2, <2>4 DEF ProposalDraft
  <2>7. p.votes \in Votes /\ TotalVotes(p.votes) <= total
    BY <2>4, <2>5, <2>6, U64Assumption
    DEF VotesYes, Votes, VoteOption, TotalVotes, U64
  <2>8. p.threshold \in Threshold /\ PercentagesAtMostOne(p.threshold)
    BY <1>1, <2>6 DEF TypeOK, Config, LightConfig
  <2>9. PRECISION_FACTOR * total * DECIMAL_FRACTIONAL <= MaxU128
    BY <1>1, <2>2 DEF LightConfig
  <2> QED
    BY <2>1, <2>3, <2>6, <2>7, <2>8, <2>9, LightStatusComputable
<1> QED
  BY <1>1, TypeCorrect, InitTallyInv, NextTallyInv, AlwaysLightConfig, PTL
  DEF Spec

\* Every listed voter has a vote to give.
NobodyWeighsNothing ==
    \A msg \in InitMsgs : \A i \in DOMAIN msg.voters :
        msg.voters[i].weight > 0

\* The proposer's Yes stands behind every proposal.
ProposerSupports ==
    /\ \A a \in DOMAIN voters : voters[a] > 0
    /\ \A id \in DOMAIN proposals : proposals[id].votes["Yes"] > 0

LEMMA VoteProposerSupports ==
    ASSUME TypeOK, ProposerSupports, NEW sender \in Addr, NEW id,
           NEW vote \in VoteOption, Vote(sender, id, vote)
    PROVE  ProposerSupports'
<1>1. /\ id \in DOMAIN proposals
      /\ sender \in DOMAIN voters
      /\ DOMAIN proposals' = DOMAIN proposals
      /\ \A i \in DOMAIN proposals \ {id} : proposals'[i] = proposals[i]
      /\ proposals'[id].threshold = proposals[id].threshold
      /\ proposals'[id].total_weight = proposals[id].total_weight
      /\ proposals'[id].votes
            = AddVote(proposals[id].votes, vote, voters[sender])
      /\ <<id, sender>> \notin DOMAIN ballots
      /\ DOMAIN ballots' = DOMAIN ballots \cup {<<id, sender>>}
      /\ ballots'[<<id, sender>>] = [weight |-> voters[sender], vote |-> vote]
      /\ \A key \in DOMAIN ballots : ballots'[key] = ballots[key]
      /\ UNCHANGED <<block, config, voters>>
  BY VoteEffect
<1>2. /\ proposals[id].votes \in Votes /\ proposals[id].votes["Yes"] > 0
      /\ voters[sender] \in Nat
  BY <1>1, U64Assumption DEF TypeOK, Proposal, U64, ProposerSupports
<1>3. AddVote(proposals[id].votes, vote, voters[sender])["Yes"] > 0
  BY <1>2 DEF AddVote, Votes, VoteOption
<1> QED
  BY <1>1, <1>3 DEF ProposerSupports

LEMMA NextProposerSupports ==
    ASSUME TypeOK, ProposerSupports, [Next]_vars
    PROVE  ProposerSupports'
<1>1. ASSUME NEW sender \in Addr, NEW latest \in Latest,
             Propose(sender, latest)
      PROVE  ProposerSupports'
  <2> DEFINE id == proposal_count + 1
  <2>1. /\ DOMAIN proposals' = DOMAIN proposals \cup {id}
        /\ \A i \in DOMAIN proposals : proposals'[i] = proposals[i]
        /\ proposals'[id].votes = VotesYes(voters[sender])
        /\ sender \in DOMAIN voters
        /\ UNCHANGED voters
    BY <1>1, ProposeEffect
  <2>2. VotesYes(voters[sender])["Yes"] = voters[sender]
    BY DEF VotesYes, VoteOption
  <2> QED
    BY <2>1, <2>2 DEF ProposerSupports
<1>2. ASSUME NEW sender \in Addr, NEW id, NEW vote \in VoteOption,
             Vote(sender, id, vote)
      PROVE  ProposerSupports'
  BY <1>2, VoteProposerSupports
<1>3. ASSUME NEW id \in DOMAIN proposals, NEW st,
             proposals' = Put(proposals, id,
                              [proposals[id] EXCEPT !.status = st]),
             UNCHANGED voters
      PROVE  ProposerSupports'
  BY <1>3, RestatusEffect DEF ProposerSupports
<1>4. ASSUME NEW id, Execute(id) PROVE ProposerSupports'
  BY <1>3, <1>4, ExecuteEffect
<1>5. ASSUME NEW id, Close(id) PROVE ProposerSupports'
  BY <1>3, <1>5, CloseEffect
<1>6. CASE (\E dt \in TimeSteps : NewBlock(dt)) \/ UNCHANGED vars
  BY <1>6 DEF NewBlock, vars, configured, ProposerSupports
<1> QED
  BY <1>1, <1>2, <1>4, <1>5, <1>6 DEF Next

(***************************************************************************)
(* Where every voter has some weight, nothing passes without a Yes: what   *)
(* the run abstain_pass finds needs a proposer of weight zero.             *)
(***************************************************************************)
THEOREM PassesHaveSupport ==
    ASSUME NobodyWeighsNothing
    PROVE  Spec => []PassedHasSupport
<1>1. ASSUME Init PROVE ProposerSupports
  <2>1. PICK msg \in InitMsgs : voters = VotersBucket(msg.voters)
    BY <1>1 DEF Init
  <2> DEFINE list == msg.voters
  <2>2. list \in Seq(Voter)
    BY MultisigAssumption DEF InitMsg
  <2>3. ASSUME NEW i \in DOMAIN list
        PROVE  VotersBucket(list)[list[i].addr] > 0
    <3>1. LastEntry(list, list[i].addr) \in DOMAIN list
      BY <2>2, LastEntryProperty
    <3> QED
      BY <3>1 DEF VotersBucket, NobodyWeighsNothing
  <2>4. DOMAIN VotersBucket(list) = {list[i].addr : i \in DOMAIN list}
    BY DEF VotersBucket
  <2>5. \A a \in DOMAIN voters : voters[a] > 0
    BY <2>1, <2>3, <2>4
  <2> QED
    BY <1>1, <2>5 DEF Init, EmptyBucket, ProposerSupports
<1>2. ProposerSupports => PassedHasSupport
  BY DEF ProposerSupports, PassedHasSupport
<1> QED
  BY <1>1, <1>2, TypeCorrect, NextProposerSupports, PTL DEF Spec
=============================================================================
