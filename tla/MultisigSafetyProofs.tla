------------------------ MODULE MultisigSafetyProofs ------------------------
(***************************************************************************)
(* The safety properties of Multisig that are proved for every value of    *)
(* its constants: tallies, single execution, deadlines and the finality of *)
(* decisions.                                                              *)
(***************************************************************************)
EXTENDS MultisigTypeProofs

----------------------------------------------------------------------------
\* What each action does to the record under every key

LEMMA ProposeEffect ==
    ASSUME TypeOK, NEW sender \in Addr, NEW latest \in Latest,
           Propose(sender, latest)
    PROVE  LET id == proposal_count + 1
               limit == After(config.max_voting_period, block)
           IN  /\ id \notin DOMAIN proposals
               /\ DOMAIN proposals' = DOMAIN proposals \cup {id}
               /\ \A i \in DOMAIN proposals : proposals'[i] = proposals[i]
               /\ proposals'[id].expires.kind = limit.kind
               /\ proposals'[id].expires.at <= limit.at
               /\ proposals'[id].threshold = config.threshold
               /\ proposals'[id].total_weight = config.total_weight
               /\ proposals'[id].votes = VotesYes(voters[sender])
               /\ proposals'[id].status \in {"Open", "Passed", "Rejected"}
               /\ sender \in DOMAIN voters
               /\ \A a \in DOMAIN voters : <<id, a>> \notin DOMAIN ballots
               /\ DOMAIN ballots' = DOMAIN ballots \cup {<<id, sender>>}
               /\ ballots'[<<id, sender>>]
                     = [weight |-> voters[sender], vote |-> "Yes"]
               /\ \A key \in DOMAIN ballots : ballots'[key] = ballots[key]
               /\ dispatched'[id] = 0
               /\ \A i \in DOMAIN proposals : dispatched'[i] = dispatched[i]
               /\ UNCHANGED <<block, config, voters>>
<1> DEFINE id == proposal_count + 1
           limit == After(config.max_voting_period, block)
           expires == ChosenExpiration(latest, limit)
           ballot == [weight |-> voters[sender], vote |-> "Yes"]
           p == NewProposal(sender, expires)
<1>1. /\ sender \in DOMAIN voters
      /\ AfterFits(config.max_voting_period, block)
      /\ latest # NoLatest => ~Incomparable(latest, limit)
      /\ proposals' = Put(proposals, id, p)
      /\ ballots' = Put(ballots, <<id, sender>>, ballot)
      /\ dispatched' = Put(dispatched, id, 0)
      /\ UNCHANGED <<block, config, voters>>
  BY DEF Propose, CanPropose, NextProposalId, configured
<1>2. limit \in FiniteExpiration
  BY <1>1, AfterType DEF TypeOK, Config
<1>3. /\ expires \in FiniteExpiration
      /\ expires.kind = limit.kind
      /\ expires.at <= limit.at
  BY <1>1, <1>2, ChosenExpirationType
<1>4. /\ p.expires = expires
      /\ p.threshold = config.threshold
      /\ p.total_weight = config.total_weight
      /\ p.votes = VotesYes(voters[sender])
      /\ p.status \in {"Open", "Passed", "Rejected"}
  BY <1>1, <1>3, NewProposalType
<1>5. id \notin DOMAIN proposals
  BY DEF TypeOK
<1>6. \A a \in DOMAIN voters : <<id, a>> \notin DOMAIN ballots
  BY DEF TypeOK
<1>7. /\ DOMAIN proposals' = DOMAIN proposals \cup {id}
      /\ proposals'[id] = p
      /\ \A i \in DOMAIN proposals : proposals'[i] = proposals[i]
  BY <1>1, <1>5 DEF Put
<1>8. /\ DOMAIN ballots' = DOMAIN ballots \cup {<<id, sender>>}
      /\ ballots'[<<id, sender>>] = ballot
      /\ \A key \in DOMAIN ballots : ballots'[key] = ballots[key]
  BY <1>1, <1>6 DEF Put
<1>9. /\ dispatched'[id] = 0
      /\ \A i \in DOMAIN proposals : dispatched'[i] = dispatched[i]
  <2>1. DOMAIN dispatched = DOMAIN proposals
    BY DEF TypeOK
  <2> QED
    BY <1>1, <1>5, <2>1 DEF Put
<1> HIDE DEF p, expires
<1> QED
  BY <1>1, <1>3, <1>4, <1>5, <1>6, <1>7, <1>8, <1>9

LEMMA VoteEffect ==
    ASSUME TypeOK, NEW sender \in Addr, NEW id, NEW vote \in VoteOption,
           Vote(sender, id, vote)
    PROVE  /\ id \in DOMAIN proposals
           /\ sender \in DOMAIN voters
           /\ proposals[id].status = "Open"
           /\ DOMAIN proposals' = DOMAIN proposals
           /\ \A i \in DOMAIN proposals \ {id} : proposals'[i] = proposals[i]
           /\ proposals'[id].expires = proposals[id].expires
           /\ proposals'[id].threshold = proposals[id].threshold
           /\ proposals'[id].total_weight = proposals[id].total_weight
           /\ proposals'[id].votes
                 = AddVote(proposals[id].votes, vote, voters[sender])
           /\ proposals'[id].status \in {"Open", "Passed", "Rejected"}
           /\ <<id, sender>> \notin DOMAIN ballots
           /\ DOMAIN ballots' = DOMAIN ballots \cup {<<id, sender>>}
           /\ ballots'[<<id, sender>>]
                 = [weight |-> voters[sender], vote |-> vote]
           /\ \A key \in DOMAIN ballots : ballots'[key] = ballots[key]
           /\ UNCHANGED <<block, config, voters, dispatched>>
<1> DEFINE ballot == [weight |-> voters[sender], vote |-> vote]
           voted == [proposals[id] EXCEPT
                        !.votes = AddVote(@, vote, voters[sender])]
<1>1. /\ sender \in DOMAIN voters
      /\ id \in DOMAIN proposals
      /\ proposals[id].status = "Open"
      /\ <<id, sender>> \notin DOMAIN ballots
      /\ ballots' = Put(ballots, <<id, sender>>, ballot)
      /\ proposals' = Put(proposals, id, UpdateStatus(voted, block))
      /\ UNCHANGED <<block, config, voters, dispatched>>
  BY DEF Vote, CanVote, MayVote, NotVotedYet, Tallied, configured
<1>2. voted \in Proposal
  <2>1. proposals[id] \in Proposal /\ voters[sender] \in U64
    BY <1>1 DEF TypeOK
  <2>2. AddVote(proposals[id].votes, vote, voters[sender]) \in Votes
    BY <2>1, AddVoteType DEF Proposal
  <2> QED
    BY <2>1, <2>2 DEF Proposal
<1>3. /\ voted.expires = proposals[id].expires
      /\ voted.threshold = proposals[id].threshold
      /\ voted.total_weight = proposals[id].total_weight
      /\ voted.votes = AddVote(proposals[id].votes, vote, voters[sender])
      /\ voted.status = "Open"
  <2>1. proposals[id] \in Proposal
    BY <1>1 DEF TypeOK
  <2> QED
    BY <1>1, <2>1 DEF Proposal
<1> HIDE DEF voted
<1>4. /\ UpdateStatus(voted, block).expires = voted.expires
      /\ UpdateStatus(voted, block).threshold = voted.threshold
      /\ UpdateStatus(voted, block).total_weight = voted.total_weight
      /\ UpdateStatus(voted, block).votes = voted.votes
      /\ UpdateStatus(voted, block).status \in {"Open", "Passed", "Rejected"}
  BY <1>2, <1>3, UpdateStatusType
<1>5. /\ DOMAIN proposals' = DOMAIN proposals
      /\ proposals'[id] = UpdateStatus(voted, block)
      /\ \A i \in DOMAIN proposals \ {id} : proposals'[i] = proposals[i]
  BY <1>1 DEF Put
<1>6. /\ DOMAIN ballots' = DOMAIN ballots \cup {<<id, sender>>}
      /\ ballots'[<<id, sender>>] = ballot
      /\ \A key \in DOMAIN ballots : ballots'[key] = ballots[key]
  BY <1>1 DEF Put
<1> QED
  BY <1>1, <1>3, <1>4, <1>5, <1>6

\* execute_execute and execute_close store a new status and nothing else.
LEMMA RestatusEffect ==
    ASSUME TypeOK, NEW id \in DOMAIN proposals, NEW st,
           proposals' = Put(proposals, id, [proposals[id] EXCEPT !.status = st])
    PROVE  /\ DOMAIN proposals' = DOMAIN proposals
           /\ \A i \in DOMAIN proposals \ {id} : proposals'[i] = proposals[i]
           /\ proposals'[id].expires = proposals[id].expires
           /\ proposals'[id].threshold = proposals[id].threshold
           /\ proposals'[id].total_weight = proposals[id].total_weight
           /\ proposals'[id].votes = proposals[id].votes
           /\ proposals'[id].status = st
<1>1. proposals[id] \in Proposal
  BY DEF TypeOK
<1>2. /\ DOMAIN proposals' = DOMAIN proposals
      /\ proposals'[id] = [proposals[id] EXCEPT !.status = st]
      /\ \A i \in DOMAIN proposals \ {id} : proposals'[i] = proposals[i]
  BY DEF Put
<1> QED
  BY <1>1, <1>2 DEF Proposal

LEMMA ExecuteEffect ==
    ASSUME TypeOK, NEW id, Execute(id)
    PROVE  /\ id \in DOMAIN proposals
           /\ proposals[id].status = "Passed"
           /\ proposals' = Put(proposals, id,
                               [proposals[id] EXCEPT !.status = "Executed"])
           /\ dispatched'[id] = dispatched[id] + 1
           /\ \A i \in DOMAIN proposals \ {id} : dispatched'[i] = dispatched[i]
           /\ UNCHANGED <<block, config, voters, ballots>>
<1>1. /\ id \in DOMAIN proposals
      /\ proposals[id].status = "Passed"
      /\ proposals' = Put(proposals, id,
                          [proposals[id] EXCEPT !.status = "Executed"])
      /\ dispatched' = Put(dispatched, id, dispatched[id] + 1)
      /\ UNCHANGED <<block, config, voters, ballots>>
  BY DEF Execute, CanExecute, Executed, configured
<1>2. DOMAIN dispatched = DOMAIN proposals
  BY DEF TypeOK
<1> QED
  BY <1>1, <1>2 DEF Put

LEMMA CloseEffect ==
    ASSUME TypeOK, NEW id, Close(id)
    PROVE  /\ id \in DOMAIN proposals
           /\ proposals[id].status \notin {"Executed", "Rejected", "Passed"}
           /\ proposals' = Put(proposals, id,
                               [proposals[id] EXCEPT !.status = "Rejected"])
           /\ UNCHANGED <<block, config, voters, ballots, dispatched>>
BY DEF Close, CanClose, WrongCloseStatus, configured

----------------------------------------------------------------------------
\* The tally of a proposal

\* No more weight can be cast than was counted when the contract was created.
VotersWithinTotal ==
    /\ WeightSum(voters, DOMAIN voters) <= config.total_weight
    /\ config.threshold.kind = "AbsoluteCount" =>
          config.threshold.weight <= config.total_weight

\* A proposal is held to the terms of the contract.
TermsOfConfig ==
    \A id \in DOMAIN proposals :
        /\ proposals[id].threshold = config.threshold
        /\ proposals[id].total_weight = config.total_weight

(***************************************************************************)
(* The inductive invariant: TallyWithinTotalWeight alone is not inductive, *)
(* since one more vote could exceed the total; it follows from the tally   *)
(* being the weight of disjoint sets of voters.                            *)
(***************************************************************************)
TallyInv ==
    /\ VotersWithinTotal
    /\ TermsOfConfig
    /\ TallyMatchesBallots

LEMMA VotersFinite ==
    ASSUME TypeOK
    PROVE  /\ IsFiniteSet(DOMAIN voters)
           /\ \A id, v : IsFiniteSet(VotersFor(id, v))
<1>1. IsFiniteSet(DOMAIN voters)
  BY MultisigAssumption, FS_Subset DEF TypeOK
<1>2. ASSUME NEW id, NEW v PROVE IsFiniteSet(VotersFor(id, v))
  <2>1. VotersFor(id, v) \in SUBSET DOMAIN voters
    BY DEF VotersFor
  <2> QED
    BY <1>1, <2>1, FS_Subset
<1> QED
  BY <1>1, <1>2

LEMMA InitTallyInv == Init => TallyInv
<1> SUFFICES ASSUME Init PROVE TallyInv
  OBVIOUS
<1>1. PICK msg \in InitMsgs :
          /\ Validate(msg.threshold, TotalWeight(msg.voters))
          /\ config = [ threshold         |-> msg.threshold,
                        total_weight      |-> TotalWeight(msg.voters),
                        max_voting_period |-> msg.max_voting_period ]
          /\ voters = VotersBucket(msg.voters)
  BY DEF Init
<1>2. msg.voters \in Seq(Voter)
  BY MultisigAssumption DEF InitMsg
<1>3. WeightSum(voters, DOMAIN voters) <= config.total_weight
  BY <1>1, <1>2, VotersBucketWeight
<1>4. config.threshold.kind = "AbsoluteCount" =>
          config.threshold.weight <= config.total_weight
  BY <1>1 DEF Validate
<1>5. TermsOfConfig /\ TallyMatchesBallots
  BY DEF Init, EmptyBucket, TermsOfConfig, TallyMatchesBallots
<1> QED
  BY <1>3, <1>4, <1>5 DEF TallyInv, VotersWithinTotal

\* The first Yes of the proposer is the whole tally of a new proposal.
LEMMA ProposeTallyInv ==
    ASSUME TypeOK, TallyInv, NEW sender \in Addr, NEW latest \in Latest,
           Propose(sender, latest)
    PROVE  TallyInv'
<1> DEFINE id == proposal_count + 1
<1>1. /\ id \notin DOMAIN proposals
      /\ DOMAIN proposals' = DOMAIN proposals \cup {id}
      /\ \A i \in DOMAIN proposals : proposals'[i] = proposals[i]
      /\ proposals'[id].threshold = config.threshold
      /\ proposals'[id].total_weight = config.total_weight
      /\ proposals'[id].votes = VotesYes(voters[sender])
      /\ sender \in DOMAIN voters
      /\ \A a \in DOMAIN voters : <<id, a>> \notin DOMAIN ballots
      /\ DOMAIN ballots' = DOMAIN ballots \cup {<<id, sender>>}
      /\ ballots'[<<id, sender>>] = [weight |-> voters[sender], vote |-> "Yes"]
      /\ \A key \in DOMAIN ballots : ballots'[key] = ballots[key]
      /\ UNCHANGED <<block, config, voters>>
  BY ProposeEffect
<1> HIDE DEF id
<1>2. VotersWithinTotal'
  BY <1>1 DEF TallyInv, VotersWithinTotal
<1>3. TermsOfConfig'
  BY <1>1 DEF TallyInv, TermsOfConfig
<1>4. \A key \in DOMAIN ballots' : ballots'[key].weight = voters'[key[2]]
  BY <1>1 DEF TallyInv, TallyMatchesBallots
<1>5. ASSUME NEW i \in DOMAIN proposals', NEW v \in VoteOption
      PROVE  proposals'[i].votes[v] = WeightSum(voters', VotersFor(i, v)')
  <2>1. CASE i \in DOMAIN proposals
    <3>1. VotersFor(i, v)' = VotersFor(i, v)
      BY <1>1, <2>1 DEF VotersFor
    <3> QED
      BY <1>1, <2>1, <3>1 DEF TallyInv, TallyMatchesBallots
  <2>2. CASE i = id /\ v = "Yes"
    <3>1. VotersFor(i, v)' = {sender}
      BY <1>1, <2>2 DEF VotersFor
    <3>2. WeightSum(voters, {sender}) = voters[sender]
      BY <1>1, WeightSumSingleton DEF TypeOK
    <3>3. proposals'[i].votes[v] = voters[sender]
      BY <1>1, <2>2 DEF VotesYes, VoteOption
    <3> QED
      BY <1>1, <3>1, <3>2, <3>3
  <2>3. CASE i = id /\ v # "Yes"
    <3>1. VotersFor(i, v)' = {}
      BY <1>1, <2>3 DEF VotersFor
    <3>2. proposals'[i].votes[v] = 0
      BY <1>1, <2>3 DEF VotesYes
    <3> QED
      BY <1>1, <3>1, <3>2, WeightSumEmpty
  <2> QED
    BY <1>1, <2>1, <2>2, <2>3
<1> QED
  BY <1>2, <1>3, <1>4, <1>5 DEF TallyInv, TallyMatchesBallots

\* A vote adds a voter to one side of one proposal, and its weight there.
LEMMA VoteTallyInv ==
    ASSUME TypeOK, TallyInv, NEW sender \in Addr, NEW id,
           NEW vote \in VoteOption, Vote(sender, id, vote)
    PROVE  TallyInv'
<1>1. /\ id \in DOMAIN proposals
      /\ sender \in DOMAIN voters
      /\ DOMAIN proposals' = DOMAIN proposals
      /\ \A i \in DOMAIN proposals \ {id} : proposals'[i] = proposals[i]
      /\ proposals'[id].threshold = proposals[id].threshold
      /\ proposals'[id].total_weight = proposals[id].total_weight
      /\ proposals'[id].votes
            = AddVote(proposals[id].votes, vote, voters[sender])
      /\ <<id, sender>> \notin DOMAIN ballots
      /\ DOMAIN ballots' = DOMAIN ballots \cup {<<id, sender>>}
      /\ ballots'[<<id, sender>>] = [weight |-> voters[sender], vote |-> vote]
      /\ \A key \in DOMAIN ballots : ballots'[key] = ballots[key]
      /\ UNCHANGED <<block, config, voters>>
  BY VoteEffect
<1>2. VotersWithinTotal'
  BY <1>1 DEF TallyInv, VotersWithinTotal
<1>3. TermsOfConfig'
  BY <1>1 DEF TallyInv, TermsOfConfig
<1>4. \A key \in DOMAIN ballots' : ballots'[key].weight = voters'[key[2]]
  BY <1>1 DEF TallyInv, TallyMatchesBallots
<1>5. /\ proposals[id].votes \in Votes
      /\ voters[sender] \in U64
  BY <1>1 DEF TypeOK, Proposal
<1>6. ASSUME NEW i \in DOMAIN proposals', NEW v \in VoteOption
      PROVE  proposals'[i].votes[v] = WeightSum(voters', VotersFor(i, v)')
  <2>1. proposals[i].votes[v] = WeightSum(voters, VotersFor(i, v))
    BY <1>1 DEF TallyInv, TallyMatchesBallots
  <2>2. CASE i # id
    <3>1. VotersFor(i, v)' = VotersFor(i, v)
      BY <1>1, <2>2 DEF VotersFor
    <3> QED
      BY <1>1, <2>1, <2>2, <3>1
  <2>3. CASE i = id /\ v = vote
    <3>1. VotersFor(i, v)' = VotersFor(i, v) \cup {sender}
      BY <1>1, <2>3 DEF VotersFor
    <3>2. sender \notin VotersFor(i, v)
      BY <1>1, <2>3 DEF VotersFor
    <3>3. WeightSum(voters, VotersFor(i, v) \cup {sender})
            = WeightSum(voters, VotersFor(i, v)) + voters[sender]
      BY <1>5, <3>2, VotersFinite, WeightSumAddKey
    <3>4. proposals'[i].votes[v] = proposals[i].votes[v] + voters[sender]
      BY <1>1, <1>5, <2>3, AddVoteType
    <3> QED
      BY <1>1, <2>1, <3>1, <3>3, <3>4
  <2>4. CASE i = id /\ v # vote
    <3>1. VotersFor(i, v)' = VotersFor(i, v)
      BY <1>1, <2>4 DEF VotersFor
    <3>2. proposals'[i].votes[v] = proposals[i].votes[v]
      BY <1>1, <1>5, <2>4, AddVoteType
    <3> QED
      BY <1>1, <2>1, <3>1, <3>2
  <2> QED
    BY <2>2, <2>3, <2>4
<1> QED
  BY <1>2, <1>3, <1>4, <1>6 DEF TallyInv, TallyMatchesBallots

\* Whatever keeps ballots, votes and terms keeps the tally invariant.
LEMMA SameVotesTallyInv ==
    ASSUME TallyInv,
           DOMAIN proposals' = DOMAIN proposals,
           \A i \in DOMAIN proposals :
              /\ proposals'[i].votes = proposals[i].votes
              /\ proposals'[i].threshold = proposals[i].threshold
              /\ proposals'[i].total_weight = proposals[i].total_weight,
           UNCHANGED <<config, voters, ballots>>
    PROVE  TallyInv'
<1>1. VotersWithinTotal'
  BY DEF TallyInv, VotersWithinTotal
<1>2. TermsOfConfig'
  BY DEF TallyInv, TermsOfConfig
<1>3. \A i, v : VotersFor(i, v)' = VotersFor(i, v)
  BY DEF VotersFor
<1>4. TallyMatchesBallots'
  BY <1>3 DEF TallyInv, TallyMatchesBallots
<1> QED
  BY <1>1, <1>2, <1>4 DEF TallyInv

LEMMA NextTallyInv == TypeOK /\ TallyInv /\ [Next]_vars => TallyInv'
<1> SUFFICES ASSUME TypeOK, TallyInv, [Next]_vars PROVE TallyInv'
  OBVIOUS
<1>1. ASSUME NEW sender \in Addr, NEW latest \in Latest,
             Propose(sender, latest)
      PROVE  TallyInv'
  BY <1>1, ProposeTallyInv
<1>2. ASSUME NEW sender \in Addr, NEW id \in 1 .. MaxProposals,
             NEW vote \in VoteOption, Vote(sender, id, vote)
      PROVE  TallyInv'
  BY <1>2, VoteTallyInv
<1>3. ASSUME NEW id \in 1 .. MaxProposals, Execute(id) PROVE TallyInv'
  <2>1. /\ id \in DOMAIN proposals
        /\ proposals' = Put(proposals, id,
                            [proposals[id] EXCEPT !.status = "Executed"])
        /\ UNCHANGED <<config, voters, ballots>>
    BY <1>3, ExecuteEffect
  <2> QED
    BY <2>1, RestatusEffect, SameVotesTallyInv
<1>4. ASSUME NEW id \in 1 .. MaxProposals, Close(id) PROVE TallyInv'
  <2>1. /\ id \in DOMAIN proposals
        /\ proposals' = Put(proposals, id,
                            [proposals[id] EXCEPT !.status = "Rejected"])
        /\ UNCHANGED <<config, voters, ballots>>
    BY <1>4, CloseEffect
  <2> QED
    BY <2>1, RestatusEffect, SameVotesTallyInv
<1>5. ASSUME NEW dt \in TimeSteps, NewBlock(dt) PROVE TallyInv'
  BY <1>5, SameVotesTallyInv DEF NewBlock, configured
<1>6. CASE UNCHANGED vars
  BY <1>6, SameVotesTallyInv DEF vars, configured
<1> QED
  BY <1>1, <1>2, <1>3, <1>4, <1>5, <1>6 DEF Next

(***************************************************************************)
(* A recount of the ballots of a proposal always gives the tally the       *)
(* handlers keep running, for any voters, weights and number of proposals. *)
(***************************************************************************)
THEOREM TallyIsARecount == Spec => []TallyMatchesBallots
<1>1. Spec => []TypeOK
  BY TypeCorrect
<1>2. TallyInv => TallyMatchesBallots
  BY DEF TallyInv
<1> QED
  BY <1>1, <1>2, InitTallyInv, NextTallyInv, PTL DEF Spec

\* The four sides of a proposal are disjoint sets of voters.
LEMMA TallyInvBounds == TypeOK /\ TallyInv => TallyWithinTotalWeight
<1> SUFFICES ASSUME TypeOK, TallyInv, NEW id \in DOMAIN proposals
             PROVE  /\ TotalVotes(proposals[id].votes)
                           <= proposals[id].total_weight
                    /\ proposals[id].threshold.kind = "AbsoluteCount" =>
                          proposals[id].threshold.weight
                             <= proposals[id].total_weight
  BY DEF TallyWithinTotalWeight
<1> DEFINE Y == VotersFor(id, "Yes")
           N == VotersFor(id, "No")
           A == VotersFor(id, "Abstain")
           V == VotersFor(id, "Veto")
<1>1. /\ proposals[id].votes["Yes"] = WeightSum(voters, Y)
      /\ proposals[id].votes["No"] = WeightSum(voters, N)
      /\ proposals[id].votes["Abstain"] = WeightSum(voters, A)
      /\ proposals[id].votes["Veto"] = WeightSum(voters, V)
  BY DEF TallyInv, TallyMatchesBallots, VoteOption
<1>2. /\ IsFiniteSet(DOMAIN voters)
      /\ IsFiniteSet(Y) /\ IsFiniteSet(N) /\ IsFiniteSet(A) /\ IsFiniteSet(V)
  BY VotersFinite
<1>3. /\ Y \cap N = {}
      /\ (Y \cup N) \cap A = {}
      /\ (Y \cup N \cup A) \cap V = {}
  BY DEF VotersFor
<1>4. (Y \cup N \cup A \cup V) \in SUBSET DOMAIN voters
  BY DEF VotersFor
<1> HIDE DEF Y, N, A, V
<1>5. /\ IsFiniteSet(Y \cup N)
      /\ IsFiniteSet(Y \cup N \cup A)
  <2>1. IsFiniteSet(Y \cup N)
    BY <1>2, FS_Union
  <2> QED
    BY <1>2, <2>1, FS_Union
<1>6. WeightSum(voters, Y \cup N)
        = WeightSum(voters, Y) + WeightSum(voters, N)
  BY <1>2, <1>3, WeightSumDisjoint
<1>7. WeightSum(voters, Y \cup N \cup A)
        = WeightSum(voters, Y \cup N) + WeightSum(voters, A)
  BY <1>2, <1>3, <1>5, WeightSumDisjoint
<1>8. WeightSum(voters, Y \cup N \cup A \cup V)
        = WeightSum(voters, Y \cup N \cup A) + WeightSum(voters, V)
  BY <1>2, <1>3, <1>5, WeightSumDisjoint
<1>9. WeightSum(voters, Y \cup N \cup A \cup V)
        <= WeightSum(voters, DOMAIN voters)
  BY <1>2, <1>4, WeightSumMonotone
<1>10. /\ WeightSum(voters, Y) \in Nat /\ WeightSum(voters, N) \in Nat
       /\ WeightSum(voters, A) \in Nat /\ WeightSum(voters, V) \in Nat
       /\ WeightSum(voters, DOMAIN voters) \in Nat
  BY <1>2, UnitsFinite
<1>11. /\ WeightSum(voters, DOMAIN voters) <= config.total_weight
       /\ config.total_weight \in Nat
       /\ proposals[id].total_weight = config.total_weight
       /\ proposals[id].threshold = config.threshold
       /\ config.threshold.kind = "AbsoluteCount" =>
             config.threshold.weight <= config.total_weight
  BY U64Assumption DEF TallyInv, VotersWithinTotal, TermsOfConfig, TypeOK,
                       Config, U64
<1>12. TotalVotes(proposals[id].votes)
         = WeightSum(voters, Y \cup N \cup A \cup V)
  BY <1>1, <1>6, <1>7, <1>8, <1>10 DEF TotalVotes
<1>13. TotalVotes(proposals[id].votes) <= proposals[id].total_weight
  BY <1>6, <1>7, <1>8, <1>9, <1>10, <1>11, <1>12
<1> QED
  BY <1>11, <1>13

(***************************************************************************)
(* The u64 arithmetic of the tally (total_weight - abstain, total_weight - *)
(* weight_needed, Votes::total) never leaves its range, so it aborts no    *)
(* transaction, even if the contract was created with repeated addresses.  *)
(***************************************************************************)
THEOREM TallyNeverExceedsTotal == Spec => []TallyWithinTotalWeight
<1>1. Spec => []TypeOK
  BY TypeCorrect
<1> QED
  BY <1>1, InitTallyInv, NextTallyInv, TallyInvBounds, PTL DEF Spec

----------------------------------------------------------------------------
\* The life of a proposal

(***************************************************************************)
(* Saving Executed in the transaction that returns the messages makes      *)
(* every later Execute of the proposal fail: its messages go out once.     *)
(***************************************************************************)
THEOREM MessagesGoOutOnce == Spec => []ExecutedExactlyOnce
<1>1. Init => ExecutedExactlyOnce
  BY DEF Init, EmptyBucket, ExecutedExactlyOnce
<1>2. TypeOK /\ ExecutedExactlyOnce /\ [Next]_vars => ExecutedExactlyOnce'
  <2> SUFFICES ASSUME TypeOK, ExecutedExactlyOnce, [Next]_vars
               PROVE  ExecutedExactlyOnce'
    OBVIOUS
  <2>1. ASSUME NEW sender \in Addr, NEW latest \in Latest,
               Propose(sender, latest)
        PROVE  ExecutedExactlyOnce'
    <3> DEFINE id == proposal_count + 1
    <3>1. /\ DOMAIN proposals' = DOMAIN proposals \cup {id}
          /\ \A i \in DOMAIN proposals : proposals'[i] = proposals[i]
          /\ proposals'[id].status # "Executed"
          /\ dispatched'[id] = 0
          /\ \A i \in DOMAIN proposals : dispatched'[i] = dispatched[i]
      BY <2>1, ProposeEffect
    <3> QED
      BY <3>1 DEF ExecutedExactlyOnce
  <2>2. ASSUME NEW sender \in Addr, NEW id \in 1 .. MaxProposals,
               NEW vote \in VoteOption, Vote(sender, id, vote)
        PROVE  ExecutedExactlyOnce'
    <3>1. /\ proposals[id].status = "Open"
          /\ DOMAIN proposals' = DOMAIN proposals
          /\ \A i \in DOMAIN proposals \ {id} : proposals'[i] = proposals[i]
          /\ proposals'[id].status \in {"Open", "Passed", "Rejected"}
          /\ dispatched' = dispatched
      BY <2>2, VoteEffect
    <3> QED
      BY <3>1 DEF ExecutedExactlyOnce
  <2>3. ASSUME NEW id \in 1 .. MaxProposals, Execute(id)
        PROVE  ExecutedExactlyOnce'
    <3>1. /\ id \in DOMAIN proposals
          /\ proposals[id].status = "Passed"
          /\ proposals' = Put(proposals, id,
                              [proposals[id] EXCEPT !.status = "Executed"])
          /\ dispatched'[id] = dispatched[id] + 1
          /\ \A i \in DOMAIN proposals \ {id} : dispatched'[i] = dispatched[i]
      BY <2>3, ExecuteEffect
    <3>2. /\ DOMAIN proposals' = DOMAIN proposals
          /\ \A i \in DOMAIN proposals \ {id} : proposals'[i] = proposals[i]
          /\ proposals'[id].status = "Executed"
      BY <3>1, RestatusEffect
    <3>3. dispatched[id] = 0
      BY <3>1 DEF ExecutedExactlyOnce
    <3> QED
      BY <3>1, <3>2, <3>3 DEF ExecutedExactlyOnce
  <2>4. ASSUME NEW id \in 1 .. MaxProposals, Close(id)
        PROVE  ExecutedExactlyOnce'
    <3>1. /\ id \in DOMAIN proposals
          /\ proposals[id].status # "Executed"
          /\ proposals' = Put(proposals, id,
                              [proposals[id] EXCEPT !.status = "Rejected"])
          /\ dispatched' = dispatched
      BY <2>4, CloseEffect
    <3>2. /\ DOMAIN proposals' = DOMAIN proposals
          /\ \A i \in DOMAIN proposals \ {id} : proposals'[i] = proposals[i]
          /\ proposals'[id].status = "Rejected"
      BY <3>1, RestatusEffect
    <3> QED
      BY <3>1, <3>2 DEF ExecutedExactlyOnce
  <2>5. ASSUME NEW dt \in TimeSteps, NewBlock(dt) PROVE ExecutedExactlyOnce'
    BY <2>5 DEF NewBlock, ExecutedExactlyOnce
  <2>6. CASE UNCHANGED vars
    BY <2>6 DEF vars, ExecutedExactlyOnce
  <2> QED
    BY <2>1, <2>2, <2>3, <2>4, <2>5, <2>6 DEF Next
<1> QED
  BY <1>1, <1>2, TypeCorrect, PTL DEF Spec

(***************************************************************************)
(* Clipping `latest' to the voting period gives every proposal a deadline  *)
(* the chain reaches: `Never' and a far height or time are cut, and one of *)
(* the other kind is refused.                                              *)
(***************************************************************************)
THEOREM DeadlinesAreReached == Spec => []ExpiryWithinPeriod
<1>1. Init => ExpiryWithinPeriod
  BY DEF Init, EmptyBucket, ExpiryWithinPeriod
<1>2. TypeOK /\ ExpiryWithinPeriod /\ [Next]_vars => ExpiryWithinPeriod'
  <2> SUFFICES ASSUME TypeOK, ExpiryWithinPeriod, [Next]_vars
               PROVE  ExpiryWithinPeriod'
    OBVIOUS
  <2> DEFINE limit == After(config.max_voting_period, block)
  <2>1. ASSUME NEW sender \in Addr, NEW latest \in Latest,
               Propose(sender, latest)
        PROVE  ExpiryWithinPeriod'
    <3> DEFINE id == proposal_count + 1
    <3>1. /\ DOMAIN proposals' = DOMAIN proposals \cup {id}
          /\ \A i \in DOMAIN proposals : proposals'[i] = proposals[i]
          /\ proposals'[id].expires.kind = limit.kind
          /\ proposals'[id].expires.at <= limit.at
          /\ config' = config /\ block' = block
      BY <2>1, ProposeEffect
    <3> QED
      BY <3>1 DEF ExpiryWithinPeriod
  <2>2. ASSUME DOMAIN proposals' = DOMAIN proposals,
               \A i \in DOMAIN proposals :
                  proposals'[i].expires = proposals[i].expires,
               config' = config, block' = block
        PROVE  ExpiryWithinPeriod'
    BY <2>2 DEF ExpiryWithinPeriod
  <2>3. ASSUME NEW sender \in Addr, NEW id \in 1 .. MaxProposals,
               NEW vote \in VoteOption, Vote(sender, id, vote)
        PROVE  ExpiryWithinPeriod'
    <3>1. /\ DOMAIN proposals' = DOMAIN proposals
          /\ \A i \in DOMAIN proposals \ {id} : proposals'[i] = proposals[i]
          /\ proposals'[id].expires = proposals[id].expires
          /\ config' = config /\ block' = block
      BY <2>3, VoteEffect
    <3> QED
      BY <2>2, <3>1
  <2>4. ASSUME NEW id \in 1 .. MaxProposals, Execute(id)
        PROVE  ExpiryWithinPeriod'
    <3>1. /\ id \in DOMAIN proposals
          /\ proposals' = Put(proposals, id,
                              [proposals[id] EXCEPT !.status = "Executed"])
          /\ config' = config /\ block' = block
      BY <2>4, ExecuteEffect
    <3> QED
      BY <2>2, <3>1, RestatusEffect
  <2>5. ASSUME NEW id \in 1 .. MaxProposals, Close(id)
        PROVE  ExpiryWithinPeriod'
    <3>1. /\ id \in DOMAIN proposals
          /\ proposals' = Put(proposals, id,
                              [proposals[id] EXCEPT !.status = "Rejected"])
          /\ config' = config /\ block' = block
      BY <2>5, CloseEffect
    <3> QED
      BY <2>2, <3>1, RestatusEffect
  <2>6. ASSUME NEW dt \in TimeSteps, NewBlock(dt) PROVE ExpiryWithinPeriod'
    <3>1. /\ block' = [height |-> block.height + 1, time |-> block.time + dt]
          /\ config' = config /\ proposals' = proposals
          /\ dt \in Nat
      BY <2>6, MultisigAssumption DEF NewBlock, configured
    <3>2. /\ block.height \in Nat /\ block.time \in Nat
          /\ config.max_voting_period.len \in Nat
      BY U64Assumption DEF TypeOK, Block, Config, Duration, U64
    <3>3. limit'.kind = limit.kind /\ limit'.at >= limit.at
      BY <3>1, <3>2 DEF After, AtHeight, AtTime
    <3>4. limit.at \in Nat /\ limit'.at \in Nat
      BY <3>1, <3>2 DEF After, AtHeight, AtTime
    <3>5. ASSUME NEW i \in DOMAIN proposals
          PROVE  /\ proposals[i].expires.kind = limit.kind
                 /\ proposals[i].expires.at <= limit.at
                 /\ proposals[i].expires.at \in Int
      <4>1. proposals[i].expires \in Expiration
        BY <3>5 DEF TypeOK, Proposal
      <4>2. proposals[i].expires.at \in Int
        BY <4>1, U64Assumption DEF Expiration, FiniteExpiration, Never, U64
      <4> QED
        BY <4>2 DEF ExpiryWithinPeriod
    <3> HIDE DEF limit
    <3>6. \A i \in DOMAIN proposals :
              /\ proposals[i].expires.kind = limit'.kind
              /\ proposals[i].expires.at <= limit'.at
      BY <3>3, <3>4, <3>5
    <3> QED
      BY <3>1, <3>6 DEF ExpiryWithinPeriod, limit
  <2>7. CASE UNCHANGED vars
    BY <2>7 DEF vars, configured, ExpiryWithinPeriod
  <2> QED
    BY <2>1, <2>3, <2>4, <2>5, <2>6, <2>7 DEF Next
<1> QED
  BY <1>1, <1>2, TypeCorrect, PTL DEF Spec

----------------------------------------------------------------------------
\* Decisions

\* No transaction leaves a proposal Pending, a status execute_close would let
\* through: voting begins with the proposal.
NeverPending == \A id \in DOMAIN proposals : proposals[id].status # "Pending"

LEMMA NextNeverPending ==
    TypeOK /\ NeverPending /\ [Next]_vars => NeverPending'
<1> SUFFICES ASSUME TypeOK, NeverPending, [Next]_vars PROVE NeverPending'
  OBVIOUS
<1>1. ASSUME NEW sender \in Addr, NEW latest \in Latest,
             Propose(sender, latest)
      PROVE  NeverPending'
  <2> DEFINE id == proposal_count + 1
  <2>1. /\ DOMAIN proposals' = DOMAIN proposals \cup {id}
        /\ \A i \in DOMAIN proposals : proposals'[i] = proposals[i]
        /\ proposals'[id].status \in {"Open", "Passed", "Rejected"}
    BY <1>1, ProposeEffect
  <2> QED
    BY <2>1 DEF NeverPending
<1>2. ASSUME NEW sender \in Addr, NEW id \in 1 .. MaxProposals,
             NEW vote \in VoteOption, Vote(sender, id, vote)
      PROVE  NeverPending'
  <2>1. /\ DOMAIN proposals' = DOMAIN proposals
        /\ \A i \in DOMAIN proposals \ {id} : proposals'[i] = proposals[i]
        /\ proposals'[id].status \in {"Open", "Passed", "Rejected"}
    BY <1>2, VoteEffect
  <2> QED
    BY <2>1 DEF NeverPending
<1>3. ASSUME NEW id \in DOMAIN proposals, NEW st \in {"Executed", "Rejected"},
             proposals' = Put(proposals, id,
                              [proposals[id] EXCEPT !.status = st])
      PROVE  NeverPending'
  <2>1. /\ DOMAIN proposals' = DOMAIN proposals
        /\ \A i \in DOMAIN proposals \ {id} : proposals'[i] = proposals[i]
        /\ proposals'[id].status = st
    BY <1>3, RestatusEffect
  <2> QED
    BY <2>1 DEF NeverPending
<1>4. ASSUME NEW id \in 1 .. MaxProposals, Execute(id) PROVE NeverPending'
  BY <1>3, <1>4, ExecuteEffect
<1>5. ASSUME NEW id \in 1 .. MaxProposals, Close(id) PROVE NeverPending'
  BY <1>3, <1>5, CloseEffect
<1>6. ASSUME NEW dt \in TimeSteps, NewBlock(dt) PROVE NeverPending'
  BY <1>6 DEF NewBlock, NeverPending
<1>7. CASE UNCHANGED vars
  BY <1>7 DEF vars, NeverPending
<1> QED
  BY <1>1, <1>2, <1>4, <1>5, <1>6, <1>7 DEF Next

\* The part of DecisionIsFinal that concerns one proposal.
DecisionKept(id) ==
    /\ id \in DOMAIN proposals'
    /\ proposals'[id].status \in StatusSuccessors(proposals[id].status)
    /\ proposals[id].status # "Open" =>
          /\ proposals'[id].votes = proposals[id].votes
          /\ \A a \in DOMAIN voters :
                (<<id, a>> \in DOMAIN ballots') => (<<id, a>> \in DOMAIN ballots)
    /\ \A field \in {"expires", "threshold", "total_weight"} :
          proposals'[id][field] = proposals[id][field]

\* A proposal whose record and ballots stay as they are keeps its decision.
LEMMA UntouchedKept ==
    ASSUME TypeOK, NEW id \in DOMAIN proposals,
           id \in DOMAIN proposals', proposals'[id] = proposals[id],
           \A a \in DOMAIN voters :
              (<<id, a>> \in DOMAIN ballots') => (<<id, a>> \in DOMAIN ballots)
    PROVE  DecisionKept(id)
<1>1. proposals[id].status \in Status
  BY DEF TypeOK, Proposal
<1>2. proposals[id].status \in StatusSuccessors(proposals[id].status)
  BY <1>1 DEF StatusSuccessors, Status
<1> QED
  BY <1>2 DEF DecisionKept

(***************************************************************************)
(* No transaction of anybody takes a decision back, changes a decided      *)
(* tally or the terms of a proposal.                                       *)
(***************************************************************************)
THEOREM DecisionsAreFinal == Spec => DecisionIsFinal
<1>1. TypeOK /\ NeverPending /\ [Next]_vars
        => [\A id \in DOMAIN proposals : DecisionKept(id)]_vars
  <2> SUFFICES ASSUME TypeOK, NeverPending, Next, NEW i \in DOMAIN proposals
               PROVE  DecisionKept(i)
    OBVIOUS
  <2>1. ASSUME NEW sender \in Addr, NEW latest \in Latest,
               Propose(sender, latest)
        PROVE  DecisionKept(i)
    <3> DEFINE id == proposal_count + 1
    <3>1. /\ id \notin DOMAIN proposals
          /\ DOMAIN proposals' = DOMAIN proposals \cup {id}
          /\ \A j \in DOMAIN proposals : proposals'[j] = proposals[j]
          /\ DOMAIN ballots' = DOMAIN ballots \cup {<<id, sender>>}
      BY <2>1, ProposeEffect
    <3> QED
      BY <3>1, UntouchedKept
  <2>2. ASSUME NEW sender \in Addr, NEW id \in 1 .. MaxProposals,
               NEW vote \in VoteOption, Vote(sender, id, vote)
        PROVE  DecisionKept(i)
    <3>1. /\ proposals[id].status = "Open"
          /\ DOMAIN proposals' = DOMAIN proposals
          /\ \A j \in DOMAIN proposals \ {id} : proposals'[j] = proposals[j]
          /\ proposals'[id].expires = proposals[id].expires
          /\ proposals'[id].threshold = proposals[id].threshold
          /\ proposals'[id].total_weight = proposals[id].total_weight
          /\ proposals'[id].status \in {"Open", "Passed", "Rejected"}
          /\ DOMAIN ballots' = DOMAIN ballots \cup {<<id, sender>>}
      BY <2>2, VoteEffect
    <3>2. CASE i = id
      BY <3>1, <3>2 DEF DecisionKept, StatusSuccessors
    <3>3. CASE i # id
      BY <3>1, <3>3, UntouchedKept
    <3> QED
      BY <3>2, <3>3
  <2>3. ASSUME NEW id \in 1 .. MaxProposals, NEW st,
               id \in DOMAIN proposals,
               st \in StatusSuccessors(proposals[id].status),
               proposals' = Put(proposals, id,
                                [proposals[id] EXCEPT !.status = st]),
               ballots' = ballots
        PROVE  DecisionKept(i)
    <3>1. /\ DOMAIN proposals' = DOMAIN proposals
          /\ \A j \in DOMAIN proposals \ {id} : proposals'[j] = proposals[j]
          /\ proposals'[id].expires = proposals[id].expires
          /\ proposals'[id].threshold = proposals[id].threshold
          /\ proposals'[id].total_weight = proposals[id].total_weight
          /\ proposals'[id].votes = proposals[id].votes
          /\ proposals'[id].status = st
      BY <2>3, RestatusEffect
    <3>2. CASE i = id
      BY <2>3, <3>1, <3>2 DEF DecisionKept
    <3>3. CASE i # id
      BY <2>3, <3>1, <3>3, UntouchedKept
    <3> QED
      BY <3>2, <3>3
  <2>4. ASSUME NEW id \in 1 .. MaxProposals, Execute(id)
        PROVE  DecisionKept(i)
    <3>1. /\ id \in DOMAIN proposals
          /\ proposals[id].status = "Passed"
          /\ proposals' = Put(proposals, id,
                              [proposals[id] EXCEPT !.status = "Executed"])
          /\ ballots' = ballots
      BY <2>4, ExecuteEffect
    <3>2. "Executed" \in StatusSuccessors(proposals[id].status)
      BY <3>1 DEF StatusSuccessors
    <3> QED
      BY <2>3, <3>1, <3>2
  <2>5. ASSUME NEW id \in 1 .. MaxProposals, Close(id)
        PROVE  DecisionKept(i)
    <3>1. /\ id \in DOMAIN proposals
          /\ proposals[id].status \notin {"Executed", "Rejected", "Passed"}
          /\ proposals' = Put(proposals, id,
                              [proposals[id] EXCEPT !.status = "Rejected"])
          /\ ballots' = ballots
      BY <2>5, CloseEffect
    <3>2. proposals[id].status = "Open"
      BY <3>1 DEF TypeOK, NeverPending, Proposal, Status
    <3>3. "Rejected" \in StatusSuccessors(proposals[id].status)
      BY <3>2 DEF StatusSuccessors
    <3> QED
      BY <2>3, <3>1, <3>3
  <2>6. ASSUME NEW dt \in TimeSteps, NewBlock(dt) PROVE DecisionKept(i)
    BY <2>6, UntouchedKept DEF NewBlock
  <2> QED
    BY <2>1, <2>2, <2>4, <2>5, <2>6 DEF Next
<1>2. Init => NeverPending
  BY DEF Init, EmptyBucket, NeverPending
<1>3. Spec => [][\A id \in DOMAIN proposals : DecisionKept(id)]_vars
  BY <1>1, <1>2, NextNeverPending, TypeCorrect, PTL DEF Spec
<1> QED
  BY <1>3 DEF DecisionIsFinal, DecisionKept

=============================================================================
