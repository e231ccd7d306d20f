-------------------------- MODULE MultisigQueries --------------------------
(***************************************************************************)
(* The queries of contracts/src/contract.rs: what each of them answers in  *)
(* a state of Multisig.  A query has no block (the code's TODO in          *)
(* query_proposal), reads the storage and changes nothing.  NoArg stands   *)
(* for None, as an argument and as an answer; QueryError for the error of  *)
(* a load that finds no record.                                            *)
(***************************************************************************)
EXTENDS MultisigProperties

CONSTANTS DEFAULT_LIMIT, MAX_LIMIT, QueryError, NoArg

ASSUME QueryAssumption ==
    /\ DEFAULT_LIMIT \in Nat
    /\ MAX_LIMIT \in Nat

Smaller(m, n) == IF m <= n THEN m ELSE n
GivenOr(arg, default) == IF arg = NoArg THEN default ELSE arg

----------------------------------------------------------------------------
\* The rules and the proposals

QueryThreshold == ToResponse(config.threshold, config.total_weight)

\* ProposalResponse, of a record that exists; the status is the stored one.
ProposalResponse(id) ==
    LET prop == proposals[id]
    IN  [ id        |-> id,
          status    |-> prop.status,
          expires   |-> prop.expires,
          threshold |-> ToResponse(prop.threshold, prop.total_weight) ]

QueryProposal(id) ==
    IF id \in DOMAIN proposals THEN ProposalResponse(id) ELSE QueryError

\* limit.unwrap_or(DEFAULT_LIMIT).min(MAX_LIMIT), then .min(latest_prop)
Limit(limit) ==
    Smaller(Smaller(GivenOr(limit, DEFAULT_LIMIT), MAX_LIMIT), proposal_count)

\* Answers the records of a sequence of ids; one that is missing is an error.
Loaded(ids) ==
    IF \A i \in DOMAIN ids : ids[i] \in DOMAIN proposals
    THEN [i \in DOMAIN ids |-> ProposalResponse(ids[i])]
    ELSE QueryError

\* Mutant: the listing stops one id short of the limit.
ListProposalsShort(start_after, limit) ==
    LET start == GivenOr(start_after, 1)
        last  == Limit(limit) - 1
    IN  Loaded([i \in 1 .. last + 1 - start |-> start + i - 1])

(***************************************************************************)
(* list_proposals: from start_after itself, and while the id, not the      *)
(* number of answers, is at most the limit.                                *)
(***************************************************************************)
ListProposals(start_after, limit) ==
    LET start == GivenOr(start_after, 1)
        last  == Limit(limit)
    IN  Loaded([i \in 1 .. last + 1 - start |-> start + i - 1])

\* Mutant: the loop of the reversed listing runs once more.
ReverseProposalsOneMore(start_before, limit) ==
    LET start == Smaller(GivenOr(start_before, proposal_count), proposal_count)
    IN  Loaded([i \in 1 .. Limit(limit) + 1 |-> start - i + 1])

\* reverse_proposals: `limit' records, counting down from start_before itself.
ReverseProposals(start_before, limit) ==
    LET start == Smaller(GivenOr(start_before, proposal_count), proposal_count)
    IN  Loaded([i \in 1 .. Limit(limit) |-> start - i + 1])

----------------------------------------------------------------------------
\* The votes and the voters

VoteInfo(id, voter, vote, weight) ==
    [proposal_id |-> id, voter |-> voter, vote |-> vote, weight |-> weight]

\* query_vote: the ballot of a voter, if there is one.
QueryVote(id, voter) ==
    IF <<id, voter>> \in DOMAIN ballots
    THEN LET ballot == ballots[<<id, voter>>]
         IN  VoteInfo(id, voter, ballot.vote, ballot.weight)
    ELSE NoArg

\* One turn of the loop of list_votes: an entry of the list of voters that has
\* a ballot is added, with the vote of the ballot and the weight of the list.
PushVote(votes, id, entry) ==
    IF <<id, entry.addr>> \in DOMAIN ballots
    THEN Append(votes, VoteInfo(id, entry.addr,
                                ballots[<<id, entry.addr>>].vote, entry.weight))
    ELSE votes

\* list_votes: votes[n] is what the first n entries of the list have added.
ListVotes(id) ==
    LET votes[n \in 0 .. Len(voters_list)] ==
            IF n = 0 THEN <<>> ELSE PushVote(votes[n - 1], id, voters_list[n])
    IN  votes[Len(voters_list)]

\* query_voter: the weight of the bucket.
QueryVoter(voter) == IF voter \in DOMAIN voters THEN voters[voter] ELSE NoArg

\* list_voters: the list as given to init.
ListVoters == voters_list

\* The entry point `query'; the arguments of the lists of votes and voters
\* besides the id are not used.
Query(msg) ==
    CASE msg.kind = "Threshold"        -> QueryThreshold
      [] msg.kind = "Proposal"         -> QueryProposal(msg.id)
      [] msg.kind = "Vote"             -> QueryVote(msg.id, msg.voter)
      [] msg.kind = "ListProposals"    -> ListProposals(msg.start, msg.limit)
      [] msg.kind = "ReverseProposals" -> ReverseProposals(msg.start, msg.limit)
      [] msg.kind = "ListVotes"        -> ListVotes(msg.id)
      [] msg.kind = "Voter"            -> QueryVoter(msg.voter)
      [] msg.kind = "ListVoters"       -> ListVoters

\* The values of QueryMsg.
AskThreshold == [kind |-> "Threshold"]
AskProposal(id) == [kind |-> "Proposal", id |-> id]
AskVote(id, voter) == [kind |-> "Vote", id |-> id, voter |-> voter]
AskPage(list, start, limit) == [kind |-> list, start |-> start, limit |-> limit]
AskVotes(id) == [kind |-> "ListVotes", id |-> id]
AskVoter(voter) == [kind |-> "Voter", voter |-> voter]
AskVoters == [kind |-> "ListVoters"]

----------------------------------------------------------------------------
\* The weight of one side in a list of votes.
SideWeight(votes, vote) ==
    WeightSum([i \in DOMAIN votes |-> votes[i].weight],
              {i \in DOMAIN votes : votes[i].vote = vote})

\* The same in the answer of ListVotes.
ListedWeight(id, vote) == SideWeight(Query(AskVotes(id)), vote)

(***************************************************************************)
(* "Sum the weights of the Yes votes to get the tally": whoever adds up    *)
(* the answer of list_votes, which takes the votes from the ballots and    *)
(* the weights from the list of voters, gets the tally that decides the    *)
(* proposal, on every side.                                                *)
(***************************************************************************)
ListedVotesAreTheTally ==
    \A id \in DOMAIN proposals, vote \in VoteOption :
        ListedWeight(id, vote) = proposals[id].votes[vote]

\* A proposal as a client puts it together from the answers of two queries.
Rebuilt(id) ==
    LET answer == Query(AskProposal(id))
    IN  [ expires      |-> answer.expires,
          status       |-> answer.status,
          threshold    |-> answer.threshold,
          total_weight |-> answer.threshold.total_weight,
          votes        |-> [v \in VoteOption |-> ListedWeight(id, v)] ]

\* Whether the voter may vote, by the answers of three queries and the block.
SeemsToVote(voter, id) ==
    LET answer == Query(AskProposal(id))
        weight == Query(AskVoter(voter))
    IN  /\ weight # NoArg
        /\ weight >= 1
        /\ Query(AskVote(id, voter)) = NoArg
        /\ answer # QueryError
        /\ answer.status = "Open"
        /\ ~IsExpired(answer.expires, block)

(***************************************************************************)
(* "Using status from last save (it may have expired since then)", says    *)
(* query_proposal of its answer.  A client that knows the block can make   *)
(* up for it: from the answers of the queries alone it computes the status *)
(* current_status would give, knows who can still vote, and what status    *)
(* the vote would leave behind.  (No address is listed twice here, and no  *)
(* weight is so large that votes_needed overflows.)                        *)
(***************************************************************************)
ClientsCanDecide ==
    \A id \in DOMAIN proposals :
        /\ CurrentStatus(Rebuilt(id), block)
              = CurrentStatus(proposals[id], block)
        /\ \A i \in DOMAIN Query(AskVoters), vote \in VoteOption :
              LET voter  == Query(AskVoters)[i].addr
                  weight == Query(AskVoter(voter))
                  seen   == Rebuilt(id)
              IN  /\ SeemsToVote(voter, id) <=> CanVote(voter, id, vote)
                  /\ SeemsToVote(voter, id) =>
                        Tallied(seen, vote, weight).status
                            = Tallied(proposals[id], vote, voters[voter]).status

(***************************************************************************)
(* Listing backwards from the newest proposal never fails, whatever the    *)
(* limit, and leaves no proposal out between the newest and the last one   *)
(* it answers: the ids the handlers give out are those the loop counts     *)
(* through.                                                                *)
(***************************************************************************)
NewestFirst ==
    \A limit \in {NoArg} \cup 0 .. MaxProposals + 1 :
        LET page == Query(AskPage("ReverseProposals", NoArg, limit))
        IN  /\ page # QueryError
            /\ Len(page) = Limit(limit)
            /\ \A id \in DOMAIN proposals :
                  (\A i \in DOMAIN page : page[i].id # id) =>
                      (\A i \in DOMAIN page : page[i].id > id)

----------------------------------------------------------------------------
\* Every proposal is on some page of list_proposals.
EveryProposalIsListed ==
    \A id \in DOMAIN proposals :
        \E start \in {NoArg} \cup DOMAIN proposals,
           limit \in {NoArg} \cup 0 .. MaxProposals :
              LET page == Query(AskPage("ListProposals", start, limit))
              IN  page # QueryError /\ \E i \in DOMAIN page : page[i].id = id

(***************************************************************************)
(* How far the two listings reach.  The loop of list_proposals compares an *)
(* id with a page size: every proposal is on one of its pages exactly as   *)
(* long as there are no more than MAX_LIMIT.  The loop of                  *)
(* reverse_proposals does not stop at the first id: the page from a        *)
(* proposal downwards is an error exactly when fewer proposals are left    *)
(* than the limit asks for, so a client that walks down has to ask for     *)
(* less on its last page, and can reach every proposal if it does.         *)
(***************************************************************************)
PagesReach ==
    /\ EveryProposalIsListed <=> proposal_count <= MAX_LIMIT
    /\ \A start \in DOMAIN proposals,
          limit \in {NoArg} \cup 0 .. MaxProposals + 1 :
             LET page == Query(AskPage("ReverseProposals", start, limit))
             IN  /\ page # QueryError <=> Limit(limit) <= start
                 /\ page # QueryError /\ Limit(limit) > 0 =>
                       \E i \in DOMAIN page : page[i].id = start
=============================================================================
