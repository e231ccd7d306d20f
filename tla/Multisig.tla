------------------------------ MODULE Multisig ------------------------------
(***************************************************************************)
(* The fixed multisig contract of contracts/src/contract.rs: its storage,  *)
(* the state init leaves behind, and one action per message of handle.     *)
(*                                                                         *)
(* A transaction is atomic: a handler that returns an error or aborts      *)
(* leaves no trace, so an action is enabled exactly when the handler       *)
(* succeeds.  Every account may send any message at any time; the          *)
(* contract's own address may be among them, since the messages of an      *)
(* executed proposal may call the contract again.                          *)
(***************************************************************************)
EXTENDS Tally, Sequences

CONSTANTS
    Addr,           \* the accounts that send messages
    InitMsgs,       \* the InitMsg values the contract may be created with
    Latest,         \* the values of Propose's optional argument `latest'
    Genesis,        \* the block in which the contract is created
    TimeSteps,      \* what the block time may grow by from block to block
    MaxProposals    \* bound: proposals created in a behaviour

NoLatest == [kind |-> "None", at |-> 0]

Voter == [addr : Addr, weight : U64]

InitMsg == [ voters            : Seq(Voter),
             threshold         : Threshold,
             max_voting_period : Duration ]

Config == [ threshold         : Threshold,
            total_weight      : U64,
            max_voting_period : Duration ]

ASSUME MultisigAssumption ==
    /\ IsFiniteSet(Addr)
    /\ InitMsgs \subseteq InitMsg
    /\ Latest \subseteq FiniteExpiration \cup {Never, NoLatest}
    /\ Genesis \in Block
    /\ TimeSteps \subseteq Nat
    /\ MaxProposals \in Nat

VARIABLES
    block,            \* env.block: the height and the time of the chain
    config,           \* storage: the Config singleton
    voters,           \* storage: the voters bucket, address -> weight
    voters_list,      \* storage: the voters as given to init
    proposal_count,   \* storage: the proposal_count singleton
    proposals,        \* storage: the proposals bucket, id -> Proposal
    ballots,          \* storage: the ballots buckets, <<id, address>> -> Ballot
    dispatched        \* history: how often the messages of id were returned

vars == << block, config, voters, voters_list, proposal_count, proposals,
           ballots, dispatched >>

configured == <<config, voters, voters_list>>   \* what init alone writes

----------------------------------------------------------------------------
\* Bucket::save: a new key, or a new value under a key.
Put(f, k, v) == [x \in DOMAIN f \cup {k} |-> IF x = k THEN v ELSE f[x]]

EmptyBucket == [k \in {} |-> k]

\* The last entry of an address in the list.
LastEntry(list, addr) ==
    CHOOSE i \in DOMAIN list :
        /\ list[i].addr = addr
        /\ \A j \in DOMAIN list : list[j].addr = addr => j <= i

\* The voters bucket after init's loop: the last entry of an address wins.
VotersBucket(list) ==
    [addr \in {list[i].addr : i \in DOMAIN list} |->
        list[LastEntry(list, addr)].weight]

\* total_weight: the sum over the list as given, repeated addresses included.
TotalWeight(list) ==
    WeightSum([i \in DOMAIN list |-> list[i].weight], DOMAIN list)

\* The storage a successful init leaves behind.
Init ==
    /\ block = Genesis
    /\ \E msg \in InitMsgs :
          /\ msg.voters # <<>>
          /\ TotalWeight(msg.voters) \in U64
          /\ Validate(msg.threshold, TotalWeight(msg.voters))
          /\ config = [ threshold         |-> msg.threshold,
                        total_weight      |-> TotalWeight(msg.voters),
                        max_voting_period |-> msg.max_voting_period ]
          /\ voters_list = msg.voters
          /\ voters = VotersBucket(msg.voters)
    /\ proposal_count = 0
    /\ proposals = EmptyBucket
    /\ ballots = EmptyBucket
    /\ dispatched = EmptyBucket

----------------------------------------------------------------------------
\* execute_propose

\* Mutant: the requested expiration is taken as it is.
ChosenExpirationUnclipped(latest, max_expires) ==
    IF latest = NoLatest THEN max_expires ELSE latest

\* The proposer's deadline, the limit of the contract by default and at most.
ChosenExpiration(latest, max_expires) ==
    IF latest = NoLatest \/ IsGreater(latest, max_expires)
    THEN max_expires
    ELSE latest

\* The proposal as built, before update_status.
ProposalDraft(sender, expires) ==
    [ start_height |-> block.height,
      expires      |-> expires,
      status       |-> "Open",
      threshold    |-> config.threshold,
      total_weight |-> config.total_weight,
      votes        |-> VotesYes(voters[sender]) ]

\* Mutant: the new proposal is stored without its first update_status.
NewProposalNotUpdated(sender, expires) == ProposalDraft(sender, expires)

NewProposal(sender, expires) ==
    UpdateStatus(ProposalDraft(sender, expires), block)

\* Mutant: the id is the count before the update.
NextProposalIdStale == proposal_count

\* The count after the update, which is the id of the new proposal.
NextProposalId == proposal_count + 1

\* The conditions under which execute_propose does not return or abort early.
CanPropose(sender, latest) ==
    LET max_expires == After(config.max_voting_period, block)
        expires     == ChosenExpiration(latest, max_expires)
    IN  /\ sender \in DOMAIN voters
        /\ AfterFits(config.max_voting_period, block)
        /\ latest # NoLatest => ~Incomparable(latest, max_expires)
        /\ StatusComputable(ProposalDraft(sender, expires), block)

Propose(sender, latest) ==
    LET max_expires == After(config.max_voting_period, block)
        expires     == ChosenExpiration(latest, max_expires)
        id          == NextProposalId
    IN  /\ CanPropose(sender, latest)
        /\ proposal_count < MaxProposals
        /\ proposal_count' = id
        /\ proposals' = Put(proposals, id, NewProposal(sender, expires))
        /\ ballots' = Put(ballots, <<id, sender>>,
                          [weight |-> voters[sender], vote |-> "Yes"])
        /\ dispatched' = Put(dispatched, id, 0)
        /\ UNCHANGED <<block, configured>>

----------------------------------------------------------------------------
\* execute_vote

MayVote(sender) == sender \in DOMAIN voters /\ voters[sender] >= 1

\* Mutant: a voter may vote again.
NotVotedYetUnchecked(id, sender) == TRUE

NotVotedYet(id, sender) == <<id, sender>> \notin DOMAIN ballots

\* Mutant: the proposal is saved before its status is updated.
TalliedOnly(p, vote, weight) == [p EXCEPT !.votes = AddVote(@, vote, weight)]

\* The proposal with one more vote, its status up to date.
Tallied(p, vote, weight) ==
    UpdateStatus([p EXCEPT !.votes = AddVote(@, vote, weight)], block)

\* The conditions under which execute_vote does not return or abort early.
CanVote(sender, id, vote) ==
    /\ MayVote(sender)
    /\ id \in DOMAIN proposals
    /\ proposals[id].status = "Open"
    /\ ~IsExpired(proposals[id].expires, block)
    /\ NotVotedYet(id, sender)
    /\ StatusComputable([proposals[id] EXCEPT
                            !.votes = AddVote(@, vote, voters[sender])], block)

Vote(sender, id, vote) ==
    /\ CanVote(sender, id, vote)
    /\ ballots' = Put(ballots, <<id, sender>>,
                      [weight |-> voters[sender], vote |-> vote])
    /\ proposals' = Put(proposals, id,
                        Tallied(proposals[id], vote, voters[sender]))
    /\ UNCHANGED <<block, configured, proposal_count, dispatched>>

----------------------------------------------------------------------------
\* execute_execute and execute_close

\* Mutant: the messages are returned and the status is left as it is.
ExecutedForgotten(p) == p

Executed(p) == [p EXCEPT !.status = "Executed"]

\* It is the stored status that counts, not the current one.
CanExecute(id) ==
    /\ id \in DOMAIN proposals
    /\ proposals[id].status = "Passed"

Execute(id) ==
    /\ CanExecute(id)
    /\ proposals' = Put(proposals, id, Executed(proposals[id]))
    /\ dispatched' = Put(dispatched, id, dispatched[id] + 1)
    /\ UNCHANGED <<block, configured, proposal_count, ballots>>

\* Mutant: a passed proposal that nobody executed in time can be closed.
WrongCloseStatusLax == {"Executed", "Rejected"}

WrongCloseStatus == {"Executed", "Rejected", "Passed"}

CanClose(id) ==
    /\ id \in DOMAIN proposals
    /\ proposals[id].status \notin WrongCloseStatus
    /\ IsExpired(proposals[id].expires, block)

Close(id) ==
    /\ CanClose(id)
    /\ proposals' = Put(proposals, id,
                        [proposals[id] EXCEPT !.status = "Rejected"])
    /\ UNCHANGED <<block, configured, proposal_count, ballots, dispatched>>

----------------------------------------------------------------------------
(***************************************************************************)
(* The chain makes a block: one height up, the clock by one of TimeSteps.  *)
(* MaxU64 is the horizon of the model as well as the width of both.        *)
(***************************************************************************)
NewBlock(dt) ==
    /\ block.height + 1 \in U64
    /\ block.time + dt \in U64
    /\ block' = [height |-> block.height + 1, time |-> block.time + dt]
    /\ UNCHANGED <<configured, proposal_count, proposals, ballots, dispatched>>

Next ==
    \/ \E sender \in Addr, latest \in Latest : Propose(sender, latest)
    \/ \E sender \in Addr, id \in 1 .. MaxProposals, vote \in VoteOption :
          Vote(sender, id, vote)
    \/ \E id \in 1 .. MaxProposals : Execute(id)
    \/ \E id \in 1 .. MaxProposals : Close(id)
    \/ \E dt \in TimeSteps : NewBlock(dt)

Spec == Init /\ [][Next]_vars

\* The chain never stops making blocks; nobody is obliged to send anything.
Fairness == WF_vars(\E dt \in TimeSteps : NewBlock(dt))

FairSpec == Spec /\ Fairness
=============================================================================
