------------------------- MODULE MultisigTypeProofs -------------------------
(***************************************************************************)
(* Multisig keeps its storage well typed, for every value of its constants *)
(* that satisfies the assumptions.                                         *)
(***************************************************************************)
EXTENDS MultisigProperties, ArithmeticLemmas

----------------------------------------------------------------------------
\* The state init leaves behind

\* A nonempty set of indices has a largest one.
LEMMA LargestIndex ==
    ASSUME NEW n \in Nat, NEW I \in SUBSET (1 .. n), I # {}
    PROVE  \E i \in I : \A j \in I : j <= i
<1> DEFINE D == {n - i : i \in I}
<1>1. D \in SUBSET Nat
  <2>1. \A i \in I : i \in 1 .. n
    OBVIOUS
  <2> QED
    BY <2>1
<1>2. D # {}
  OBVIOUS
<1>3. \E d \in D : \A e \in D : ~(<<e, d>> \in OpToRel(<, Nat))
  BY <1>1, <1>2, WFMin, NatLessThanWellFounded
<1>4. PICK d \in D : \A e \in D : ~(e < d)
  BY <1>1, <1>3 DEF OpToRel
<1>5. PICK i \in I : d = n - i
  BY <1>4
<1>6. ASSUME NEW j \in I PROVE j <= i
  <2>1. n - j \in D
    OBVIOUS
  <2>2. ~(n - j < n - i)
    BY <1>4, <1>5, <2>1
  <2>3. i \in 1 .. n /\ j \in 1 .. n
    OBVIOUS
  <2> QED
    BY <2>2, <2>3
<1> QED
  BY <1>6

\* Every address of the list has a last entry.
LEMMA LastEntryProperty ==
    ASSUME NEW list \in Seq(Voter), NEW i \in DOMAIN list
    PROVE  /\ LastEntry(list, list[i].addr) \in DOMAIN list
           /\ list[LastEntry(list, list[i].addr)].addr = list[i].addr
<1> DEFINE I == {j \in DOMAIN list : list[j].addr = list[i].addr}
<1>1. /\ DOMAIN list = 1 .. Len(list)
      /\ Len(list) \in Nat
  OBVIOUS
<1>2. I \in SUBSET (1 .. Len(list)) /\ I # {}
  BY <1>1
<1>3. \E m \in I : \A j \in I : j <= m
  BY <1>1, <1>2, LargestIndex
<1>4. \E m \in DOMAIN list :
          /\ list[m].addr = list[i].addr
          /\ \A j \in DOMAIN list : list[j].addr = list[i].addr => j <= m
  BY <1>3
<1> QED
  BY <1>4 DEF LastEntry

\* The voters bucket maps addresses to u64 weights.
LEMMA VotersBucketType ==
    ASSUME NEW list \in Seq(Voter)
    PROVE  /\ DOMAIN VotersBucket(list) \subseteq Addr
           /\ VotersBucket(list) \in [DOMAIN VotersBucket(list) -> U64]
<1>1. \A i \in DOMAIN list : list[i] \in Voter
  OBVIOUS
<1>2. \A i \in DOMAIN list : list[i].addr \in Addr /\ list[i].weight \in U64
  BY <1>1 DEF Voter
<1>3. \A i \in DOMAIN list :
          list[LastEntry(list, list[i].addr)].weight \in U64
  BY <1>2, LastEntryProperty
<1> QED
  BY <1>2, <1>3 DEF VotersBucket

\* Addresses given more than once make total_weight larger, never smaller:
\* all the voters together do not outweigh it.
LEMMA VotersBucketWeight ==
    ASSUME NEW list \in Seq(Voter)
    PROVE  WeightSum(VotersBucket(list), DOMAIN VotersBucket(list))
              <= TotalWeight(list)
<1> DEFINE w == [i \in DOMAIN list |-> list[i].weight]
           A == Units(VotersBucket(list), DOMAIN VotersBucket(list))
           B == Units(w, DOMAIN list)
           f == [u \in A |-> <<LastEntry(list, u[1]), u[2]>>]
<1>1. \A addr \in DOMAIN VotersBucket(list) :
          /\ LastEntry(list, addr) \in DOMAIN list
          /\ list[LastEntry(list, addr)].addr = addr
          /\ VotersBucket(list)[addr] = w[LastEntry(list, addr)]
  BY LastEntryProperty DEF VotersBucket
<1>2. f \in [A -> B]
  <2>1. ASSUME NEW u \in A
        PROVE  <<LastEntry(list, u[1]), u[2]>> \in B
    BY <1>1 DEF Units
  <2> QED
    BY <2>1
<1>3. ASSUME NEW u \in A, NEW t \in A, f[u] = f[t]
      PROVE  u = t
  <2>1. LastEntry(list, u[1]) = LastEntry(list, t[1]) /\ u[2] = t[2]
    BY <1>3
  <2>2. /\ u[1] \in DOMAIN VotersBucket(list) /\ u = <<u[1], u[2]>>
        /\ t[1] \in DOMAIN VotersBucket(list) /\ t = <<t[1], t[2]>>
    BY DEF Units
  <2>3. /\ list[LastEntry(list, u[1])].addr = u[1]
        /\ list[LastEntry(list, t[1])].addr = t[1]
    BY <1>1, <2>2
  <2>4. u[1] = t[1]
    BY <2>1, <2>3, Zenon
  <2>5. <<u[1], u[2]>> = <<t[1], t[2]>>
    BY <2>1, <2>4, Zenon
  <2> QED
    BY <2>2, <2>5, Zenon
<1>4. f \in Injection(A, B)
  BY <1>2, <1>3 DEF Injection, IsInjective
<1>5. IsFiniteSet(B)
  <2>1. IsFiniteSet(DOMAIN list)
    <3>1. DOMAIN list = 1 .. Len(list) /\ Len(list) \in Int
      OBVIOUS
    <3> QED
      BY <3>1, FS_Interval
  <2> QED
    BY <2>1, UnitsFinite
<1>6. Cardinality(A) <= Cardinality(B)
  BY <1>4, <1>5, FS_Injection
<1> QED
  BY <1>6 DEF WeightSum, TotalWeight

----------------------------------------------------------------------------
\* Types of what the handlers build

\* A voting period that fits a u64 ends at a finite expiration of its kind.
LEMMA AfterType ==
    ASSUME NEW d \in Duration, NEW blk \in Block, AfterFits(d, blk)
    PROVE  After(d, blk) \in FiniteExpiration
BY DEF AfterFits, After, AtHeight, AtTime, Duration, FiniteExpiration

LEMMA ChosenExpirationType ==
    ASSUME NEW latest \in Latest, NEW max_expires \in FiniteExpiration,
           latest # NoLatest => ~Incomparable(latest, max_expires)
    PROVE  /\ ChosenExpiration(latest, max_expires) \in FiniteExpiration
           /\ ChosenExpiration(latest, max_expires).kind = max_expires.kind
           /\ ChosenExpiration(latest, max_expires).at <= max_expires.at
<1>1. latest \in FiniteExpiration \cup {Never, NoLatest}
  BY MultisigAssumption
<1>2. max_expires.at \in Int /\ max_expires.kind \in {"AtHeight", "AtTime"}
  BY U64Assumption DEF FiniteExpiration, U64
<1>3. CASE latest = NoLatest
  BY <1>2, <1>3 DEF ChosenExpiration
<1>4. CASE latest = Never
  BY <1>2, <1>4 DEF ChosenExpiration, IsGreater, Never
<1>5. CASE latest \in FiniteExpiration /\ latest # NoLatest
  <2>1. latest.kind \in {"AtHeight", "AtTime"} /\ latest.at \in Int
    BY <1>5, U64Assumption DEF FiniteExpiration, U64
  <2>2. latest.kind = max_expires.kind
    BY <1>2, <1>5, <2>1 DEF Incomparable
  <2> QED
    BY <1>2, <1>5, <2>1, <2>2 DEF ChosenExpiration, IsGreater
<1> QED
  BY <1>1, <1>3, <1>4, <1>5

\* update_status touches the status only, and an Open one at that.
LEMMA UpdateStatusType ==
    ASSUME NEW p \in Proposal, NEW blk
    PROVE  /\ UpdateStatus(p, blk) \in Proposal
           /\ UpdateStatus(p, blk).expires = p.expires
           /\ UpdateStatus(p, blk).threshold = p.threshold
           /\ UpdateStatus(p, blk).total_weight = p.total_weight
           /\ UpdateStatus(p, blk).votes = p.votes
           /\ UpdateStatus(p, blk).status = CurrentStatus(p, blk)
           /\ p.status = "Open" =>
                CurrentStatus(p, blk) \in {"Open", "Passed", "Rejected"}
<1>1. CurrentStatus(p, blk) \in Status
  BY DEF CurrentStatus, Proposal, Status
<1>2. p.status = "Open" =>
          CurrentStatus(p, blk) \in {"Open", "Passed", "Rejected"}
  BY DEF CurrentStatus
<1> QED
  BY <1>1, <1>2 DEF UpdateStatus, Proposal

LEMMA AddVoteType ==
    ASSUME NEW votes \in Votes, NEW vote \in VoteOption, NEW weight \in U64
    PROVE  /\ AddVote(votes, vote, weight) \in Votes
           /\ AddVote(votes, vote, weight)[vote] = votes[vote] + weight
           /\ \A v \in VoteOption \ {vote} :
                 AddVote(votes, vote, weight)[v] = votes[v]
BY U64Assumption DEF AddVote, Votes, U64

\* What a bucket holds after a save.
LEMMA PutProperty ==
    ASSUME NEW f, NEW k, NEW v
    PROVE  /\ DOMAIN Put(f, k, v) = DOMAIN f \cup {k}
           /\ Put(f, k, v)[k] = v
           /\ \A x \in DOMAIN f \ {k} : Put(f, k, v)[x] = f[x]
BY DEF Put

LEMMA PutType ==
    ASSUME NEW S, NEW f, f \in [DOMAIN f -> S], NEW k, NEW v \in S
    PROVE  Put(f, k, v) \in [DOMAIN f \cup {k} -> S]
BY DEF Put

\* The proposal a member makes is well typed, and asks for no more than its
\* weight.
LEMMA NewProposalType ==
    ASSUME TypeOK, NEW sender \in DOMAIN voters,
           NEW expires \in FiniteExpiration
    PROVE  /\ ProposalDraft(sender, expires) \in Proposal
           /\ NewProposal(sender, expires) \in Proposal
           /\ NewProposal(sender, expires).expires = expires
           /\ NewProposal(sender, expires).threshold = config.threshold
           /\ NewProposal(sender, expires).total_weight = config.total_weight
           /\ NewProposal(sender, expires).votes = VotesYes(voters[sender])
           /\ NewProposal(sender, expires).status
                 \in {"Open", "Passed", "Rejected"}
<1>1. voters[sender] \in U64 /\ voters[sender] \in Nat
  BY U64Assumption DEF TypeOK, U64
<1>2. VotesYes(voters[sender]) \in Votes
  BY <1>1 DEF VotesYes, Votes
<1>3. ProposalDraft(sender, expires) \in Proposal
  BY <1>2 DEF ProposalDraft, Proposal, TypeOK, Config, Block, Expiration, Status
<1> QED
  BY <1>3, UpdateStatusType DEF NewProposal, ProposalDraft

----------------------------------------------------------------------------
\* Type correctness

(***************************************************************************)
(* Every transaction keeps the storage well typed: whatever the messages,  *)
(* the records the handlers and the queries load back have the shape they  *)
(* expect, and the ids 1 .. proposal_count all exist.                      *)
(***************************************************************************)
LEMMA InitTypeOK == Init => TypeOK
<1> SUFFICES ASSUME Init PROVE TypeOK
  OBVIOUS
<1>1. PICK msg \in InitMsgs :
          /\ TotalWeight(msg.voters) \in U64
          /\ config = [ threshold         |-> msg.threshold,
                        total_weight      |-> TotalWeight(msg.voters),
                        max_voting_period |-> msg.max_voting_period ]
          /\ voters_list = msg.voters
          /\ voters = VotersBucket(msg.voters)
  BY DEF Init
<1>2. /\ msg.voters \in Seq(Voter)
      /\ msg.threshold \in Threshold
      /\ msg.max_voting_period \in Duration
  BY MultisigAssumption DEF InitMsg
<1>3. config \in Config /\ voters_list \in Seq(Voter)
  BY <1>1, <1>2 DEF Config
<1>4. DOMAIN voters \subseteq Addr /\ voters \in [DOMAIN voters -> U64]
  BY <1>1, <1>2, VotersBucketType
<1>5. /\ block \in Block
      /\ proposal_count \in 0 .. MaxProposals
      /\ proposals \in [1 .. proposal_count -> Proposal]
      /\ DOMAIN ballots \subseteq (1 .. proposal_count) \X DOMAIN voters
      /\ ballots \in [DOMAIN ballots -> Ballot]
      /\ dispatched \in [1 .. proposal_count -> Nat]
  BY MultisigAssumption DEF Init, EmptyBucket
<1> QED
  BY <1>3, <1>4, <1>5 DEF TypeOK

LEMMA ProposeTypeOK ==
    ASSUME TypeOK, NEW sender \in Addr, NEW latest \in Latest,
           Propose(sender, latest)
    PROVE  TypeOK'
<1> DEFINE id == proposal_count + 1
           max_expires == After(config.max_voting_period, block)
           expires == ChosenExpiration(latest, max_expires)
           ballot == [weight |-> voters[sender], vote |-> "Yes"]
<1>1. /\ sender \in DOMAIN voters
      /\ AfterFits(config.max_voting_period, block)
      /\ latest # NoLatest => ~Incomparable(latest, max_expires)
      /\ proposal_count < MaxProposals
      /\ proposal_count' = id
      /\ proposals' = Put(proposals, id, NewProposal(sender, expires))
      /\ ballots' = Put(ballots, <<id, sender>>, ballot)
      /\ dispatched' = Put(dispatched, id, 0)
      /\ UNCHANGED <<block, config, voters, voters_list>>
  BY DEF Propose, CanPropose, NextProposalId, configured
<1>2. max_expires \in FiniteExpiration
  BY <1>1, AfterType DEF TypeOK, Config
<1>3. expires \in FiniteExpiration
  BY <1>1, <1>2, ChosenExpirationType
<1>4. NewProposal(sender, expires) \in Proposal
  BY <1>1, <1>3, NewProposalType
<1>5. /\ proposal_count' \in 0 .. MaxProposals
      /\ 1 .. proposal_count' = (1 .. proposal_count) \cup {id}
  BY <1>1, MultisigAssumption DEF TypeOK
<1>6. proposals' \in [1 .. proposal_count' -> Proposal]
  <2>1. proposals \in [DOMAIN proposals -> Proposal]
    BY DEF TypeOK
  <2>2. DOMAIN proposals \cup {id} = 1 .. proposal_count'
    BY <1>5 DEF TypeOK
  <2>3. Put(proposals, id, NewProposal(sender, expires))
          \in [DOMAIN proposals \cup {id} -> Proposal]
    BY <1>4, <2>1, PutType
  <2> QED
    BY <1>1, <2>2, <2>3
<1>7. dispatched' \in [1 .. proposal_count' -> Nat]
  <2>1. dispatched \in [DOMAIN dispatched -> Nat]
    BY DEF TypeOK
  <2>2. DOMAIN dispatched \cup {id} = 1 .. proposal_count'
    BY <1>5 DEF TypeOK
  <2>3. 0 \in Nat
    OBVIOUS
  <2>4. Put(dispatched, id, 0) \in [DOMAIN dispatched \cup {id} -> Nat]
    BY <2>1, <2>3, PutType
  <2> QED
    BY <1>1, <2>2, <2>4
<1>8. ballot \in Ballot
  BY <1>1 DEF TypeOK, Ballot, VoteOption
<1>9. /\ DOMAIN ballots' = DOMAIN ballots \cup {<<id, sender>>}
      /\ ballots' \in [DOMAIN ballots' -> Ballot]
  <2>1. ballots \in [DOMAIN ballots -> Ballot]
    BY DEF TypeOK
  <2>2. Put(ballots, <<id, sender>>, ballot)
          \in [DOMAIN ballots \cup {<<id, sender>>} -> Ballot]
    BY <1>8, <2>1, PutType
  <2>3. DOMAIN ballots' = DOMAIN ballots \cup {<<id, sender>>}
    BY <1>1, PutProperty
  <2> QED
    BY <1>1, <2>2, <2>3
<1>10. DOMAIN ballots' \subseteq (1 .. proposal_count') \X DOMAIN voters'
  BY <1>1, <1>5, <1>9 DEF TypeOK
<1> QED
  BY <1>1, <1>5, <1>6, <1>7, <1>9, <1>10 DEF TypeOK

\* Saving a proposal under an id it already has keeps the bucket typed.
LEMMA ResaveType ==
    ASSUME TypeOK, NEW id \in DOMAIN proposals, NEW p \in Proposal
    PROVE  Put(proposals, id, p) \in [1 .. proposal_count -> Proposal]
<1>1. DOMAIN proposals \cup {id} = 1 .. proposal_count
  BY DEF TypeOK
<1> QED
  BY <1>1, PutType DEF TypeOK

LEMMA VoteTypeOK ==
    ASSUME TypeOK, NEW sender \in Addr, NEW id, NEW vote \in VoteOption,
           Vote(sender, id, vote)
    PROVE  TypeOK'
<1> DEFINE ballot == [weight |-> voters[sender], vote |-> vote]
           voted == [proposals[id] EXCEPT
                        !.votes = AddVote(@, vote, voters[sender])]
<1>1. /\ sender \in DOMAIN voters
      /\ id \in DOMAIN proposals
      /\ ballots' = Put(ballots, <<id, sender>>, ballot)
      /\ proposals' = Put(proposals, id, UpdateStatus(voted, block))
      /\ UNCHANGED <<block, config, voters, voters_list, proposal_count,
                     dispatched>>
  BY DEF Vote, CanVote, MayVote, Tallied, configured
<1>2. voted \in Proposal
  <2>1. proposals[id] \in Proposal /\ voters[sender] \in U64
    BY <1>1 DEF TypeOK
  <2>2. AddVote(proposals[id].votes, vote, voters[sender]) \in Votes
    BY <2>1, AddVoteType DEF Proposal
  <2> QED
    BY <2>1, <2>2 DEF Proposal
<1>3. proposals' \in [1 .. proposal_count -> Proposal]
  BY <1>1, <1>2, UpdateStatusType, ResaveType
<1>4. ballot \in Ballot
  BY <1>1 DEF TypeOK, Ballot
<1>5. /\ DOMAIN ballots' = DOMAIN ballots \cup {<<id, sender>>}
      /\ ballots' \in [DOMAIN ballots' -> Ballot]
  <2>1. ballots \in [DOMAIN ballots -> Ballot]
    BY DEF TypeOK
  <2>2. Put(ballots, <<id, sender>>, ballot)
          \in [DOMAIN ballots \cup {<<id, sender>>} -> Ballot]
    BY <1>4, <2>1, PutType
  <2>3. DOMAIN ballots' = DOMAIN ballots \cup {<<id, sender>>}
    BY <1>1, PutProperty
  <2> QED
    BY <1>1, <2>2, <2>3
<1>6. DOMAIN ballots' \subseteq (1 .. proposal_count) \X DOMAIN voters
  <2>1. DOMAIN ballots \subseteq (1 .. proposal_count) \X DOMAIN voters
    BY DEF TypeOK
  <2>2. id \in 1 .. proposal_count
    BY <1>1 DEF TypeOK
  <2> QED
    BY <1>1, <1>5, <2>1, <2>2
<1> QED
  BY <1>1, <1>3, <1>5, <1>6 DEF TypeOK

LEMMA ExecuteTypeOK ==
    ASSUME TypeOK, NEW id, Execute(id)
    PROVE  TypeOK'
<1>1. /\ id \in DOMAIN proposals
      /\ proposals' = Put(proposals, id,
                          [proposals[id] EXCEPT !.status = "Executed"])
      /\ dispatched' = Put(dispatched, id, dispatched[id] + 1)
      /\ UNCHANGED <<block, config, voters, voters_list, proposal_count,
                     ballots>>
  BY DEF Execute, CanExecute, Executed, configured
<1>2. proposals' \in [1 .. proposal_count -> Proposal]
  <2>1. proposals[id] \in Proposal
    BY <1>1 DEF TypeOK
  <2>2. [proposals[id] EXCEPT !.status = "Executed"] \in Proposal
    BY <2>1 DEF Proposal, Status
  <2> QED
    BY <1>1, <2>2, ResaveType
<1>3. dispatched' \in [1 .. proposal_count -> Nat]
  <2>1. id \in 1 .. proposal_count /\ dispatched[id] + 1 \in Nat
    BY <1>1 DEF TypeOK
  <2>2. DOMAIN dispatched \cup {id} = 1 .. proposal_count
    BY <2>1 DEF TypeOK
  <2> QED
    BY <1>1, <2>1, <2>2, PutType DEF TypeOK
<1> QED
  BY <1>1, <1>2, <1>3 DEF TypeOK

LEMMA CloseTypeOK ==
    ASSUME TypeOK, NEW id, Close(id)
    PROVE  TypeOK'
<1>1. /\ id \in DOMAIN proposals
      /\ proposals' = Put(proposals, id,
                          [proposals[id] EXCEPT !.status = "Rejected"])
      /\ UNCHANGED <<block, config, voters, voters_list, proposal_count,
                     ballots, dispatched>>
  BY DEF Close, CanClose, configured
<1>2. proposals[id] \in Proposal
  BY <1>1 DEF TypeOK
<1>3. [proposals[id] EXCEPT !.status = "Rejected"] \in Proposal
  BY <1>2 DEF Proposal, Status
<1>4. proposals' \in [1 .. proposal_count -> Proposal]
  BY <1>1, <1>3, ResaveType
<1> QED
  BY <1>1, <1>4 DEF TypeOK

LEMMA NewBlockTypeOK ==
    ASSUME TypeOK, NEW dt \in TimeSteps, NewBlock(dt)
    PROVE  TypeOK'
BY DEF TypeOK, NewBlock, Block, configured

THEOREM TypeCorrect == Spec => []TypeOK
<1>1. TypeOK /\ [Next]_vars => TypeOK'
  <2> SUFFICES ASSUME TypeOK, [Next]_vars PROVE TypeOK'
    OBVIOUS
  <2>1. ASSUME NEW sender \in Addr, NEW latest \in Latest,
               Propose(sender, latest)
        PROVE  TypeOK'
    BY <2>1, ProposeTypeOK
  <2>2. ASSUME NEW sender \in Addr, NEW id \in 1 .. MaxProposals,
               NEW vote \in VoteOption, Vote(sender, id, vote)
        PROVE  TypeOK'
    BY <2>2, VoteTypeOK
  <2>3. ASSUME NEW id \in 1 .. MaxProposals, Execute(id) PROVE TypeOK'
    BY <2>3, ExecuteTypeOK
  <2>4. ASSUME NEW id \in 1 .. MaxProposals, Close(id) PROVE TypeOK'
    BY <2>4, CloseTypeOK
  <2>5. ASSUME NEW dt \in TimeSteps, NewBlock(dt) PROVE TypeOK'
    BY <2>5, NewBlockTypeOK
  <2>6. CASE UNCHANGED vars
    BY <2>6 DEF TypeOK, vars, configured
  <2> QED
    BY <2>1, <2>2, <2>3, <2>4, <2>5, <2>6 DEF Next
<1> QED
  BY <1>1, InitTypeOK, PTL DEF Spec
=============================================================================
