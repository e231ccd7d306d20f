----------------------------- MODULE KOfNProofs -----------------------------
(***************************************************************************)
(* Multisig with AbsoluteCount thresholds implements KOfN, for every value *)
(* of its constants.                                                       *)
(***************************************************************************)
EXTENDS VerdictProofs, MultisigKOfN

\* The contracts meant: each needs a fixed weight.
CountContracts == \A msg \in InitMsgs : msg.threshold.kind = "AbsoluteCount"

CountThreshold ==
    /\ config.threshold.kind = "AbsoluteCount"
    /\ config.threshold.weight \in U64 \ {0}

(***************************************************************************)
(* What ties the stored status to the weight behind a proposal: it is or   *)
(* was approved exactly when its Yes tally reaches the threshold.          *)
(***************************************************************************)
ApprovedByCount ==
    \A id \in DOMAIN proposals :
        (proposals[id].status \in {"Passed", "Executed"})
            <=> (proposals[id].votes["Yes"] >= config.threshold.weight)

----------------------------------------------------------------------------
\* The invariants of the detailed contract that the steps rest on

LEMMA InitCountThreshold ==
    ASSUME CountContracts, Init
    PROVE  CountThreshold
<1>1. PICK msg \in InitMsgs :
          /\ Validate(msg.threshold, TotalWeight(msg.voters))
          /\ config.threshold = msg.threshold
  BY DEF Init
<1>2. msg.threshold \in Threshold /\ msg.threshold.kind = "AbsoluteCount"
  BY MultisigAssumption DEF InitMsg, CountContracts
<1>3. msg.threshold.weight \in U64
  BY <1>2 DEF Threshold
<1> QED
  BY <1>1, <1>2, <1>3 DEF Validate, CountThreshold

LEMMA NextCountThreshold ==
    ASSUME CountThreshold, [Next]_vars
    PROVE  CountThreshold'
<1>1. config' = config
  BY DEF Next, vars, Propose, Vote, Execute, Close, NewBlock, configured
<1> QED
  BY <1>1 DEF CountThreshold

LEMMA ApprovedByCountHolds ==
    ASSUME TypeOK, TallyInv, CountThreshold, PassIsSure, NotPassedMissesRule
    PROVE  ApprovedByCount
<1> SUFFICES ASSUME NEW id \in DOMAIN proposals
             PROVE  (proposals[id].status \in {"Passed", "Executed"})
                       <=> (proposals[id].votes["Yes"]
                              >= config.threshold.weight)
  BY DEF ApprovedByCount
<1>1. /\ proposals[id] \in Proposal
      /\ proposals[id].threshold = config.threshold
      /\ TotalVotes(proposals[id].votes) <= proposals[id].total_weight
  BY TallyInvBounds DEF TypeOK, TallyInv, TermsOfConfig,
                        TallyWithinTotalWeight
<1>2. MeetsRule(proposals[id])
        <=> proposals[id].votes["Yes"] >= config.threshold.weight
  BY <1>1 DEF MeetsRule, CountThreshold
<1>3. proposals[id] \in FinalTallies(proposals[id], block)
  BY <1>1, FinalTallyNow
<1>4. proposals[id].status \in {"Passed", "Executed"}
        => MeetsRule(proposals[id])
  BY <1>3 DEF PassIsSure
<1>5. proposals[id].status \notin {"Passed", "Executed"}
        => ~MeetsRule(proposals[id])
  BY <1>1 DEF NotPassedMissesRule, CountThreshold
<1> QED
  BY <1>2, <1>4, <1>5

KInv == TypeOK /\ TallyInv /\ CountThreshold /\ ApprovedByCount

LEMMA KInvHolds ==
    ASSUME CountContracts
    PROVE  Spec => []KInv
<1>1. ExactPercentages
  BY DEF CountContracts, ExactPercentages, NoExcessDigitsIn
<1>2. Spec => []PassIsSure
  BY <1>1, EarlyPassesAreSure
<1>3. Spec => []TypeOK
  BY TypeCorrect
<1>4. Spec => []TallyWithinTotalWeight
  BY TallyNeverExceedsTotal
<1>5. Init => CountThreshold /\ NotPassedMissesRule /\ TallyInv
  BY InitCountThreshold, InitTallyInv DEF Init, EmptyBucket,
                                          NotPassedMissesRule
<1>6. CountThreshold /\ [Next]_vars => CountThreshold'
  BY NextCountThreshold
<1>7. TypeOK /\ TallyInv /\ CountThreshold /\ PassIsSure
        /\ NotPassedMissesRule => KInv
  BY ApprovedByCountHolds DEF KInv
<1> QED
  BY <1>2, <1>3, <1>4, <1>5, <1>6, <1>7, NextTallyInv,
     NextNotPassedMissesRule, PTL DEF Spec

----------------------------------------------------------------------------
\* Initial states map to initial states

LEMMA InitRefines ==
    ASSUME CountContracts, Init
    PROVE  Abstract!KInit
<1>1. /\ DOMAIN voters \subseteq Addr
      /\ voters \in [DOMAIN voters -> U64]
  BY InitTypeOK DEF TypeOK
<1>2. config.threshold.weight \in U64 \ {0}
  BY InitCountThreshold DEF CountThreshold
<1>3. DOMAIN proposals = {}
  BY DEF Init, EmptyBucket
<1> QED
  BY <1>1, <1>2, <1>3 DEF Abstract!KInit, Abstract!U64, U64

----------------------------------------------------------------------------
\* Every step maps to a step or a stutter

\* What Record asks for, in terms of the contract's storage.
LEMMA RecordHolds ==
    ASSUME NEW id, NEW S, NEW st,
           DOMAIN proposals' = DOMAIN proposals \cup {id},
           \A i \in DOMAIN proposals \ {id} :
               /\ VotersFor(i, "Yes")' = VotersFor(i, "Yes")
               /\ proposals'[i].status = proposals[i].status,
           VotersFor(id, "Yes")' = S,
           StageOf(proposals'[id].status) = st,
           UNCHANGED <<voters, config>>
    PROVE  Abstract!Record(id, S, st)
<1>1. [i \in DOMAIN proposals' |-> VotersFor(i, "Yes")']
        = [i \in DOMAIN proposals \cup {id} |->
              IF i = id THEN S
              ELSE [j \in DOMAIN proposals |-> VotersFor(j, "Yes")][i]]
  OBVIOUS
<1>2. [i \in DOMAIN proposals' |-> StageOf(proposals'[i].status)]
        = [i \in DOMAIN proposals \cup {id} |->
              IF i = id THEN st
              ELSE [j \in DOMAIN proposals |->
                       StageOf(proposals[j].status)][i]]
  OBVIOUS
<1> QED
  BY <1>1, <1>2 DEF Abstract!Record

\* Sums of weights mean the same on both levels.
LEMMA AbstractWeightSum ==
    ASSUME NEW w, NEW S
    PROVE  Abstract!WeightSum(w, S) = WeightSum(w, S)
<1>1. Abstract!Units(w, S) = Units(w, S)
  BY DEF Abstract!Units, Units
<1>2. \A T : Abstract!Cardinality(T) = Cardinality(T)
  BY Zenon DEF Abstract!Cardinality, Cardinality
<1> QED
  BY <1>1, <1>2 DEF Abstract!WeightSum, WeightSum

\* Enough weight approved, says the abstract multisig, exactly when the
\* contract stores that the proposal passed.
LEMMA EnoughMeansPassed ==
    ASSUME KInv', NEW id \in DOMAIN proposals', UNCHANGED <<voters, config>>
    PROVE  Abstract!Enough(VotersFor(id, "Yes")')
              <=> proposals'[id].status \in {"Passed", "Executed"}
<1>1. proposals'[id].votes["Yes"] = WeightSum(voters, VotersFor(id, "Yes")')
  BY DEF KInv, TallyInv, TallyMatchesBallots, VoteOption
<1>2. (proposals'[id].status \in {"Passed", "Executed"})
         <=> (proposals'[id].votes["Yes"] >= config.threshold.weight)
  BY DEF KInv, ApprovedByCount
<1> QED
  BY <1>1, <1>2, AbstractWeightSum DEF Abstract!Enough

\* The outcome of a vote is one the abstract multisig allows.
LEMMA OutcomeAllowed ==
    ASSUME KInv', NEW id \in DOMAIN proposals', UNCHANGED <<voters, config>>,
           proposals'[id].status \in {"Open", "Passed", "Rejected"}
    PROVE  StageOf(proposals'[id].status)
              \in Abstract!Outcome(VotersFor(id, "Yes")')
<1>1. Abstract!Enough(VotersFor(id, "Yes")') <=> proposals'[id].status = "Passed"
  BY EnoughMeansPassed
<1> QED
  BY <1>1 DEF Abstract!Outcome, StageOf

LEMMA ProposeRefines ==
    ASSUME KInv, KInv', NEW sender \in Addr, NEW latest \in Latest,
           Propose(sender, latest)
    PROVE  Abstract!KNext
<1>1. /\ proposal_count + 1 \in 1 .. MaxProposals
      /\ UNCHANGED <<config, voters>>
  <2>1. UNCHANGED <<config, voters>>
    BY ProposeEffect DEF KInv
  <2>2. proposal_count < MaxProposals
    BY DEF Propose
  <2>3. proposal_count \in 0 .. MaxProposals
    BY DEF KInv, TypeOK
  <2> QED
    BY <2>1, <2>2, <2>3, MultisigAssumption
<1>2. PICK id \in 1 .. MaxProposals :
          /\ id \notin DOMAIN proposals
          /\ DOMAIN proposals' = DOMAIN proposals \cup {id}
          /\ \A i \in DOMAIN proposals : proposals'[i] = proposals[i]
          /\ proposals'[id].status \in {"Open", "Passed", "Rejected"}
          /\ sender \in DOMAIN voters
          /\ \A a \in DOMAIN voters : <<id, a>> \notin DOMAIN ballots
          /\ DOMAIN ballots' = DOMAIN ballots \cup {<<id, sender>>}
          /\ ballots'[<<id, sender>>]
                = [weight |-> voters[sender], vote |-> "Yes"]
          /\ \A key \in DOMAIN ballots : ballots'[key] = ballots[key]
  BY <1>1, ProposeEffect DEF KInv
<1>3. VotersFor(id, "Yes")' = {sender}
  BY <1>1, <1>2 DEF VotersFor
<1>4. ASSUME NEW i \in DOMAIN proposals \ {id}
      PROVE  /\ VotersFor(i, "Yes")' = VotersFor(i, "Yes")
             /\ proposals'[i].status = proposals[i].status
  BY <1>1, <1>2 DEF VotersFor
<1>5. Abstract!Record(id, {sender}, StageOf(proposals'[id].status))
  BY <1>1, <1>2, <1>3, <1>4, RecordHolds
<1>6. StageOf(proposals'[id].status) \in Abstract!Outcome({sender})
  BY <1>1, <1>2, <1>3, OutcomeAllowed
<1>7. Abstract!Create(id, sender)
  BY <1>2, <1>5, <1>6 DEF Abstract!Create
<1> QED
  BY <1>7 DEF Abstract!KNext

LEMMA VoteRefines ==
    ASSUME KInv, KInv', NEW sender \in Addr, NEW id \in 1 .. MaxProposals,
           NEW vote \in VoteOption, Vote(sender, id, vote)
    PROVE  [Abstract!KNext]_(Abstract!kvars)
<1>1. /\ id \in DOMAIN proposals
      /\ sender \in DOMAIN voters
      /\ proposals[id].status = "Open"
      /\ DOMAIN proposals' = DOMAIN proposals
      /\ \A i \in DOMAIN proposals \ {id} : proposals'[i] = proposals[i]
      /\ proposals'[id].status \in {"Open", "Passed", "Rejected"}
      /\ proposals'[id].votes
            = AddVote(proposals[id].votes, vote, voters[sender])
      /\ <<id, sender>> \notin DOMAIN ballots
      /\ DOMAIN ballots' = DOMAIN ballots \cup {<<id, sender>>}
      /\ ballots'[<<id, sender>>] = [weight |-> voters[sender], vote |-> vote]
      /\ \A key \in DOMAIN ballots : ballots'[key] = ballots[key]
      /\ UNCHANGED <<config, voters>>
  BY VoteEffect DEF KInv
<1>2. ASSUME NEW i \in DOMAIN proposals \ {id}
      PROVE  /\ VotersFor(i, "Yes")' = VotersFor(i, "Yes")
             /\ proposals'[i].status = proposals[i].status
  BY <1>1 DEF VotersFor
<1>3. DOMAIN proposals' = DOMAIN proposals \cup {id}
  BY <1>1
<1>4. StageOf(proposals[id].status) = "voting"
  BY <1>1 DEF StageOf
<1>5. CASE vote = "Yes"
  <2>1. VotersFor(id, "Yes")' = VotersFor(id, "Yes") \cup {sender}
    BY <1>1, <1>5 DEF VotersFor
  <2>2. Abstract!Record(id, VotersFor(id, "Yes") \cup {sender},
                        StageOf(proposals'[id].status))
    BY <1>1, <1>2, <1>3, <2>1, RecordHolds
  <2>3. StageOf(proposals'[id].status)
          \in Abstract!Outcome(VotersFor(id, "Yes") \cup {sender})
    BY <1>1, <2>1, OutcomeAllowed
  <2>4. sender \notin VotersFor(id, "Yes")
    BY <1>1 DEF VotersFor
  <2>5. Abstract!Approve(id, sender)
    BY <1>1, <1>4, <2>2, <2>3, <2>4 DEF Abstract!Approve
  <2> QED
    BY <2>5 DEF Abstract!KNext
<1>6. CASE vote # "Yes"
  <2>1. VotersFor(id, "Yes")' = VotersFor(id, "Yes")
    BY <1>1, <1>6 DEF VotersFor
  <2>2. Abstract!Record(id, VotersFor(id, "Yes"),
                        StageOf(proposals'[id].status))
    BY <1>1, <1>2, <1>3, <2>1, RecordHolds
  <2>3. proposals'[id].votes["Yes"] = proposals[id].votes["Yes"]
    <3>1. proposals[id].votes \in Votes /\ voters[sender] \in U64
      BY <1>1 DEF KInv, TypeOK, Proposal
    <3>2. "Yes" \in VoteOption \ {vote}
      BY <1>6 DEF VoteOption
    <3>3. AddVote(proposals[id].votes, vote, voters[sender])["Yes"]
            = proposals[id].votes["Yes"]
      BY <3>1, <3>2, AddVoteType
    <3> QED
      BY <1>1, <3>3
  <2>4. proposals'[id].status # "Passed"
    BY <1>1, <2>3 DEF KInv, ApprovedByCount
  <2>5. CASE proposals'[id].status = "Rejected"
    <3>1. StageOf(proposals'[id].status) = "dropped"
      BY <2>5 DEF StageOf
    <3>2. Abstract!Drop(id)
      BY <1>1, <1>4, <2>2, <3>1 DEF Abstract!Drop
    <3> QED
      BY <3>2 DEF Abstract!KNext
  <2>6. CASE proposals'[id].status = "Open"
    <3>1. \A i \in DOMAIN proposals :
              /\ VotersFor(i, "Yes")' = VotersFor(i, "Yes")
              /\ proposals'[i].status = proposals[i].status
      BY <1>1, <1>2, <2>1, <2>6
    <3> QED
      BY <1>1, <3>1 DEF Abstract!kvars
  <2> QED
    BY <1>1, <2>4, <2>5, <2>6
<1> QED
  BY <1>5, <1>6

\* Another status, and nothing else the abstract multisig knows of.
LEMMA RestatusRefines ==
    ASSUME TypeOK, NEW id \in DOMAIN proposals, NEW st,
           proposals' = Put(proposals, id, [proposals[id] EXCEPT !.status = st]),
           UNCHANGED <<config, voters, ballots>>
    PROVE  Abstract!Record(id, VotersFor(id, "Yes"), StageOf(st))
<1>1. /\ DOMAIN proposals' = DOMAIN proposals
      /\ \A i \in DOMAIN proposals \ {id} : proposals'[i] = proposals[i]
      /\ proposals'[id].status = st
  BY RestatusEffect
<1>2. \A i : VotersFor(i, "Yes")' = VotersFor(i, "Yes")
  BY DEF VotersFor
<1>3. DOMAIN proposals' = DOMAIN proposals \cup {id}
  BY <1>1
<1> QED
  BY <1>1, <1>2, <1>3, RecordHolds

LEMMA ExecuteRefines ==
    ASSUME KInv, NEW id \in 1 .. MaxProposals, Execute(id)
    PROVE  Abstract!KNext
<1>1. /\ id \in DOMAIN proposals
      /\ proposals[id].status = "Passed"
      /\ proposals' = Put(proposals, id,
                          [proposals[id] EXCEPT !.status = "Executed"])
      /\ UNCHANGED <<config, voters, ballots>>
  BY ExecuteEffect DEF KInv
<1>2. Abstract!Record(id, VotersFor(id, "Yes"), StageOf("Executed"))
  BY <1>1, RestatusRefines DEF KInv
<1>3. /\ StageOf(proposals[id].status) = "approved"
      /\ StageOf("Executed") = "done"
  BY <1>1 DEF StageOf
<1>4. Abstract!Run(id)
  BY <1>1, <1>2, <1>3 DEF Abstract!Run
<1> QED
  BY <1>4 DEF Abstract!KNext

LEMMA CloseRefines ==
    ASSUME KInv, NEW id \in 1 .. MaxProposals, Close(id)
    PROVE  [Abstract!KNext]_(Abstract!kvars)
<1>1. /\ id \in DOMAIN proposals
      /\ proposals[id].status \notin {"Executed", "Rejected", "Passed"}
      /\ proposals' = Put(proposals, id,
                          [proposals[id] EXCEPT !.status = "Rejected"])
      /\ UNCHANGED <<config, voters, ballots>>
  BY CloseEffect DEF KInv
<1>2. Abstract!Record(id, VotersFor(id, "Yes"), StageOf("Rejected"))
  BY <1>1, RestatusRefines DEF KInv
<1>3. StageOf("Rejected") = "dropped"
  BY DEF StageOf
<1>4. CASE proposals[id].status = "Open"
  <2>1. StageOf(proposals[id].status) = "voting"
    BY <1>4 DEF StageOf
  <2>2. Abstract!Drop(id)
    BY <1>1, <1>2, <1>3, <2>1 DEF Abstract!Drop
  <2> QED
    BY <2>2 DEF Abstract!KNext
\* A status nobody stores (Pending): dropped already.
<1>5. CASE proposals[id].status # "Open"
  <2>1. /\ DOMAIN proposals' = DOMAIN proposals
        /\ \A i \in DOMAIN proposals \ {id} : proposals'[i] = proposals[i]
        /\ proposals'[id].status = "Rejected"
    BY <1>1, RestatusEffect DEF KInv
  <2>2. StageOf(proposals[id].status) = "dropped"
    BY <1>1, <1>5 DEF StageOf
  <2>3. \A i \in DOMAIN proposals :
            /\ VotersFor(i, "Yes")' = VotersFor(i, "Yes")
            /\ StageOf(proposals'[i].status) = StageOf(proposals[i].status)
    BY <1>1, <1>3, <2>1, <2>2 DEF VotersFor
  <2> QED
    BY <1>1, <2>1, <2>3 DEF Abstract!kvars
<1> QED
  BY <1>4, <1>5

\* Blocks, and steps that change nothing, are stutters.
LEMMA OtherRefines ==
    ASSUME UNCHANGED <<config, voters, ballots, proposals>>
    PROVE  UNCHANGED Abstract!kvars
BY DEF Abstract!kvars, VotersFor

LEMMA NextRefines ==
    ASSUME KInv, KInv', [Next]_vars
    PROVE  [Abstract!KNext]_(Abstract!kvars)
<1>1. ASSUME NEW sender \in Addr, NEW latest \in Latest,
             Propose(sender, latest)
      PROVE  [Abstract!KNext]_(Abstract!kvars)
  BY <1>1, ProposeRefines
<1>2. ASSUME NEW sender \in Addr, NEW id \in 1 .. MaxProposals,
             NEW vote \in VoteOption, Vote(sender, id, vote)
      PROVE  [Abstract!KNext]_(Abstract!kvars)
  BY <1>2, VoteRefines
<1>3. ASSUME NEW id \in 1 .. MaxProposals, Execute(id)
      PROVE  [Abstract!KNext]_(Abstract!kvars)
  BY <1>3, ExecuteRefines
<1>4. ASSUME NEW id \in 1 .. MaxProposals, Close(id)
      PROVE  [Abstract!KNext]_(Abstract!kvars)
  BY <1>4, CloseRefines
<1>5. ASSUME NEW dt \in TimeSteps, NewBlock(dt)
      PROVE  [Abstract!KNext]_(Abstract!kvars)
  BY <1>5, OtherRefines DEF NewBlock, configured
<1>6. CASE UNCHANGED vars
  BY <1>6, OtherRefines DEF vars
<1> QED
  BY <1>1, <1>2, <1>3, <1>4, <1>5, <1>6 DEF Next

(***************************************************************************)
(* Whatever its members, weights, threshold and deadlines, a contract with *)
(* AbsoluteCount thresholds is a K of N multisig: a proposal is approved   *)
(* by distinct members of enough weight and in no other way, and then it   *)
(* runs at most once.                                                      *)
(***************************************************************************)
THEOREM CountContractsAreKOfN ==
    ASSUME CountContracts
    PROVE  Spec => ImplementsKOfN
<1>1. Spec => []KInv
  BY KInvHolds
<1>2. Init => Abstract!KInit
  BY InitRefines
<1>3. KInv /\ KInv' /\ [Next]_vars => [Abstract!KNext]_(Abstract!kvars)
  BY NextRefines
<1> QED
  BY <1>1, <1>2, <1>3, PTL DEF Spec, ImplementsKOfN, Abstract!KSpec
=============================================================================
