----------------------------- MODULE QueryProofs -----------------------------
(***************************************************************************)
(* What the queries answer, whatever the constants: the newest proposals   *)
(* can be listed backwards, the list of votes adds up to the tally, the    *)
(* answers are enough to decide a proposal, and pages reach so far and no  *)
(* further.                                                                *)
(***************************************************************************)
EXTENDS MultisigQueries, VerdictProofs

----------------------------------------------------------------------------
\* Pages of proposals

\* The error of a query is not an answer.
ErrorIsNoPage == \A S : QueryError \notin Seq(S)

\* A page is no longer than there are proposals.
LEMMA LimitType ==
    ASSUME TypeOK, NEW limit \in {NoArg} \cup Nat
    PROVE  Limit(limit) \in 0 .. proposal_count
<1>1. proposal_count \in Nat
  BY DEF TypeOK
<1>2. GivenOr(limit, DEFAULT_LIMIT) \in Nat
  BY QueryAssumption DEF GivenOr
<1>3. Smaller(GivenOr(limit, DEFAULT_LIMIT), MAX_LIMIT) \in Nat
  BY <1>2, QueryAssumption DEF Smaller
<1> QED
  BY <1>1, <1>3 DEF Limit, Smaller

\* From the newest proposal on, the loop counts through ids that exist.
LEMMA NewestPage ==
    ASSUME TypeOK, ErrorIsNoPage, NEW limit \in {NoArg} \cup Nat,
           NEW page, page = ReverseProposals(NoArg, limit)
    PROVE  /\ page # QueryError
           /\ DOMAIN page = 1 .. Limit(limit)
           /\ Len(page) = Limit(limit)
           /\ \A i \in DOMAIN page : page[i].id = proposal_count - i + 1
<1>1. /\ proposal_count \in Nat
      /\ DOMAIN proposals = 1 .. proposal_count
  BY DEF TypeOK
<1>2. PICK n \in 0 .. proposal_count : n = Limit(limit)
  BY LimitType
<1>3. Smaller(GivenOr(NoArg, proposal_count), proposal_count) = proposal_count
  BY DEF Smaller, GivenOr
<1> DEFINE ids == [i \in 1 .. n |-> proposal_count - i + 1]
<1>4. page = Loaded(ids)
  BY <1>2, <1>3 DEF ReverseProposals
<1>5. \A i \in 1 .. n : ids[i] \in DOMAIN proposals
  BY <1>1, <1>2
<1> DEFINE answers == {ProposalResponse(id) : id \in DOMAIN proposals}
<1>6. page = [i \in 1 .. n |-> ProposalResponse(proposal_count - i + 1)]
  BY <1>4, <1>5 DEF Loaded
<1>7. page \in [1 .. n -> answers]
  BY <1>5, <1>6
<1>8. \A i \in 1 .. n : page[i].id = proposal_count - i + 1
  BY <1>6 DEF ProposalResponse
<1> HIDE DEF answers, ids
<1>9. /\ page \in Seq(answers) /\ DOMAIN page = 1 .. n /\ Len(page) = n
  BY <1>1, <1>2, <1>7
<1> QED
  BY <1>2, <1>8, <1>9 DEF ErrorIsNoPage

(***************************************************************************)
(* Listing from the newest proposal backwards never fails and skips none,  *)
(* for any number of proposals, any DEFAULT_LIMIT and MAX_LIMIT and any    *)
(* limit asked for.                                                        *)
(***************************************************************************)
THEOREM NewestPagesLoad ==
    ASSUME ErrorIsNoPage
    PROVE  Spec => []NewestFirst
<1>1. ASSUME TypeOK PROVE NewestFirst
  <2> SUFFICES ASSUME NEW limit \in {NoArg} \cup 0 .. MaxProposals + 1,
                      NEW page,
                      page = Query(AskPage("ReverseProposals", NoArg, limit))
               PROVE  /\ page # QueryError
                      /\ Len(page) = Limit(limit)
                      /\ \A id \in DOMAIN proposals :
                            (\A i \in DOMAIN page : page[i].id # id) =>
                               (\A i \in DOMAIN page : page[i].id > id)
    BY DEF NewestFirst
  <2>1. page = ReverseProposals(NoArg, limit)
    BY DEF Query, AskPage
  <2>2. limit \in {NoArg} \cup Nat
    BY MultisigAssumption
  <2>3. /\ page # QueryError
        /\ DOMAIN page = 1 .. Limit(limit)
        /\ Len(page) = Limit(limit)
        /\ \A i \in DOMAIN page : page[i].id = proposal_count - i + 1
    BY <1>1, <2>1, <2>2, NewestPage
  <2>4. PICK n \in 0 .. proposal_count : n = Limit(limit)
    BY <1>1, <2>2, LimitType
  <2>5. ASSUME NEW id \in DOMAIN proposals,
               \A i \in DOMAIN page : page[i].id # id,
               NEW i \in DOMAIN page
        PROVE  page[i].id > id
    <3>1. proposal_count \in Nat /\ id \in 1 .. proposal_count
      BY <1>1 DEF TypeOK
    <3> DEFINE j == proposal_count - id + 1
    <3>2. j \notin 1 .. n
      <4>1. ASSUME j \in DOMAIN page PROVE FALSE
        <5>1. page[j].id = proposal_count - j + 1
          BY <2>3, <4>1
        <5>2. proposal_count - j + 1 = id
          BY <3>1
        <5> QED
          BY <2>5, <4>1, <5>1, <5>2
      <4> QED
        BY <2>3, <2>4, <4>1
    <3>3. id <= proposal_count - n
      BY <2>4, <3>1, <3>2
    <3> QED
      BY <2>3, <2>4, <3>1, <3>3
  <2> QED
    BY <2>3, <2>5
<1> QED
  BY <1>1, TypeCorrect, PTL

----------------------------------------------------------------------------
\* The list of votes

\* What an entry of the answer of list_votes for proposal id is.
Info(id) == [proposal_id : {id}, voter : Addr, vote : VoteOption, weight : U64]

\* A vote in a list adds its weight to its own side only.
LEMMA SideWeightAppend ==
    ASSUME NEW id, NEW votes \in Seq(Info(id)), NEW info \in Info(id),
           NEW vote \in VoteOption
    PROVE  SideWeight(Append(votes, info), vote)
              = SideWeight(votes, vote)
                   + (IF info.vote = vote THEN info.weight ELSE 0)
<1> DEFINE more == Append(votes, info)
           last == Len(votes) + 1
           w == [i \in DOMAIN votes |-> votes[i].weight]
           u == [i \in DOMAIN more |-> more[i].weight]
           I == {i \in DOMAIN votes : votes[i].vote = vote}
           J == {i \in DOMAIN more : more[i].vote = vote}
<1>1. /\ Len(votes) \in Nat /\ DOMAIN votes = 1 .. Len(votes)
      /\ DOMAIN more = 1 .. last
      /\ \A i \in 1 .. Len(votes) : more[i] = votes[i]
      /\ more[last] = info
  OBVIOUS
<1>2. last \notin I /\ IsFiniteSet(I)
  <2>1. IsFiniteSet(1 .. Len(votes))
    <3>1. 1 \in Int /\ Len(votes) \in Int
      BY <1>1
    <3> QED
      BY <3>1, FS_Interval
  <2>2. I \in SUBSET (1 .. Len(votes))
    BY <1>1
  <2>3. last \notin 1 .. Len(votes)
    BY <1>1
  <2> QED
    BY <2>1, <2>2, <2>3, FS_Subset
<1>3. \A i \in I : u[i] = w[i]
  BY <1>1
<1>4. WeightSum(u, I) = WeightSum(w, I) /\ WeightSum(w, I) \in Nat
  <2> HIDE DEF u, w, I
  <2> QED
    BY <1>2, <1>3, WeightSumAgree, UnitsFinite
<1>5. u[last] = info.weight /\ u[last] \in U64
  BY <1>1 DEF Info
<1>6. CASE info.vote = vote
  <2>1. J = I \cup {last}
    BY <1>1, <1>6
  <2>2. WeightSum(u, I \cup {last}) = WeightSum(u, I) + u[last]
    <3> HIDE DEF u, I, last
    <3> QED
      BY <1>2, <1>5, WeightSumAddKey
  <2> QED
    BY <1>4, <1>5, <1>6, <2>1, <2>2 DEF SideWeight
<1>7. CASE info.vote # vote
  <2>1. J = I
    BY <1>1, <1>7
  <2>2. /\ SideWeight(Append(votes, info), vote) = WeightSum(u, J)
        /\ SideWeight(votes, vote) = WeightSum(w, I)
    BY DEF SideWeight
  <2> HIDE DEF u, w, I, J
  <2> QED
    BY <1>4, <1>7, <2>1, <2>2
<1> QED
  BY <1>6, <1>7

\* An entry with a ballot that the loop comes to.
LEMMA PushVoteType ==
    ASSUME TypeOK, NEW id, NEW entry \in Voter, NEW votes \in Seq(Info(id))
    PROVE  PushVote(votes, id, entry) \in Seq(Info(id))
<1>1. CASE <<id, entry.addr>> \in DOMAIN ballots
  <2>1. VoteInfo(id, entry.addr, ballots[<<id, entry.addr>>].vote, entry.weight)
            \in Info(id)
    BY <1>1 DEF TypeOK, Ballot, Voter, VoteInfo, Info
  <2> QED
    BY <1>1, <2>1 DEF PushVote
<1> QED
  BY <1>1 DEF PushVote

\* The recursive function of ListVotes is what its definition says.
LEMMA ListVotesLoop ==
    ASSUME TypeOK, NEW id
    PROVE  \E f \in [0 .. Len(voters_list) -> Seq(Info(id))] :
              /\ f[0] = <<>>
              /\ \A n \in 1 .. Len(voters_list) :
                    f[n] = PushVote(f[n - 1], id, voters_list[n])
              /\ ListVotes(id) = f[Len(voters_list)]
<1> DEFINE L == Len(voters_list)
           S == Seq(Info(id))
           turn == [n \in Nat |-> [s \in S |->
                       IF n + 1 \in 1 .. L
                       THEN PushVote(s, id, voters_list[n + 1]) ELSE s]]
<1>1. L \in Nat /\ \A n \in 1 .. L : voters_list[n] \in Voter
  BY DEF TypeOK
<1>2. turn \in [Nat -> [S -> S]]
  <2> HIDE DEF S, L
  <2>1. ASSUME NEW n \in Nat, NEW s \in S, n + 1 \in 1 .. L
        PROVE  PushVote(s, id, voters_list[n + 1]) \in S
    BY <1>1, <2>1, PushVoteType DEF S
  <2> QED
    BY <2>1
<1>3. PICK step : step = turn
  OBVIOUS
<1>4. PICK g \in [Nat -> S] : g[0] = <<>> /\ Follows(g, step)
  <2>1. <<>> \in S
    OBVIOUS
  <2>2. step \in [Nat -> [S -> S]]
    BY <1>2, <1>3
  <2> HIDE DEF S
  <2> QED
    BY <2>1, <2>2, RecursionHasSolution
<1> DEFINE f == [n \in 0 .. L |-> g[n]]
<1>5. f = [n \in 0 .. L |->
             IF n = 0 THEN <<>> ELSE PushVote(f[n - 1], id, voters_list[n])]
  <2>1. ASSUME NEW n \in 1 .. L
        PROVE  f[n] = PushVote(f[n - 1], id, voters_list[n])
    <3>1. n - 1 \in Nat /\ n - 1 \in 0 .. L /\ n \in 0 .. L /\ (n - 1) + 1 = n
      BY <1>1
    <3>2. g[(n - 1) + 1] = step[n - 1][g[n - 1]]
      BY <1>4, <3>1 DEF Follows
    <3>3. g[n - 1] \in S
      BY <1>4, <3>1
    <3> HIDE DEF S, L
    <3>4. step[n - 1][g[n - 1]] = PushVote(g[n - 1], id, voters_list[n])
      BY <1>3, <3>1, <3>3
    <3> QED
      BY <3>1, <3>2, <3>4
  <2>2. f[0] = <<>>
    BY <1>1, <1>4
  <2>3. \A n \in 0 .. L : n = 0 \/ n \in 1 .. L
    BY <1>1
  <2>4. DOMAIN f = 0 .. L /\ f = [n \in 0 .. L |-> f[n]]
    OBVIOUS
  <2> HIDE DEF f, L
  <2> QED
    BY <2>1, <2>2, <2>3, <2>4
<1> DEFINE Loop(h) ==
              h = [n \in 0 .. L |->
                     IF n = 0 THEN <<>>
                     ELSE PushVote(h[n - 1], id, voters_list[n])]
           v == CHOOSE h : Loop(h)
<1>6. v = [n \in 0 .. L |->
             IF n = 0 THEN <<>> ELSE PushVote(v[n - 1], id, voters_list[n])]
  <2> HIDE DEF f
  <2>1. Loop(f)
    BY <1>5
  <2> HIDE DEF Loop
  <2>2. Loop(v)
    BY <2>1
  <2> QED
    BY <2>2, Zenon DEF Loop
<1>7. ListVotes(id) = v[L]
  BY DEF ListVotes
<1> HIDE DEF v
<1>8. /\ DOMAIN v = 0 .. L /\ v[0] = <<>>
      /\ \A n \in 1 .. L : v[n] = PushVote(v[n - 1], id, voters_list[n])
  <2>1. \A n \in 0 .. L : v[n] = IF n = 0 THEN <<>>
                                 ELSE PushVote(v[n - 1], id, voters_list[n])
    BY <1>6, Zenon
  <2>2. DOMAIN v = 0 .. L
    BY <1>6, Zenon
  <2>3. 0 \in 0 .. L /\ \A n \in 1 .. L : n \in 0 .. L /\ n # 0
    BY <1>1
  <2> QED
    BY <2>1, <2>2, <2>3
<1>9. \A n \in 0 .. L : v[n] \in S
  <2> DEFINE T == {n \in Nat : n \in 0 .. L => v[n] \in S}
  <2>1. 0 \in T
    <3>1. <<>> \in S
      OBVIOUS
    <3> HIDE DEF S
    <3> QED
      BY <1>8, <3>1
  <2>2. ASSUME NEW n \in Nat, n \in T PROVE n + 1 \in T
    <3> SUFFICES ASSUME n + 1 \in 0 .. L PROVE v[n + 1] \in S
      OBVIOUS
    <3>1. n \in 0 .. L /\ n + 1 \in 1 .. L /\ (n + 1) - 1 = n
      BY <1>1
    <3>2. v[n] \in S /\ v[n + 1] = PushVote(v[n], id, voters_list[n + 1])
      BY <1>8, <2>2, <3>1
    <3> QED
      BY <1>1, <3>1, <3>2, PushVoteType
  <2> HIDE DEF T
  <2>3. Nat \subseteq T
    BY <2>1, <2>2, NatSetInduction
  <2> QED
    BY <1>1, <2>3 DEF T
<1>10. v = [n \in 0 .. L |-> v[n]]
  BY <1>6, Zenon
<1>11. v \in [0 .. L -> S]
  BY <1>9, <1>10
<1> QED
  BY <1>7, <1>8, <1>11

----------------------------------------------------------------------------
\* The list of voters

\* Every list of voters the contract may be created with names an address once.
ListsNameOnce ==
    \A msg \in InitMsgs : \A i, j \in DOMAIN msg.voters :
        msg.voters[i].addr = msg.voters[j].addr => i = j

\* Without repetitions the list and the bucket say the same.
ListIsBucket ==
    /\ \A i, j \in DOMAIN voters_list :
          voters_list[i].addr = voters_list[j].addr => i = j
    /\ DOMAIN voters = {voters_list[i].addr : i \in DOMAIN voters_list}
    /\ \A i \in DOMAIN voters_list :
          voters[voters_list[i].addr] = voters_list[i].weight

LEMMA AlwaysListIsBucket ==
    ASSUME ListsNameOnce
    PROVE  Spec => []ListIsBucket
<1>1. ASSUME Init PROVE ListIsBucket
  <2>1. PICK msg \in InitMsgs : /\ voters_list = msg.voters
                                /\ voters = VotersBucket(msg.voters)
    BY <1>1 DEF Init
  <2> DEFINE list == msg.voters
  <2>2. list \in Seq(Voter)
    BY <2>1, MultisigAssumption DEF InitMsg
  <2>3. \A i, j \in DOMAIN list : list[i].addr = list[j].addr => i = j
    BY <2>1 DEF ListsNameOnce
  <2>4. ASSUME NEW i \in DOMAIN list
        PROVE  VotersBucket(list)[list[i].addr] = list[i].weight
    <3>1. /\ LastEntry(list, list[i].addr) \in DOMAIN list
          /\ list[LastEntry(list, list[i].addr)].addr = list[i].addr
      BY <2>2, LastEntryProperty
    <3>2. LastEntry(list, list[i].addr) = i
      BY <2>3, <3>1
    <3> QED
      BY <3>2 DEF VotersBucket
  <2>5. DOMAIN VotersBucket(list) = {list[i].addr : i \in DOMAIN list}
    BY DEF VotersBucket
  <2> QED
    BY <2>1, <2>3, <2>4, <2>5 DEF ListIsBucket
<1>2. ASSUME ListIsBucket, [Next]_vars PROVE ListIsBucket'
  <2>1. UNCHANGED <<voters, voters_list>>
    BY <1>2 DEF Next, Propose, Vote, Execute, Close, NewBlock, configured, vars
  <2> QED
    BY <1>2, <2>1 DEF ListIsBucket
<1> QED
  BY <1>1, <1>2, PTL DEF Spec

----------------------------------------------------------------------------
\* The answer of list_votes and the tally

\* Who of the first n entries of the list cast `vote'.
ListedVoters(n, id, vote) ==
    {a \in VotersFor(id, vote) :
        \E i \in DOMAIN voters_list : i <= n /\ voters_list[i].addr = a}

\* One turn of the loop takes the sum on by the weight of one voter.
LEMMA PushVoteSum ==
    ASSUME TypeOK, ListIsBucket, NEW id, NEW vote \in VoteOption,
           NEW votes \in Seq(Info(id)), NEW n \in Nat,
           n + 1 \in DOMAIN voters_list,
           SideWeight(votes, vote) = WeightSum(voters, ListedVoters(n, id, vote))
    PROVE  SideWeight(PushVote(votes, id, voters_list[n + 1]), vote)
              = WeightSum(voters, ListedVoters(n + 1, id, vote))
<1> DEFINE entry == voters_list[n + 1]
           addr == entry.addr
           info == VoteInfo(id, addr, ballots[<<id, addr>>].vote, entry.weight)
           A == ListedVoters(n, id, vote)
           B == ListedVoters(n + 1, id, vote)
<1>1. entry \in Voter /\ addr \in DOMAIN voters /\ voters[addr] = entry.weight
  BY DEF TypeOK, ListIsBucket
<1>2. \A i \in DOMAIN voters_list : i \in Nat
  BY DEF TypeOK
<1>3. addr \notin A
  <2>1. ASSUME NEW i \in DOMAIN voters_list, i <= n,
               voters_list[i].addr = addr
        PROVE  FALSE
    <3>1. i = n + 1
      BY <2>1 DEF ListIsBucket
    <3> QED
      BY <2>1, <3>1
  <2> QED
    BY <2>1 DEF ListedVoters
<1>4. \A i \in DOMAIN voters_list : i <= n + 1 <=> i <= n \/ i = n + 1
  BY <1>2
<1>5. addr \in VotersFor(id, vote)
         <=> <<id, addr>> \in DOMAIN ballots /\ info.vote = vote
  BY <1>1 DEF VotersFor, VoteInfo
<1>6. CASE addr \in VotersFor(id, vote)
  <2>1. B = A \cup {addr}
    BY <1>4, <1>6 DEF ListedVoters
  <2>2. IsFiniteSet(A)
    <3>1. A \in SUBSET VotersFor(id, vote)
      BY DEF ListedVoters
    <3> QED
      BY <3>1, VotersFinite, FS_Subset
  <2>3. voters[addr] \in U64
    BY <1>1 DEF Voter
  <2>4. WeightSum(voters, B) = WeightSum(voters, A) + voters[addr]
    <3> HIDE DEF A, B, addr
    <3> QED
      BY <1>3, <2>1, <2>2, <2>3, WeightSumAddKey
  <2>5. info \in Info(id)
    BY <1>1, <1>5, <1>6 DEF TypeOK, Ballot, Voter, VoteInfo, Info
  <2>6. PushVote(votes, id, entry) = Append(votes, info)
    BY <1>5, <1>6 DEF PushVote
  <2>7. info.vote = vote /\ info.weight = voters[addr]
    BY <1>1, <1>5, <1>6 DEF VoteInfo
  <2> HIDE DEF info, entry, addr, A, B
  <2>8. SideWeight(Append(votes, info), vote)
           = SideWeight(votes, vote) + info.weight
    BY <2>5, <2>7, SideWeightAppend
  <2> QED
    BY <2>4, <2>6, <2>7, <2>8 DEF entry, A, B
<1>7. CASE addr \notin VotersFor(id, vote)
  <2>1. B = A
    BY <1>4, <1>7 DEF ListedVoters
  <2>2. CASE <<id, addr>> \in DOMAIN ballots
    <3>1. info \in Info(id)
      BY <1>1, <2>2 DEF TypeOK, Ballot, Voter, VoteInfo, Info
    <3>2. PushVote(votes, id, entry) = Append(votes, info)
      BY <2>2 DEF PushVote
    <3>3. info.vote # vote
      BY <1>5, <1>7, <2>2
    <3>4. SideWeight(votes, vote) \in Nat
      <4>1. A \in SUBSET VotersFor(id, vote)
        BY DEF ListedVoters
      <4>2. IsFiniteSet(A)
        BY <4>1, VotersFinite, FS_Subset
      <4> QED
        BY <4>2, UnitsFinite
    <3> HIDE DEF info, entry, addr, A, B
    <3>5. SideWeight(Append(votes, info), vote) = SideWeight(votes, vote) + 0
      BY <3>1, <3>3, SideWeightAppend
    <3> QED
      BY <2>1, <3>2, <3>4, <3>5 DEF entry, A, B
  <2>3. CASE <<id, addr>> \notin DOMAIN ballots
    BY <2>1, <2>3 DEF PushVote
  <2> QED
    BY <2>2, <2>3
<1> QED
  BY <1>6, <1>7

\* What the answer of list_votes adds up to.
LEMMA ListedWeightIsVoters ==
    ASSUME TypeOK, ListIsBucket, NEW id, NEW vote \in VoteOption
    PROVE  ListedWeight(id, vote) = WeightSum(voters, VotersFor(id, vote))
<1>1. PICK f \in [0 .. Len(voters_list) -> Seq(Info(id))] :
         /\ f[0] = <<>>
         /\ \A n \in 1 .. Len(voters_list) :
               f[n] = PushVote(f[n - 1], id, voters_list[n])
         /\ ListVotes(id) = f[Len(voters_list)]
  BY ListVotesLoop
<1> DEFINE L == Len(voters_list)
           Adds(n) == SideWeight(f[n], vote)
                         = WeightSum(voters, ListedVoters(n, id, vote))
           T == {n \in Nat : n \in 0 .. L => Adds(n)}
<1>2. L \in Nat /\ DOMAIN voters_list = 1 .. L
  BY DEF TypeOK
<1>3. 0 \in T
  <2>1. ListedVoters(0, id, vote) = {}
    BY <1>2 DEF ListedVoters
  <2>2. {i \in DOMAIN <<>> : <<>>[i].vote = vote} = {}
    OBVIOUS
  <2> QED
    BY <1>1, <2>1, <2>2, WeightSumEmpty DEF SideWeight
<1>4. ASSUME NEW n \in Nat, n \in T PROVE n + 1 \in T
  <2> SUFFICES ASSUME n + 1 \in 0 .. L PROVE Adds(n + 1)
    OBVIOUS
  <2>1. n \in 0 .. L /\ n + 1 \in 1 .. L /\ (n + 1) - 1 = n
    BY <1>2
  <2>2. /\ f[n] \in Seq(Info(id))
        /\ f[n + 1] = PushVote(f[n], id, voters_list[n + 1])
    BY <1>1, <2>1
  <2> QED
    BY <1>2, <1>4, <2>1, <2>2, PushVoteSum
<1>5. Adds(L)
  <2> HIDE DEF T, Adds
  <2>1. L \in T
    BY <1>2, <1>3, <1>4, NatSetInduction
  <2> QED
    BY <1>2, <2>1 DEF T
<1>6. ListedVoters(L, id, vote) = VotersFor(id, vote)
  <2>1. \A a \in VotersFor(id, vote) :
           \E i \in DOMAIN voters_list : i <= L /\ voters_list[i].addr = a
    BY <1>2 DEF VotersFor, ListIsBucket
  <2> QED
    BY <2>1 DEF ListedVoters
<1>7. Query(AskVotes(id)) = ListVotes(id)
  BY DEF Query, AskVotes
<1> QED
  BY <1>1, <1>5, <1>6, <1>7 DEF ListedWeight

(***************************************************************************)
(* Whoever adds up the answer of list_votes gets the tally, on every side, *)
(* for any list of voters that names no address twice.  (The run           *)
(* repeated_voter shows what becomes of one that does.)                    *)
(***************************************************************************)
THEOREM VotesAddUpToTheTally ==
    ASSUME ListsNameOnce
    PROVE  Spec => []ListedVotesAreTheTally
<1>1. TypeOK /\ ListIsBucket /\ TallyMatchesBallots => ListedVotesAreTheTally
  BY ListedWeightIsVoters DEF TallyMatchesBallots, ListedVotesAreTheTally
<1> QED
  BY <1>1, TypeCorrect, AlwaysListIsBucket, TallyIsARecount, PTL

----------------------------------------------------------------------------
\* Deciding a proposal from the answers

\* No answer is taken for its absence or for an error.
AnswersAreAnswers ==
    /\ NoArg \notin U64
    /\ \A id, voter, vote, weight : VoteInfo(id, voter, vote, weight) # NoArg
    /\ \A id, status, expires, threshold :
          [ id |-> id, status |-> status,
            expires |-> expires, threshold |-> threshold ] # QueryError

\* A response names the rule and the numbers of the threshold it answers for.
LEMMA ResponseFields ==
    ASSUME NEW thr \in Threshold, NEW total, NEW r, r = ToResponse(thr, total)
    PROVE  /\ r.kind = thr.kind
           /\ r.total_weight = total
           /\ thr.kind = "AbsoluteCount" => r.weight = thr.weight
           /\ thr.kind = "AbsolutePercentage" => r.percentage = thr.percentage
           /\ thr.kind = "ThresholdQuorum" =>
                 r.threshold = thr.threshold /\ r.quorum = thr.quorum
<1>1. r = [f \in DOMAIN thr \cup {"total_weight"} |->
              IF f = "total_weight" THEN total ELSE thr[f]]
  BY DEF ToResponse, WithTotal
<1>2. r.total_weight = total
  BY <1>1
<1>3. \A f \in DOMAIN thr : f # "total_weight" => r[f] = thr[f]
  BY <1>1
<1>4. CASE thr \in [kind : {"AbsoluteCount"}, weight : U64]
  BY <1>2, <1>3, <1>4
<1>5. CASE thr \in [kind : {"AbsolutePercentage"}, percentage : Nat]
  BY <1>2, <1>3, <1>5
<1>6. CASE thr \in [kind : {"ThresholdQuorum"}, threshold : Nat, quorum : Nat]
  BY <1>2, <1>3, <1>6
<1> QED
  BY <1>4, <1>5, <1>6 DEF Threshold

\* p as its fields look in the answers.
LooksLike(q, p) ==
    /\ q.expires = p.expires
    /\ q.status = p.status
    /\ q.total_weight = p.total_weight
    /\ q.votes = p.votes
    /\ q.threshold = ToResponse(p.threshold, p.total_weight)

\* The rules read nothing that is lost in the answers.
LEMMA SameVerdict ==
    ASSUME NEW p, NEW q, NEW blk, p.threshold \in Threshold, LooksLike(q, p)
    PROVE  CurrentStatus(q, blk) = CurrentStatus(p, blk)
<1>1. /\ q.expires = p.expires
      /\ q.status = p.status
      /\ q.total_weight = p.total_weight
      /\ q.votes = p.votes
  BY DEF LooksLike
<1>2. /\ q.threshold.kind = p.threshold.kind
      /\ p.threshold.kind = "AbsoluteCount" =>
            q.threshold.weight = p.threshold.weight
      /\ p.threshold.kind = "AbsolutePercentage" =>
            q.threshold.percentage = p.threshold.percentage
      /\ p.threshold.kind = "ThresholdQuorum" =>
            /\ q.threshold.threshold = p.threshold.threshold
            /\ q.threshold.quorum = p.threshold.quorum
  BY ResponseFields DEF LooksLike
<1>3. /\ PossibleOpinions(q) = PossibleOpinions(p)
      /\ Opinions(q, blk) = Opinions(p, blk)
  BY <1>1 DEF PossibleOpinions, Opinions
<1>4. IsPassed(q, blk) <=> IsPassed(p, blk)
  BY <1>1, <1>2, <1>3 DEF IsPassed, QuorumMet
<1>5. IsRejected(q, blk) <=> IsRejected(p, blk)
  BY <1>1, <1>2, <1>3 DEF IsRejected
<1> QED
  BY <1>1, <1>4, <1>5 DEF CurrentStatus

\* The proposal a client puts together looks like the stored one.
LEMMA RebuiltLooksLike ==
    ASSUME TypeOK, ListIsBucket, TallyMatchesBallots,
           NEW id \in DOMAIN proposals
    PROVE  LooksLike(Rebuilt(id), proposals[id])
<1>1. Query(AskProposal(id)) = ProposalResponse(id)
  BY DEF Query, AskProposal, QueryProposal
<1>2. PICK p \in Proposal : p = proposals[id]
  BY DEF TypeOK
<1>3. /\ Query(AskProposal(id)).expires = p.expires
      /\ Query(AskProposal(id)).status = p.status
      /\ Query(AskProposal(id)).threshold
            = ToResponse(p.threshold, p.total_weight)
  BY <1>1, <1>2 DEF ProposalResponse
<1>4. p.threshold \in Threshold /\ p.votes \in [VoteOption -> Nat]
  BY DEF Proposal, Votes
<1>5. Query(AskProposal(id)).threshold.total_weight = p.total_weight
  BY <1>3, <1>4, ResponseFields
<1>6. [v \in VoteOption |-> ListedWeight(id, v)] = p.votes
  <2>1. \A v \in VoteOption : ListedWeight(id, v) = p.votes[v]
    BY <1>2, ListedWeightIsVoters DEF TallyMatchesBallots
  <2> QED
    BY <1>4, <2>1
<1> QED
  BY <1>2, <1>3, <1>5, <1>6 DEF Rebuilt, LooksLike

\* With the same vote added the two still look alike.
LEMMA VotedLooksLike ==
    ASSUME TypeOK, NEW id \in DOMAIN proposals,
           LooksLike(Rebuilt(id), proposals[id]), NEW vote, NEW weight
    PROVE  Tallied(Rebuilt(id), vote, weight).status
              = Tallied(proposals[id], vote, weight).status
<1>1. PICK p \in Proposal : p = proposals[id]
  BY DEF TypeOK
<1>2. PICK q : q = Rebuilt(id)
  OBVIOUS
<1> DEFINE added == AddVote(p.votes, vote, weight)
           pv == [p EXCEPT !.votes = added]
           qv == [q EXCEPT !.votes = AddVote(q.votes, vote, weight)]
<1>3. LooksLike(q, p) /\ q.votes = p.votes
  BY <1>1, <1>2 DEF LooksLike
<1>4. /\ pv.votes = added /\ pv.expires = p.expires /\ pv.status = p.status
      /\ pv.threshold = p.threshold /\ pv.total_weight = p.total_weight
      /\ "status" \in DOMAIN pv
  BY DEF Proposal
<1>5. DOMAIN q = {"expires", "status", "threshold", "total_weight", "votes"}
  BY <1>2 DEF Rebuilt
<1>6. /\ qv.votes = added /\ qv.expires = q.expires /\ qv.status = q.status
      /\ qv.threshold = q.threshold /\ qv.total_weight = q.total_weight
      /\ "status" \in DOMAIN qv
  BY <1>3, <1>5
<1>7. Tallied(p, vote, weight) = UpdateStatus(pv, block)
      /\ Tallied(q, vote, weight) = UpdateStatus(qv, block)
  BY DEF Tallied
<1> HIDE DEF pv, qv, added
<1>8. LooksLike(qv, pv) /\ pv.threshold \in Threshold
  BY <1>3, <1>4, <1>6 DEF LooksLike, Proposal
<1>9. PICK blk : blk = block
  OBVIOUS
<1>10. CurrentStatus(qv, blk) = CurrentStatus(pv, blk)
  BY <1>8, SameVerdict
<1>11. /\ UpdateStatus(pv, blk).status = CurrentStatus(pv, blk)
       /\ UpdateStatus(qv, blk).status = CurrentStatus(qv, blk)
  BY <1>4, <1>6 DEF UpdateStatus
<1> QED
  BY <1>1, <1>2, <1>7, <1>9, <1>10, <1>11

\* Who seems to be able to vote can, and the other way round.
LEMMA SeemingIsBeing ==
    ASSUME TypeOK, TallyInv, LightConfig, AnswersAreAnswers,
           NEW id \in DOMAIN proposals, NEW voter \in DOMAIN voters,
           NEW vote \in VoteOption
    PROVE  SeemsToVote(voter, id) <=> CanVote(voter, id, vote)
<1>1. /\ Query(AskProposal(id)) = ProposalResponse(id)
      /\ Query(AskVoter(voter)) = voters[voter]
      /\ Query(AskVote(id, voter)) = QueryVote(id, voter)
  BY DEF Query, AskProposal, AskVoter, AskVote, QueryProposal, QueryVoter
<1>2. PICK p \in Proposal : p = proposals[id]
  BY DEF TypeOK
<1>3. PICK w \in U64 : w = voters[voter]
  BY DEF TypeOK
<1>4. /\ ProposalResponse(id).status = p.status
      /\ ProposalResponse(id).expires = p.expires
      /\ ProposalResponse(id) # QueryError
  BY <1>2 DEF ProposalResponse, AnswersAreAnswers
<1>5. QueryVote(id, voter) = NoArg <=> <<id, voter>> \notin DOMAIN ballots
  BY DEF QueryVote, AnswersAreAnswers
<1>6. SeemsToVote(voter, id)
         <=> /\ w >= 1
             /\ p.status = "Open"
             /\ ~IsExpired(p.expires, block)
             /\ <<id, voter>> \notin DOMAIN ballots
  BY <1>1, <1>3, <1>4, <1>5 DEF SeemsToVote, AnswersAreAnswers
<1> DEFINE pv == [p EXCEPT !.votes = AddVote(p.votes, vote, w)]
<1>7. CanVote(voter, id, vote)
         <=> /\ w >= 1
             /\ p.status = "Open"
             /\ ~IsExpired(p.expires, block)
             /\ <<id, voter>> \notin DOMAIN ballots
             /\ StatusComputable(pv, block)
  BY <1>2, <1>3 DEF CanVote, MayVote, NotVotedYet
<1>8. ASSUME ~IsExpired(p.expires, block) PROVE StatusComputable(pv, block)
  <2>1. AddVote(p.votes, vote, w) \in Votes
    BY AddVoteType DEF Proposal
  <2>2. /\ pv.votes \in Votes /\ pv.threshold = p.threshold
        /\ pv.total_weight = p.total_weight /\ pv.expires = p.expires
    BY <2>1 DEF Proposal
  <2> HIDE DEF pv
  <2>3. /\ p.total_weight = config.total_weight
        /\ p.threshold = config.threshold
    BY <1>2 DEF TallyInv, TermsOfConfig
  <2>4. /\ p.total_weight \in Nat /\ p.threshold \in Threshold
        /\ PercentagesAtMostOne(p.threshold)
        /\ PRECISION_FACTOR * p.total_weight * DECIMAL_FRACTIONAL <= MaxU128
    BY <2>3, U64Assumption DEF Proposal, U64, LightConfig
  <2>5. PICK blk : blk = block
    OBVIOUS
  <2> QED
    BY <1>8, <2>2, <2>4, <2>5, LightStatusComputable
<1> HIDE DEF pv
<1> QED
  BY <1>6, <1>7, <1>8

(***************************************************************************)
(* The answers of the queries are enough to decide a proposal and to know  *)
(* who can vote on it, where no address is listed twice and the weights    *)
(* are so light that votes_needed cannot overflow: no query tells whether  *)
(* it does.                                                                *)
(***************************************************************************)
THEOREM ClientsKnowEnough ==
    ASSUME ListsNameOnce, LightWeights, AnswersAreAnswers
    PROVE  Spec => []ClientsCanDecide
<1>1. ASSUME TypeOK, TallyInv, LightConfig, ListIsBucket
      PROVE  ClientsCanDecide
  <2> SUFFICES ASSUME NEW id \in DOMAIN proposals
               PROVE  /\ CurrentStatus(Rebuilt(id), block)
                            = CurrentStatus(proposals[id], block)
                      /\ \A i \in DOMAIN Query(AskVoters), vote \in VoteOption :
                            LET voter  == Query(AskVoters)[i].addr
                                weight == Query(AskVoter(voter))
                                seen   == Rebuilt(id)
                            IN  /\ SeemsToVote(voter, id)
                                      <=> CanVote(voter, id, vote)
                                /\ SeemsToVote(voter, id) =>
                                      Tallied(seen, vote, weight).status
                                         = Tallied(proposals[id], vote,
                                                   voters[voter]).status
    BY DEF ClientsCanDecide
  <2>1. LooksLike(Rebuilt(id), proposals[id])
    BY <1>1, RebuiltLooksLike DEF TallyInv
  <2>2. CurrentStatus(Rebuilt(id), block) = CurrentStatus(proposals[id], block)
    <3>1. proposals[id].threshold \in Threshold
      BY <1>1 DEF TypeOK, Proposal
    <3>2. PICK p : p = proposals[id]
      OBVIOUS
    <3>3. PICK q : q = Rebuilt(id)
      OBVIOUS
    <3>4. PICK blk : blk = block
      OBVIOUS
    <3>5. CurrentStatus(q, blk) = CurrentStatus(p, blk)
      BY <2>1, <3>1, <3>2, <3>3, SameVerdict
    <3> QED
      BY <3>2, <3>3, <3>4, <3>5
  <2>3. ASSUME NEW i \in DOMAIN Query(AskVoters), NEW vote \in VoteOption,
               NEW voter, voter = Query(AskVoters)[i].addr
        PROVE  /\ SeemsToVote(voter, id) <=> CanVote(voter, id, vote)
               /\ Tallied(Rebuilt(id), vote, Query(AskVoter(voter))).status
                     = Tallied(proposals[id], vote, voters[voter]).status
    <3>1. Query(AskVoters) = voters_list
      BY DEF Query, AskVoters, ListVoters
    <3>2. voter \in DOMAIN voters
      BY <1>1, <2>3, <3>1 DEF ListIsBucket
    <3>3. Query(AskVoter(voter)) = voters[voter]
      BY <3>2 DEF Query, AskVoter, QueryVoter
    <3>4. SeemsToVote(voter, id) <=> CanVote(voter, id, vote)
      BY <1>1, <3>2, SeemingIsBeing
    <3>5. PICK w : w = voters[voter]
      OBVIOUS
    <3>6. Tallied(Rebuilt(id), vote, w).status
             = Tallied(proposals[id], vote, w).status
      BY <1>1, <2>1, VotedLooksLike
    <3> QED
      BY <3>3, <3>4, <3>5, <3>6
  <2> QED
    BY <2>2, <2>3
<1> QED
  BY <1>1, TypeCorrect, InitTallyInv, NextTallyInv, AlwaysLightConfig,
     AlwaysListIsBucket, PTL DEF Spec

----------------------------------------------------------------------------
\* How far pages reach

\* None is no number: an argument that is given is not taken for a missing one.
NoneIsNoNumber == NoArg \notin Nat

\* A listing that loads is a page, and one that does not is an error.
LEMMA LoadedPage ==
    ASSUME ErrorIsNoPage, NEW n \in Nat, NEW ids, ids \in [1 .. n -> Int]
    PROVE  /\ Loaded(ids) # QueryError
                 <=> \A i \in 1 .. n : ids[i] \in DOMAIN proposals
           /\ Loaded(ids) # QueryError =>
                 /\ DOMAIN Loaded(ids) = 1 .. n
                 /\ \A i \in 1 .. n : Loaded(ids)[i].id = ids[i]
<1>1. CASE \A i \in 1 .. n : ids[i] \in DOMAIN proposals
  <2> DEFINE answers == {ProposalResponse(id) : id \in DOMAIN proposals}
  <2>1. Loaded(ids) = [i \in 1 .. n |-> ProposalResponse(ids[i])]
    BY <1>1 DEF Loaded
  <2>2. Loaded(ids) \in [1 .. n -> answers]
    BY <1>1, <2>1
  <2>3. \A i \in 1 .. n : Loaded(ids)[i].id = ids[i]
    BY <2>1 DEF ProposalResponse
  <2> HIDE DEF answers
  <2>4. Loaded(ids) \in Seq(answers)
    BY <2>2
  <2> QED
    BY <1>1, <2>2, <2>3, <2>4 DEF ErrorIsNoPage
<1>2. CASE ~ \A i \in 1 .. n : ids[i] \in DOMAIN proposals
  BY <1>2 DEF Loaded
<1> QED
  BY <1>1, <1>2

LEMMA LimitAtMost ==
    ASSUME TypeOK, NEW limit \in {NoArg} \cup Nat
    PROVE  Limit(limit) <= MAX_LIMIT
<1>1. PICK n \in Nat : n = GivenOr(limit, DEFAULT_LIMIT)
  BY QueryAssumption DEF GivenOr
<1>2. proposal_count \in Nat /\ MAX_LIMIT \in Nat
  BY QueryAssumption DEF TypeOK
<1> QED
  BY <1>1, <1>2 DEF Limit, Smaller

\* The ids of a page that starts at `start': counted up to the limit.
LEMMA ForwardPage ==
    ASSUME TypeOK, ErrorIsNoPage,
           NEW start \in {NoArg} \cup DOMAIN proposals,
           NEW limit \in {NoArg} \cup Nat, NEW page,
           page = Query(AskPage("ListProposals", start, limit))
    PROVE  /\ page # QueryError
           /\ \A id \in Nat :
                 (\E i \in DOMAIN page : page[i].id = id)
                    <=> id \in GivenOr(start, 1) .. Limit(limit)
<1>1. /\ proposal_count \in Nat
      /\ DOMAIN proposals = 1 .. proposal_count
  BY DEF TypeOK
<1>2. PICK m \in 0 .. proposal_count : m = Limit(limit)
  BY LimitType
<1>3. PICK s \in Nat \ {0} : s = GivenOr(start, 1)
  BY <1>1 DEF GivenOr
<1>4. PICK ids : ids = [i \in 1 .. m + 1 - s |-> s + i - 1]
  OBVIOUS
<1>5. page = Loaded(ids)
  BY <1>2, <1>3, <1>4 DEF Query, AskPage, ListProposals
<1>6. \A i \in 1 .. m + 1 - s : ids[i] = s + i - 1
  BY <1>4
<1>7. \A i \in 1 .. m + 1 - s : ids[i] \in DOMAIN proposals
  BY <1>1, <1>6
<1>8. PICK n \in Nat : 1 .. n = 1 .. m + 1 - s
  <2>1. CASE m + 1 - s \in Nat
    BY <2>1
  <2>2. CASE m + 1 - s \notin Nat
    <3>1. 1 .. m + 1 - s = 1 .. 0
      BY <2>2
    <3> QED
      BY <3>1
  <2> QED
    BY <2>1, <2>2
<1>9. ids \in [1 .. n -> Int]
  BY <1>4, <1>8
<1>10. /\ page # QueryError
       /\ DOMAIN page = 1 .. m + 1 - s
       /\ \A i \in 1 .. m + 1 - s : page[i].id = s + i - 1
  <2>1. page # QueryError
    BY <1>5, <1>7, <1>8, <1>9, LoadedPage
  <2>2. DOMAIN page = 1 .. n /\ \A i \in 1 .. n : page[i].id = ids[i]
    BY <1>5, <1>9, <2>1, LoadedPage
  <2> QED
    BY <1>6, <1>8, <2>1, <2>2
<1>11. ASSUME NEW id \in Nat
       PROVE  (\E i \in DOMAIN page : page[i].id = id) <=> id \in s .. m
  <2>1. ASSUME NEW i \in DOMAIN page, page[i].id = id PROVE id \in s .. m
    BY <1>10, <2>1
  <2>2. ASSUME id \in s .. m PROVE \E i \in DOMAIN page : page[i].id = id
    <3>1. id - s + 1 \in 1 .. m + 1 - s
      BY <2>2
    <3>2. page[id - s + 1].id = s + (id - s + 1) - 1
      BY <1>10, <3>1
    <3> QED
      BY <1>10, <3>1, <3>2
  <2> QED
    BY <2>1, <2>2
<1> QED
  BY <1>2, <1>3, <1>10, <1>11

\* Every proposal is on some page as long as there are at most MAX_LIMIT.
LEMMA ListingReachesTheLimit ==
    ASSUME TypeOK, ErrorIsNoPage, NoneIsNoNumber
    PROVE  EveryProposalIsListed <=> proposal_count <= MAX_LIMIT
<1>1. /\ proposal_count \in 0 .. MaxProposals
      /\ MaxProposals \in Nat
      /\ DOMAIN proposals = 1 .. proposal_count
      /\ MAX_LIMIT \in Nat
  BY MultisigAssumption, QueryAssumption DEF TypeOK
<1>2. ASSUME proposal_count <= MAX_LIMIT, NEW id \in DOMAIN proposals
      PROVE  \E start \in {NoArg} \cup DOMAIN proposals,
                limit \in {NoArg} \cup 0 .. MaxProposals :
                   LET page == Query(AskPage("ListProposals", start, limit))
                   IN  /\ page # QueryError
                       /\ \E i \in DOMAIN page : page[i].id = id
  <2>1. PICK page :
            page = Query(AskPage("ListProposals", NoArg, proposal_count))
    OBVIOUS
  <2>2. GivenOr(NoArg, 1) = 1
    BY DEF GivenOr
  <2>3. Limit(proposal_count) = proposal_count
    BY <1>1, <1>2 DEF NoneIsNoNumber, Limit, GivenOr, Smaller
  <2>4. /\ page # QueryError
        /\ \A n \in Nat : (\E i \in DOMAIN page : page[i].id = n)
                             <=> n \in 1 .. proposal_count
    BY <1>1, <2>1, <2>2, <2>3, ForwardPage
  <2>5. \E i \in DOMAIN page : page[i].id = id
    BY <1>1, <2>4
  <2>6. LET asked == Query(AskPage("ListProposals", NoArg, proposal_count))
        IN  /\ asked # QueryError
            /\ \E i \in DOMAIN asked : asked[i].id = id
    BY <2>1, <2>4, <2>5
  <2>7. /\ NoArg \in {NoArg} \cup DOMAIN proposals
        /\ proposal_count \in {NoArg} \cup 0 .. MaxProposals
    BY <1>1
  <2> QED
    BY <2>6, <2>7, Zenon
<1>3. ASSUME EveryProposalIsListed, proposal_count > MAX_LIMIT PROVE FALSE
  <2>1. proposal_count \in DOMAIN proposals /\ proposal_count \in Nat
    BY <1>1, <1>3
  <2>2. PICK start \in {NoArg} \cup DOMAIN proposals,
             limit \in {NoArg} \cup 0 .. MaxProposals :
            LET page == Query(AskPage("ListProposals", start, limit))
            IN  \E i \in DOMAIN page : page[i].id = proposal_count
    BY <1>3, <2>1 DEF EveryProposalIsListed
  <2>3. PICK page :
            /\ page = Query(AskPage("ListProposals", start, limit))
            /\ \E i \in DOMAIN page : page[i].id = proposal_count
    BY <2>2
  <2>4. limit \in {NoArg} \cup Nat
    BY <1>1
  <2>5. proposal_count \in GivenOr(start, 1) .. Limit(limit)
    BY <2>1, <2>3, <2>4, ForwardPage
  <2>6. Limit(limit) <= MAX_LIMIT /\ Limit(limit) \in 0 .. proposal_count
    BY <2>4, LimitAtMost, LimitType
  <2> QED
    BY <1>1, <1>3, <2>5, <2>6
<1> QED
  BY <1>1, <1>2, <1>3 DEF EveryProposalIsListed

\* The page of reverse_proposals that starts at an existing proposal.
LEMMA BackwardPage ==
    ASSUME TypeOK, ErrorIsNoPage, NoneIsNoNumber,
           NEW start \in DOMAIN proposals, NEW limit \in {NoArg} \cup Nat,
           NEW page, page = Query(AskPage("ReverseProposals", start, limit))
    PROVE  /\ page # QueryError <=> Limit(limit) <= start
           /\ page # QueryError /\ Limit(limit) > 0 =>
                 \E i \in DOMAIN page : page[i].id = start
<1>1. /\ proposal_count \in Nat
      /\ DOMAIN proposals = 1 .. proposal_count
  BY DEF TypeOK
<1>2. PICK n \in 0 .. proposal_count : n = Limit(limit)
  BY LimitType
<1>3. start # NoArg /\ start \in 1 .. proposal_count
  BY <1>1 DEF NoneIsNoNumber
<1>4. Smaller(GivenOr(start, proposal_count), proposal_count) = start
  BY <1>1, <1>3 DEF Smaller, GivenOr
<1>5. PICK ids : ids = [i \in 1 .. n |-> start - i + 1]
  OBVIOUS
<1>6. page = Loaded(ids)
  BY <1>2, <1>4, <1>5 DEF Query, AskPage, ReverseProposals
<1>7. n \in Nat /\ ids \in [1 .. n -> Int]
  BY <1>1, <1>3, <1>5
<1>8. /\ page # QueryError
            <=> \A i \in 1 .. n : ids[i] \in DOMAIN proposals
      /\ page # QueryError =>
            /\ DOMAIN page = 1 .. n
            /\ \A i \in 1 .. n : page[i].id = ids[i]
  BY <1>6, <1>7, LoadedPage
<1>9. \A i \in 1 .. n : ids[i] = start - i + 1
  BY <1>5
<1>10. ASSUME n <= start, NEW i \in 1 .. n PROVE ids[i] \in DOMAIN proposals
  BY <1>1, <1>3, <1>9, <1>10
<1>11. ASSUME n > start PROVE \E i \in 1 .. n : ids[i] \notin DOMAIN proposals
  <2>1. start + 1 \in 1 .. n
    BY <1>3, <1>7, <1>11
  <2>2. ids[start + 1] = 0
    BY <1>3, <1>9, <2>1
  <2> QED
    BY <1>1, <2>1, <2>2
<1>12. page # QueryError <=> n <= start
  BY <1>3, <1>7, <1>8, <1>10, <1>11
<1>13. ASSUME page # QueryError, n > 0
       PROVE  \E i \in DOMAIN page : page[i].id = start
  <2>1. 1 \in 1 .. n
    BY <1>7, <1>13
  <2>2. 1 \in DOMAIN page /\ page[1].id = start - 1 + 1
    BY <1>8, <1>9, <1>13, <2>1
  <2> QED
    BY <1>3, <2>2
<1> QED
  BY <1>2, <1>12, <1>13

(***************************************************************************)
(* How far the two listings reach, whatever the number of proposals, the   *)
(* two limits of the code and the limit asked for: list_proposals to the   *)
(* MAX_LIMIT first proposals and no further, a page of reverse_proposals   *)
(* from any proposal that has enough others below it.                      *)
(***************************************************************************)
THEOREM PagesReachThisFar ==
    ASSUME ErrorIsNoPage, NoneIsNoNumber
    PROVE  Spec => []PagesReach
<1>1. ASSUME TypeOK PROVE PagesReach
  <2>1. EveryProposalIsListed <=> proposal_count <= MAX_LIMIT
    BY <1>1, ListingReachesTheLimit
  <2>2. ASSUME NEW start \in DOMAIN proposals,
               NEW limit \in {NoArg} \cup 0 .. MaxProposals + 1, NEW page,
               page = Query(AskPage("ReverseProposals", start, limit))
        PROVE  /\ page # QueryError <=> Limit(limit) <= start
               /\ page # QueryError /\ Limit(limit) > 0 =>
                     \E i \in DOMAIN page : page[i].id = start
    <3>1. limit \in {NoArg} \cup Nat
      BY MultisigAssumption
    <3> QED
      BY <1>1, <2>2, <3>1, BackwardPage
  <2> QED
    BY <2>1, <2>2 DEF PagesReach
<1> QED
  BY <1>1, TypeCorrect, PTL
=============================================================================
