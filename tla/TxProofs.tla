------------------------------ MODULE TxProofs ------------------------------
(***************************************************************************)
(* Transactions keep what MultisigTx promises of them, for every value of  *)
(* its constants: any messages, nested to any depth, failing anywhere; and *)
(* the contract keeps inside them what it promises outside.                *)
(***************************************************************************)
EXTENDS MultisigTx, VerdictProofs

----------------------------------------------------------------------------
\* Counting the outstanding messages

\* The calls of a sequence that are messages of proposal id.
CallsOf(calls, id) == {i \in DOMAIN calls : calls[i].of = id}

LEMMA CallsOfFinite ==
    ASSUME NEW S, NEW calls \in Seq(S), NEW id
    PROVE  /\ IsFiniteSet(CallsOf(calls, id))
           /\ Cardinality(CallsOf(calls, id)) \in Nat
<1>1. DOMAIN calls = 1 .. Len(calls) /\ Len(calls) \in Int
  OBVIOUS
<1>2. IsFiniteSet(1 .. Len(calls))
  BY <1>1, FS_Interval
<1>3. CallsOf(calls, id) \in SUBSET (1 .. Len(calls))
  BY <1>1 DEF CallsOf
<1> QED
  BY <1>2, <1>3, FS_Subset, FS_CardinalityType

\* Shifting a set of positions does not change its size.
LEMMA ShiftedCardinality ==
    ASSUME NEW A \in SUBSET Int, IsFiniteSet(A), NEW k \in Int
    PROVE  /\ IsFiniteSet({a + k : a \in A})
           /\ Cardinality({a + k : a \in A}) = Cardinality(A)
<1> DEFINE B == {a + k : a \in A}
           f == [a \in A |-> a + k]
<1>1. f \in Bijection(A, B)
  <2>1. f \in [A -> B]
    OBVIOUS
  <2>2. \A a, b \in A : f[a] = f[b] => a = b
    OBVIOUS
  <2>3. \A b \in B : \E a \in A : f[a] = b
    OBVIOUS
  <2> QED
    BY <2>1, <2>2, <2>3 DEF Bijection, Injection, Surjection, IsInjective
<1>2. ExistsBijection(A, B)
  BY <1>1 DEF ExistsBijection
<1> HIDE DEF f, B
<1> QED
  BY <1>2, FS_Bijection DEF B

\* The first call is taken off and the calls it returned come in its place.
LEMMA ContinuedCalls ==
    ASSUME NEW S, NEW calls \in Seq(S), calls # <<>>, NEW returned \in Seq(S),
           NEW id
    PROVE  Cardinality(CallsOf(returned \o Tail(calls), id))
              = Cardinality(CallsOf(returned, id))
                  + Cardinality(CallsOf(calls, id))
                  - (IF calls[1].of = id THEN 1 ELSE 0)
<1> DEFINE n == Len(returned)
           next == returned \o Tail(calls)
           A == CallsOf(returned, id)
           C == CallsOf(calls, id)
           R == C \ {1}
           B == {i + (n - 1) : i \in R}
<1>1. /\ n \in Nat
      /\ Len(calls) \in Nat \ {0}
      /\ Len(Tail(calls)) = Len(calls) - 1
      /\ DOMAIN returned = 1 .. n
      /\ DOMAIN calls = 1 .. Len(calls)
      /\ DOMAIN next = 1 .. (n + Len(calls) - 1)
      /\ \A i \in 1 .. n : next[i] = returned[i]
      /\ \A i \in 2 .. Len(calls) : next[i + (n - 1)] = calls[i]
  OBVIOUS
<1> HIDE DEF next, n
<1>2. CallsOf(next, id) = A \cup B
  <2>1. ASSUME NEW i \in CallsOf(next, id) PROVE i \in A \cup B
    <3>1. i \in 1 .. (n + Len(calls) - 1) /\ next[i].of = id
      BY <1>1 DEF CallsOf
    <3>2. CASE i <= n
      BY <1>1, <3>1, <3>2 DEF CallsOf
    <3>3. CASE i > n
      <4> DEFINE j == i - (n - 1)
      <4>1. j \in 2 .. Len(calls) /\ i = j + (n - 1)
        BY <1>1, <3>1, <3>3
      <4>2. calls[j].of = id
        BY <1>1, <3>1, <4>1
      <4>3. j \in R
        BY <1>1, <4>1, <4>2 DEF CallsOf
      <4> QED
        BY <4>1, <4>3
    <3> QED
      BY <1>1, <3>1, <3>2, <3>3
  <2>2. A \subseteq CallsOf(next, id)
    BY <1>1 DEF CallsOf
  <2>3. ASSUME NEW i \in R PROVE i + (n - 1) \in CallsOf(next, id)
    <3>1. i \in 2 .. Len(calls) /\ calls[i].of = id
      BY <1>1 DEF CallsOf
    <3>2. i + (n - 1) \in 1 .. (n + Len(calls) - 1)
      BY <1>1, <3>1
    <3> QED
      BY <1>1, <3>1, <3>2 DEF CallsOf
  <2> QED
    BY <2>1, <2>2, <2>3
<1>3. /\ IsFiniteSet(A) /\ Cardinality(A) \in Nat
      /\ IsFiniteSet(C) /\ Cardinality(C) \in Nat
  BY CallsOfFinite
<1>4. R \in SUBSET Int /\ IsFiniteSet(R)
  <2>1. C \in SUBSET Int
    BY <1>1 DEF CallsOf
  <2> QED
    BY <1>3, <2>1, FS_Subset
<1>5. IsFiniteSet(B) /\ Cardinality(B) = Cardinality(R)
  <2>1. n - 1 \in Int
    BY <1>1
  <2> HIDE DEF R
  <2> QED
    BY <1>4, <2>1, ShiftedCardinality
<1>6. A \cap B = {}
  BY <1>1 DEF CallsOf
<1>7. Cardinality(A \cup B) = Cardinality(A) + Cardinality(B)
  BY <1>3, <1>5, <1>6, CardinalityDisjoint
<1>8. Cardinality(R)
        = Cardinality(C) - (IF calls[1].of = id THEN 1 ELSE 0)
  <2>1. 1 \in C <=> calls[1].of = id
    BY <1>1 DEF CallsOf
  <2>2. CASE calls[1].of = id
    BY <1>3, <2>1, <2>2, FS_RemoveElement
  <2>3. CASE calls[1].of # id
    <3>1. R = C
      BY <2>1, <2>3
    <3>2. Cardinality(R) = Cardinality(C)
      BY <3>1
    <3> HIDE DEF R, C
    <3> QED
      BY <1>3, <2>3, <3>2
  <2> QED
    BY <2>2, <2>3
<1> HIDE DEF A, B, C, R
<1>9. Cardinality(CallsOf(next, id)) = Cardinality(A) + Cardinality(R)
  BY <1>2, <1>5, <1>7
<1> QED
  BY <1>3, <1>8, <1>9 DEF next, A, C

----------------------------------------------------------------------------
\* Types

Calls(All, count) == [sender : Addr, of : 0 .. count, msg : All]

TxTypes(All) ==
    /\ payload \in [1 .. proposal_count -> Seq(All)]
    /\ sent \in [1 .. proposal_count -> Nat]
    /\ pending \in Seq(Calls(All, proposal_count))

\* The types of the storage a rollback goes back to.
CommittedTypes(All) ==
    /\ committed.proposal_count \in 0 .. MaxProposals
    /\ committed.proposals \in [1 .. committed.proposal_count -> Proposal]
    /\ DOMAIN committed.ballots
          \subseteq (1 .. committed.proposal_count) \X DOMAIN voters
    /\ committed.ballots \in [DOMAIN committed.ballots -> Ballot]
    /\ committed.dispatched \in [1 .. committed.proposal_count -> Nat]
    /\ committed.payload \in [1 .. committed.proposal_count -> Seq(All)]
    /\ committed.sent \in [1 .. committed.proposal_count -> Nat]

AllTypes(All) == TypeOK /\ TxTypes(All) /\ CommittedTypes(All)

\* The next call of a transaction that is not over.
LEMMA NextCallType ==
    ASSUME NEW All, AllTypes(All), ~Idle
    PROVE  /\ NextCall.sender \in Addr
           /\ NextCall.of \in 0 .. proposal_count
           /\ NextCall.msg \in All
<1>1. pending \in Seq(Calls(All, proposal_count)) /\ pending # <<>>
  BY DEF AllTypes, TxTypes, Idle
<1>2. pending[1] \in Calls(All, proposal_count)
  BY <1>1
<1> QED
  BY <1>2 DEF NextCall, Calls

LEMMA CountSentType ==
    ASSUME NEW All, AllTypes(All), ~Idle
    PROVE  /\ CountSent(sent) \in [1 .. proposal_count -> Nat]
           /\ \A id \in 1 .. proposal_count :
                 CountSent(sent)[id]
                    = sent[id] + (IF NextCall.of = id THEN 1 ELSE 0)
<1>1. NextCall.of \in 0 .. proposal_count /\ proposal_count \in Nat
  BY NextCallType DEF AllTypes, TypeOK
<1>2. sent \in [1 .. proposal_count -> Nat]
  BY DEF AllTypes, TxTypes
<1> QED
  BY <1>1, <1>2 DEF CountSent

\* What is left of the calls after the next one, with what it returned.
LEMMA ContinueType ==
    ASSUME NEW All, AllTypes(All), ~Idle, NEW returned, Continue(returned),
           proposal_count' \in Nat, proposal_count <= proposal_count',
           returned \in Seq(Calls(All, proposal_count'))
    PROVE  pending' \in Seq(Calls(All, proposal_count'))
<1> DEFINE S == Calls(All, proposal_count)
           T == Calls(All, proposal_count')
<1>1. pending \in Seq(S) /\ pending # <<>>
  BY DEF AllTypes, TxTypes, Idle
<1>2. S \subseteq T
  <2>1. proposal_count \in Nat
    BY DEF AllTypes, TypeOK
  <2>2. 0 .. proposal_count \subseteq 0 .. proposal_count'
    BY <2>1
  <2> QED
    BY <2>2 DEF Calls
<1>3. pending' = returned \o Tail(pending)
  BY DEF Continue
<1> HIDE DEF S, T
<1>4. Tail(pending) \in Seq(T)
  <2>1. Tail(pending) \in Seq(S)
    BY <1>1
  <2> QED
    BY <1>2, <2>1
<1>5. returned \in Seq(T)
  BY DEF T
<1>6. returned \o Tail(pending) \in Seq(T)
  BY <1>4, <1>5
<1> QED
  BY <1>3, <1>6 DEF T

\* A transaction that is over is committed with the types it has.
LEMMA CommitType ==
    ASSUME NEW All, AllTypes(All), TypeOK', TxTypes(All)', voters' = voters,
           NEW returned, Continue(returned)
    PROVE  CommittedTypes(All)'
<1>1. CASE pending' = <<>>
  <2>1. committed' = Storage'
    BY <1>1 DEF Continue
  <2> QED
    BY <2>1 DEF Storage, TypeOK, TxTypes, CommittedTypes
<1>2. CASE pending' # <<>>
  <2>1. committed' = committed
    BY <1>2 DEF Continue
  <2> QED
    BY <2>1 DEF AllTypes, CommittedTypes
<1> QED
  BY <1>1, <1>2

LEMMA InitAllTypes ==
    ASSUME NEW All, TxInit
    PROVE  AllTypes(All)
<1>1. TypeOK
  BY InitTypeOK DEF TxInit
<1>2. /\ proposal_count = 0 /\ proposals = EmptyBucket
      /\ ballots = EmptyBucket /\ dispatched = EmptyBucket
      /\ payload = EmptyBucket /\ sent = EmptyBucket
      /\ pending = <<>> /\ committed = Storage
  BY DEF TxInit, Init
<1>3. TxTypes(All)
  BY <1>2 DEF TxTypes, EmptyBucket
<1>4. CommittedTypes(All)
  BY <1>1, <1>2, <1>3 DEF CommittedTypes, Storage, TypeOK, TxTypes
<1> QED
  BY <1>1, <1>3, <1>4 DEF AllTypes

LEMMA SubmitAllTypes ==
    ASSUME NEW All, WellFormed(All), AllTypes(All), NEW sender \in Addr,
           NEW msg \in Messages, Submit(sender, msg)
    PROVE  AllTypes(All)'
<1>1. /\ pending' = << Call(sender, 0, msg) >>
      /\ UNCHANGED <<vars, payload, sent, committed>>
  BY DEF Submit
<1>2. TypeOK'
  BY <1>1 DEF AllTypes, TypeOK, vars
<1>3. Call(sender, 0, msg) \in Calls(All, proposal_count)
  <2>1. proposal_count \in Nat
    BY DEF AllTypes, TypeOK
  <2> QED
    BY <2>1 DEF WellFormed, Call, Calls
<1>4. TxTypes(All)'
  BY <1>1, <1>3 DEF AllTypes, TxTypes, vars
<1>5. CommittedTypes(All)'
  BY <1>1 DEF AllTypes, CommittedTypes, vars
<1> QED
  BY <1>2, <1>4, <1>5 DEF AllTypes

LEMMA ProposeAllTypes ==
    ASSUME NEW All, WellFormed(All), AllTypes(All), ~Idle,
           HandlePropose(NextCall.sender, NextCall.msg)
    PROVE  AllTypes(All)'
<1> DEFINE id == proposal_count + 1
<1>1. NextCall.sender \in Addr /\ NextCall.msg \in All
  BY NextCallType
<1>2. NextCall.msg.latest \in Latest /\ NextCall.msg.msgs \in Seq(All)
  BY <1>1 DEF WellFormed, HandlePropose
<1>3. Propose(NextCall.sender, NextCall.msg.latest)
  BY DEF HandlePropose
<1>4. TypeOK'
  BY <1>1, <1>2, <1>3, ProposeTypeOK DEF AllTypes
<1>5. /\ proposal_count' = id
      /\ proposal_count \in Nat
      /\ 1 .. proposal_count' = (1 .. proposal_count) \cup {id}
      /\ voters' = voters
  BY <1>3 DEF Propose, NextProposalId, configured, AllTypes, TypeOK
<1>6. payload' \in [1 .. proposal_count' -> Seq(All)]
  <2>1. payload' = Put(payload, id, NextCall.msg.msgs)
    BY DEF HandlePropose, NextProposalId
  <2>2. payload \in [DOMAIN payload -> Seq(All)]
        /\ DOMAIN payload = 1 .. proposal_count
    BY DEF AllTypes, TxTypes
  <2>3. Put(payload, id, NextCall.msg.msgs)
          \in [DOMAIN payload \cup {id} -> Seq(All)]
    BY <1>2, <2>2, PutType
  <2> QED
    BY <1>5, <2>1, <2>2, <2>3
<1>7. sent' \in [1 .. proposal_count' -> Nat]
  <2>1. sent' = Put(CountSent(sent), id, 0)
    BY DEF HandlePropose, NextProposalId
  <2>2. CountSent(sent) \in [DOMAIN CountSent(sent) -> Nat]
        /\ DOMAIN CountSent(sent) = 1 .. proposal_count
    BY CountSentType
  <2>3. 0 \in Nat
    OBVIOUS
  <2>4. Put(CountSent(sent), id, 0)
          \in [DOMAIN CountSent(sent) \cup {id} -> Nat]
    BY <2>2, <2>3, PutType
  <2> QED
    BY <1>5, <2>1, <2>2, <2>4
<1>8. Continue(<<>>)
  BY DEF HandlePropose
<1>9. pending' \in Seq(Calls(All, proposal_count'))
  <2>1. <<>> \in Seq(Calls(All, proposal_count'))
    OBVIOUS
  <2>2. proposal_count' \in Nat /\ proposal_count <= proposal_count'
    BY <1>5
  <2> QED
    BY <1>8, <2>1, <2>2, ContinueType
<1>10. TxTypes(All)'
  BY <1>6, <1>7, <1>9 DEF TxTypes
<1> QED
  BY <1>4, <1>5, <1>8, <1>10, CommitType DEF AllTypes

\* A call that makes no proposal leaves the types to the handlers.
LEMMA OldProposalsAllTypes ==
    ASSUME NEW All, AllTypes(All), ~Idle, TypeOK', NEW returned,
           returned \in Seq(Calls(All, proposal_count)), Continue(returned),
           sent' = CountSent(sent),
           UNCHANGED <<proposal_count, voters, payload>>
    PROVE  AllTypes(All)'
<1>1. sent' \in [1 .. proposal_count' -> Nat]
  BY CountSentType
<1>2. pending' \in Seq(Calls(All, proposal_count'))
  <2>1. /\ proposal_count' \in Nat /\ proposal_count <= proposal_count'
        /\ returned \in Seq(Calls(All, proposal_count'))
    BY DEF AllTypes, TypeOK
  <2> QED
    BY <2>1, ContinueType
<1>3. TxTypes(All)'
  BY <1>1, <1>2 DEF AllTypes, TxTypes
<1> QED
  BY <1>3, CommitType DEF AllTypes

LEMMA VoteAllTypes ==
    ASSUME NEW All, WellFormed(All), AllTypes(All), ~Idle,
           HandleVote(NextCall.sender, NextCall.msg)
    PROVE  AllTypes(All)'
<1>1. NextCall.sender \in Addr /\ NextCall.msg \in All
  BY NextCallType
<1>2. NextCall.msg.vote \in VoteOption
  BY <1>1 DEF WellFormed, HandleVote
<1>3. Vote(NextCall.sender, NextCall.msg.id, NextCall.msg.vote)
  BY DEF HandleVote
<1>4. TypeOK'
  BY <1>1, <1>2, <1>3, VoteTypeOK DEF AllTypes
<1>5. UNCHANGED <<proposal_count, voters, payload>>
  BY <1>3 DEF HandleVote, Vote, configured
<1>6. <<>> \in Seq(Calls(All, proposal_count))
  OBVIOUS
<1>7. sent' = CountSent(sent) /\ Continue(<<>>)
  BY DEF HandleVote
<1> QED
  BY <1>4, <1>5, <1>6, <1>7, OldProposalsAllTypes

\* The messages of a stored proposal, as calls.
LEMMA ReturnedType ==
    ASSUME NEW All, AllTypes(All), NEW id \in DOMAIN proposals
    PROVE  /\ Returned(id) \in Seq(Calls(All, proposal_count))
           /\ Len(Returned(id)) = Len(payload[id])
           /\ \A i \in DOMAIN Returned(id) : Returned(id)[i].of = id
<1>1. /\ id \in 0 .. proposal_count
      /\ payload[id] \in Seq(All)
      /\ Self \in Addr
  BY TxAssumption DEF AllTypes, TypeOK, TxTypes
<1>2. \A i \in DOMAIN payload[id] :
          Call(Self, id, payload[id][i]) \in Calls(All, proposal_count)
  BY <1>1 DEF Call, Calls
<1>3. /\ DOMAIN payload[id] = 1 .. Len(payload[id])
      /\ Len(payload[id]) \in Nat
  BY <1>1
<1> DEFINE C == Calls(All, proposal_count)
<1>4. Returned(id) \in [1 .. Len(payload[id]) -> C]
  BY <1>2, <1>3 DEF Returned
<1>5. \A i \in DOMAIN Returned(id) : Returned(id)[i].of = id
  BY DEF Returned, Call
<1> HIDE DEF C
<1>6. Returned(id) \in Seq(C) /\ Len(Returned(id)) = Len(payload[id])
  BY <1>3, <1>4
<1> QED
  BY <1>5, <1>6 DEF C

LEMMA ExecuteAllTypes ==
    ASSUME NEW All, AllTypes(All), ~Idle, HandleExecute(NextCall.msg)
    PROVE  AllTypes(All)'
<1> DEFINE id == NextCall.msg.id
<1>1. Execute(id)
  BY DEF HandleExecute
<1>2. TypeOK'
  BY <1>1, ExecuteTypeOK DEF AllTypes
<1>3. id \in DOMAIN proposals /\ UNCHANGED <<proposal_count, voters, payload>>
  BY <1>1 DEF HandleExecute, Execute, CanExecute, configured
<1>4. Returned(id) \in Seq(Calls(All, proposal_count))
  BY <1>3, ReturnedType
<1>5. sent' = CountSent(sent) /\ Continue(Returned(id))
  BY DEF HandleExecute
<1> QED
  BY <1>2, <1>3, <1>4, <1>5, OldProposalsAllTypes

LEMMA CloseAllTypes ==
    ASSUME NEW All, AllTypes(All), ~Idle, HandleClose(NextCall.msg)
    PROVE  AllTypes(All)'
<1>1. Close(NextCall.msg.id)
  BY DEF HandleClose
<1>2. TypeOK'
  BY <1>1, CloseTypeOK DEF AllTypes
<1>3. UNCHANGED <<proposal_count, voters, payload>>
  BY <1>1 DEF HandleClose, Close, configured
<1>4. <<>> \in Seq(Calls(All, proposal_count))
  OBVIOUS
<1>5. sent' = CountSent(sent) /\ Continue(<<>>)
  BY DEF HandleClose
<1> QED
  BY <1>2, <1>3, <1>4, <1>5, OldProposalsAllTypes

LEMMA CarryAllTypes ==
    ASSUME NEW All, AllTypes(All), Carry
    PROVE  AllTypes(All)'
<1>1. /\ ~Idle
      /\ sent' = CountSent(sent)
      /\ UNCHANGED <<vars, payload>>
      /\ Continue(<<>>)
  BY DEF Carry
<1>2. TypeOK'
  BY <1>1 DEF AllTypes, TypeOK, vars
<1>3. <<>> \in Seq(Calls(All, proposal_count))
  OBVIOUS
<1> QED
  BY <1>1, <1>2, <1>3, OldProposalsAllTypes DEF vars

LEMMA FailAllTypes ==
    ASSUME NEW All, AllTypes(All), Fail
    PROVE  AllTypes(All)'
<1>1. /\ pending' = <<>>
      /\ proposal_count' = committed.proposal_count
      /\ proposals' = committed.proposals
      /\ ballots' = committed.ballots
      /\ dispatched' = committed.dispatched
      /\ payload' = committed.payload
      /\ sent' = committed.sent
      /\ UNCHANGED <<block, config, voters, voters_list, committed>>
  BY DEF Fail, configured
<1>2. TypeOK'
  BY <1>1 DEF AllTypes, TypeOK, CommittedTypes
<1>3. TxTypes(All)'
  BY <1>1 DEF AllTypes, TxTypes, CommittedTypes
<1>4. CommittedTypes(All)'
  BY <1>1 DEF AllTypes, CommittedTypes
<1> QED
  BY <1>2, <1>3, <1>4 DEF AllTypes

LEMMA NextBlockAllTypes ==
    ASSUME NEW All, AllTypes(All), NEW dt \in TimeSteps, NextBlock(dt)
    PROVE  AllTypes(All)'
<1>1. TypeOK'
  BY NewBlockTypeOK DEF AllTypes, NextBlock
<1>2. TxTypes(All)' /\ CommittedTypes(All)'
  BY DEF AllTypes, TxTypes, CommittedTypes, NextBlock, NewBlock, configured,
         txvars
<1> QED
  BY <1>1, <1>2 DEF AllTypes

LEMMA NextAllTypes ==
    ASSUME NEW All, WellFormed(All), AllTypes(All), [TxNext]_allvars
    PROVE  AllTypes(All)'
<1>1. ASSUME NEW sender \in Addr \ {Self}, NEW msg \in Messages,
             Submit(sender, msg)
      PROVE  AllTypes(All)'
  BY <1>1, SubmitAllTypes
<1>2. CASE Handle
  BY <1>2, ProposeAllTypes, VoteAllTypes, ExecuteAllTypes, CloseAllTypes
  DEF Handle
<1>3. CASE Carry
  BY <1>3, CarryAllTypes
<1>4. CASE Fail
  BY <1>4, FailAllTypes
<1>5. ASSUME NEW dt \in TimeSteps, NextBlock(dt) PROVE AllTypes(All)'
  BY <1>5, NextBlockAllTypes
<1>6. CASE UNCHANGED allvars
  BY <1>6 DEF AllTypes, TypeOK, TxTypes, CommittedTypes, allvars, vars, txvars
<1> QED
  BY <1>1, <1>2, <1>3, <1>4, <1>5, <1>6 DEF TxNext, Dispatch

----------------------------------------------------------------------------
\* All messages or none

\* What was carried out and what is outstanding change together.
LEMMA MessagesBalance ==
    ASSUME NEW All, AllTypes(All), ~Idle, NEW id \in 1 .. proposal_count,
           NEW returned \in Seq(Calls(All, proposal_count)),
           Continue(returned), sent'[id] = CountSent(sent)[id]
    PROVE  sent'[id] + Outstanding(id)'
              = sent[id] + Outstanding(id) + Cardinality(CallsOf(returned, id))
<1> DEFINE C == Calls(All, proposal_count)
<1>1. /\ pending \in Seq(C) /\ pending # <<>>
      /\ returned \in Seq(C)
      /\ pending' = returned \o Tail(pending)
  BY DEF AllTypes, TxTypes, Idle, Continue
<1> HIDE DEF C
<1>2. Cardinality(CallsOf(pending', id))
        = Cardinality(CallsOf(returned, id)) + Cardinality(CallsOf(pending, id))
            - (IF NextCall.of = id THEN 1 ELSE 0)
  BY <1>1, ContinuedCalls DEF NextCall
<1>3. /\ Cardinality(CallsOf(pending, id)) \in Nat
      /\ Cardinality(CallsOf(returned, id)) \in Nat
  BY <1>1, CallsOfFinite
<1>4. /\ Outstanding(id)' = Cardinality(CallsOf(pending', id))
      /\ Outstanding(id) = Cardinality(CallsOf(pending, id))
  BY DEF Outstanding, CallsOf
<1>5. /\ sent'[id] = sent[id] + (IF NextCall.of = id THEN 1 ELSE 0)
      /\ sent[id] \in Nat
  BY CountSentType DEF AllTypes, TxTypes
<1> QED
  BY <1>2, <1>3, <1>4, <1>5

\* A call that returns nothing owes nothing.
LEMMA NothingReturned == ASSUME NEW id PROVE Cardinality(CallsOf(<<>>, id)) = 0
<1>1. CallsOf(<<>>, id) = {}
  BY DEF CallsOf
<1> QED
  BY <1>1, FS_EmptySet

\* What is outstanding belongs to proposals there are.
LEMMA OutstandingOfNew ==
    ASSUME NEW All, AllTypes(All), NEW id \in Nat, id > proposal_count
    PROVE  Outstanding(id) = 0
<1>1. pending \in Seq(Calls(All, proposal_count)) /\ proposal_count \in Nat
  BY DEF AllTypes, TxTypes, TypeOK
<1>2. \A i \in DOMAIN pending : pending[i] \in Calls(All, proposal_count)
  BY <1>1
<1>3. \A i \in DOMAIN pending : pending[i].of \in 0 .. proposal_count
  BY <1>2 DEF Calls
<1>4. {i \in DOMAIN pending : pending[i].of = id} = {}
  BY <1>1, <1>3
<1> QED
  BY <1>4, FS_EmptySet DEF Outstanding

\* The storage a transaction starts from: the messages of the Executed
\* proposals are carried out, and no other.
CommittedAllOrNothing ==
    \A id \in DOMAIN committed.proposals :
        committed.sent[id]
            = (IF committed.proposals[id].status = "Executed"
               THEN Len(committed.payload[id]) ELSE 0)

LEMMA ProposeMessages ==
    ASSUME NEW All, WellFormed(All), AllTypes(All), AllTypes(All)',
           MessagesAllOrNothing, ~Idle,
           HandlePropose(NextCall.sender, NextCall.msg)
    PROVE  MessagesAllOrNothing'
<1>1. NextCall.sender \in Addr /\ NextCall.msg \in All
  BY NextCallType
<1>2. NextCall.msg.latest \in Latest
  BY <1>1 DEF WellFormed, HandlePropose
<1>3. Propose(NextCall.sender, NextCall.msg.latest)
  BY DEF HandlePropose
<1>4. PICK new \in Nat :
          /\ new = proposal_count + 1
          /\ DOMAIN proposals' = DOMAIN proposals \cup {new}
          /\ \A i \in DOMAIN proposals : proposals'[i] = proposals[i]
          /\ proposals'[new].status \in {"Open", "Passed", "Rejected"}
          /\ sent' = Put(CountSent(sent), new, 0)
          /\ payload' = Put(payload, new, NextCall.msg.msgs)
  <2>1. proposal_count + 1 \in Nat
    BY DEF AllTypes, TypeOK
  <2> QED
    BY <1>1, <1>2, <1>3, <2>1, ProposeEffect
    DEF HandlePropose, NextProposalId, AllTypes
<1>5. Continue(<<>>)
  BY DEF HandlePropose
<1>6. /\ DOMAIN proposals = 1 .. proposal_count
      /\ DOMAIN CountSent(sent) = 1 .. proposal_count
      /\ DOMAIN payload = 1 .. proposal_count
      /\ proposal_count \in Nat
      /\ new \notin 1 .. proposal_count
  <2>1. /\ DOMAIN proposals = 1 .. proposal_count
        /\ DOMAIN payload = 1 .. proposal_count
        /\ proposal_count \in Nat
    BY DEF AllTypes, TypeOK, TxTypes
  <2>2. CountSent(sent) \in [1 .. proposal_count -> Nat]
    BY CountSentType
  <2> QED
    BY <1>4, <2>1, <2>2
<1>7. /\ sent'[new] = 0
      /\ \A i \in 1 .. proposal_count :
            sent'[i] = CountSent(sent)[i] /\ payload'[i] = payload[i]
  <2>1. new \notin DOMAIN CountSent(sent) /\ new \notin DOMAIN payload
    BY <1>6
  <2>2. /\ Put(CountSent(sent), new, 0)[new] = 0
        /\ \A i \in DOMAIN CountSent(sent) :
              Put(CountSent(sent), new, 0)[i] = CountSent(sent)[i]
    BY <2>1 DEF Put
  <2>3. \A i \in DOMAIN payload :
            Put(payload, new, NextCall.msg.msgs)[i] = payload[i]
    BY <2>1 DEF Put
  <2> QED
    BY <1>4, <1>6, <2>2, <2>3
<1>8. ASSUME NEW id \in DOMAIN proposals
      PROVE  sent'[id] + Outstanding(id)'
                = (IF proposals'[id].status = "Executed"
                   THEN Len(payload'[id]) ELSE 0)
  <2>1. <<>> \in Seq(Calls(All, proposal_count))
    OBVIOUS
  <2>2. sent'[id] + Outstanding(id)' = sent[id] + Outstanding(id) + 0
    BY <1>5, <1>6, <1>7, <2>1, MessagesBalance, NothingReturned
  <2>3. sent[id] + Outstanding(id)
          = (IF proposals[id].status = "Executed"
             THEN Len(payload[id]) ELSE 0)
    BY DEF MessagesAllOrNothing
  <2>4. Len(payload[id]) \in Nat
    BY <1>6 DEF AllTypes, TxTypes
  <2> QED
    BY <1>4, <1>6, <1>7, <2>2, <2>3, <2>4
<1>9. Outstanding(new)' = 0
  <2> DEFINE C == Calls(All, proposal_count)
  <2>1. /\ pending \in Seq(C) /\ pending # <<>>
        /\ <<>> \in Seq(C)
        /\ pending' = <<>> \o Tail(pending)
    BY <1>5 DEF AllTypes, TxTypes, Idle, Continue
  <2> HIDE DEF C
  <2>2. NextCall.of # new
    BY <1>4, <1>6, NextCallType
  <2>3. Cardinality(CallsOf(pending', new))
          = Cardinality(CallsOf(<<>>, new)) + Cardinality(CallsOf(pending, new))
              - (IF NextCall.of = new THEN 1 ELSE 0)
    BY <2>1, ContinuedCalls DEF NextCall
  <2>4. Outstanding(new) = 0
    BY <1>4, <1>6, OutstandingOfNew
  <2>5. Cardinality(CallsOf(pending, new)) = 0
    BY <2>4 DEF Outstanding, CallsOf
  <2>6. Cardinality(CallsOf(pending', new)) = 0
    BY <2>2, <2>3, <2>5, NothingReturned
  <2> QED
    BY <2>6 DEF Outstanding, CallsOf
<1>10. sent'[new] + Outstanding(new)'
         = (IF proposals'[new].status = "Executed"
            THEN Len(payload'[new]) ELSE 0)
  BY <1>4, <1>7, <1>9
<1> QED
  BY <1>4, <1>8, <1>10 DEF MessagesAllOrNothing

\* A call that makes and executes no proposal.
LEMMA OldMessages ==
    ASSUME NEW All, AllTypes(All), MessagesAllOrNothing, ~Idle,
           Continue(<<>>), sent' = CountSent(sent),
           DOMAIN proposals' = DOMAIN proposals,
           \A i \in DOMAIN proposals :
              proposals'[i].status = "Executed"
                 <=> proposals[i].status = "Executed",
           payload' = payload
    PROVE  MessagesAllOrNothing'
<1> SUFFICES ASSUME NEW id \in DOMAIN proposals
             PROVE  sent'[id] + Outstanding(id)'
                       = (IF proposals'[id].status = "Executed"
                          THEN Len(payload'[id]) ELSE 0)
  BY DEF MessagesAllOrNothing
<1>1. /\ id \in 1 .. proposal_count
      /\ Len(payload[id]) \in Nat
      /\ <<>> \in Seq(Calls(All, proposal_count))
  BY DEF AllTypes, TypeOK, TxTypes
<1>2. sent'[id] + Outstanding(id)' = sent[id] + Outstanding(id) + 0
  BY <1>1, MessagesBalance, NothingReturned
<1>3. sent[id] + Outstanding(id)
        = (IF proposals[id].status = "Executed" THEN Len(payload[id]) ELSE 0)
  BY DEF MessagesAllOrNothing
<1> QED
  BY <1>1, <1>2, <1>3

\* All messages of the executed proposal become outstanding, and no other.
LEMMA ExecuteMessages ==
    ASSUME NEW All, AllTypes(All), MessagesAllOrNothing, ~Idle,
           HandleExecute(NextCall.msg)
    PROVE  MessagesAllOrNothing'
<1>1. Execute(NextCall.msg.id) /\ UNCHANGED payload /\ sent' = CountSent(sent)
  BY DEF HandleExecute
<1>2. PICK id \in DOMAIN proposals :
          /\ id = NextCall.msg.id
          /\ proposals[id].status = "Passed"
          /\ proposals' = Put(proposals, id,
                              [proposals[id] EXCEPT !.status = "Executed"])
  BY <1>1, ExecuteEffect DEF AllTypes
<1>3. /\ DOMAIN proposals' = DOMAIN proposals
      /\ proposals'[id].status = "Executed"
      /\ \A i \in DOMAIN proposals \ {id} : proposals'[i] = proposals[i]
  BY <1>2, RestatusEffect DEF AllTypes
<1>4. /\ Returned(id) \in Seq(Calls(All, proposal_count))
      /\ Len(Returned(id)) = Len(payload[id])
      /\ \A i \in DOMAIN Returned(id) : Returned(id)[i].of = id
  BY ReturnedType
<1>5. Continue(Returned(id))
  BY <1>2 DEF HandleExecute
<1> SUFFICES ASSUME NEW j \in DOMAIN proposals
             PROVE  sent'[j] + Outstanding(j)'
                       = (IF proposals'[j].status = "Executed"
                          THEN Len(payload'[j]) ELSE 0)
  BY <1>3 DEF MessagesAllOrNothing
<1>6. j \in 1 .. proposal_count /\ Len(payload[j]) \in Nat
  BY DEF AllTypes, TypeOK, TxTypes
<1>7. sent'[j] + Outstanding(j)'
        = sent[j] + Outstanding(j) + Cardinality(CallsOf(Returned(id), j))
  BY <1>1, <1>4, <1>5, <1>6, MessagesBalance
<1>8. sent[j] + Outstanding(j)
        = (IF proposals[j].status = "Executed" THEN Len(payload[j]) ELSE 0)
  BY DEF MessagesAllOrNothing
<1>9. CASE j = id
  <2>1. CallsOf(Returned(id), j) = 1 .. Len(payload[id])
    BY <1>4, <1>9 DEF CallsOf
  <2>2. Cardinality(1 .. Len(payload[id])) = Len(payload[id])
    <3>1. Len(payload[id]) \in Nat
      BY <1>6, <1>9
    <3>2. Cardinality(1 .. Len(payload[id]))
            = IF 1 > Len(payload[id]) THEN 0 ELSE Len(payload[id]) - 1 + 1
      BY <3>1, FS_Interval
    <3> QED
      BY <3>1, <3>2
  <2>3. Cardinality(CallsOf(Returned(id), j)) = Len(payload[id])
    BY <2>1, <2>2
  <2> QED
    BY <1>1, <1>2, <1>3, <1>6, <1>7, <1>8, <1>9, <2>3
<1>10. CASE j # id
  <2>1. CallsOf(Returned(id), j) = {}
    BY <1>4, <1>10 DEF CallsOf
  <2>2. Cardinality(CallsOf(Returned(id), j)) = 0
    BY <2>1, FS_EmptySet
  <2> QED
    BY <1>1, <1>3, <1>6, <1>7, <1>8, <1>10, <2>2
<1> QED
  BY <1>9, <1>10

LEMMA CallMessages ==
    ASSUME NEW All, WellFormed(All), AllTypes(All), AllTypes(All)',
           MessagesAllOrNothing, Handle \/ Carry
    PROVE  MessagesAllOrNothing'
<1>1. ~Idle
  BY DEF Handle, Carry
<1>2. CASE HandlePropose(NextCall.sender, NextCall.msg)
  BY <1>1, <1>2, ProposeMessages
<1>3. CASE HandleVote(NextCall.sender, NextCall.msg)
  <2>1. Vote(NextCall.sender, NextCall.msg.id, NextCall.msg.vote)
    BY <1>3 DEF HandleVote
  <2>2. NextCall.sender \in Addr /\ NextCall.msg.vote \in VoteOption
    BY <1>1, <1>3, NextCallType DEF HandleVote, WellFormed
  <2>3. PICK id \in DOMAIN proposals :
            /\ proposals[id].status = "Open"
            /\ DOMAIN proposals' = DOMAIN proposals
            /\ \A i \in DOMAIN proposals \ {id} : proposals'[i] = proposals[i]
            /\ proposals'[id].status \in {"Open", "Passed", "Rejected"}
    BY <2>1, <2>2, VoteEffect DEF AllTypes
  <2>4. \A i \in DOMAIN proposals :
            proposals'[i].status = "Executed"
               <=> proposals[i].status = "Executed"
    BY <2>3
  <2>5. Continue(<<>>) /\ sent' = CountSent(sent) /\ payload' = payload
    BY <1>3 DEF HandleVote
  <2> QED
    BY <1>1, <2>3, <2>4, <2>5, OldMessages
<1>4. CASE HandleExecute(NextCall.msg)
  BY <1>1, <1>4, ExecuteMessages
<1>5. CASE HandleClose(NextCall.msg)
  <2>1. Close(NextCall.msg.id)
    BY <1>5 DEF HandleClose
  <2>2. PICK id \in DOMAIN proposals :
            /\ proposals[id].status \notin {"Executed", "Rejected", "Passed"}
            /\ proposals' = Put(proposals, id,
                                [proposals[id] EXCEPT !.status = "Rejected"])
    BY <2>1, CloseEffect DEF AllTypes
  <2>3. /\ DOMAIN proposals' = DOMAIN proposals
        /\ proposals'[id].status = "Rejected"
        /\ \A i \in DOMAIN proposals \ {id} : proposals'[i] = proposals[i]
    BY <2>2, RestatusEffect DEF AllTypes
  <2>4. \A i \in DOMAIN proposals :
            proposals'[i].status = "Executed"
               <=> proposals[i].status = "Executed"
    BY <2>2, <2>3
  <2>5. Continue(<<>>) /\ sent' = CountSent(sent) /\ payload' = payload
    BY <1>5 DEF HandleClose
  <2> QED
    BY <1>1, <2>3, <2>4, <2>5, OldMessages
<1>6. CASE Carry
  <2>1. /\ Continue(<<>>) /\ sent' = CountSent(sent) /\ payload' = payload
        /\ proposals' = proposals
    BY <1>6 DEF Carry, vars
  <2> QED
    BY <1>1, <2>1, OldMessages
<1> QED
  BY <1>2, <1>3, <1>4, <1>5, <1>6 DEF Handle

\* A transaction that is over leaves a storage with nothing outstanding.
LEMMA CommitMessages ==
    ASSUME NEW All, AllTypes(All)', MessagesAllOrNothing',
           CommittedAllOrNothing, NEW returned, Continue(returned)
    PROVE  CommittedAllOrNothing'
<1>1. CASE pending' = <<>>
  <2>1. /\ committed'.proposals = proposals'
        /\ committed'.payload = payload'
        /\ committed'.sent = sent'
    BY <1>1 DEF Continue, Storage
  <2>2. ASSUME NEW id PROVE Outstanding(id)' = 0
    <3>1. {i \in DOMAIN pending' : pending'[i].of = id} = {}
      BY <1>1
    <3> QED
      BY <3>1, FS_EmptySet DEF Outstanding
  <2>3. \A id \in DOMAIN proposals' : sent'[id] \in Nat
    BY DEF AllTypes, TxTypes, TypeOK
  <2> QED
    BY <2>1, <2>2, <2>3 DEF MessagesAllOrNothing, CommittedAllOrNothing
<1>2. CASE pending' # <<>>
  <2>1. committed' = committed
    BY <1>2 DEF Continue
  <2> QED
    BY <2>1 DEF CommittedAllOrNothing
<1> QED
  BY <1>1, <1>2

----------------------------------------------------------------------------
\* What a transaction may do to the storage it started from

\* Of the proposals there were, none went back and all kept their messages.
SinceCommitted ==
    /\ committed.proposal_count <= proposal_count
    /\ \A id \in DOMAIN committed.proposals :
          /\ StageOf(proposals[id].status)
                \in Visible!Later(StageOf(committed.proposals[id].status))
          /\ payload[id] = committed.payload[id]

LEMMA LaterTransitive ==
    ASSUME NEW s, NEW t \in Visible!Later(s), NEW u \in Visible!Later(t)
    PROVE  u \in Visible!Later(s)
BY DEF Visible!Later

LEMMA LaterReflexive == ASSUME NEW s PROVE s \in Visible!Later(s)
BY DEF Visible!Later

\* What a single call may do.
CallKeeps ==
    /\ proposal_count <= proposal_count'
    /\ \A id \in DOMAIN proposals :
          /\ StageOf(proposals'[id].status)
                \in Visible!Later(StageOf(proposals[id].status))
          /\ payload'[id] = payload[id]

LEMMA CallKeepsStages ==
    ASSUME NEW All, WellFormed(All), AllTypes(All), Handle \/ Carry
    PROVE  CallKeeps
<1>1. ~Idle /\ proposal_count \in Nat
  BY DEF Handle, Carry, AllTypes, TypeOK
<1>2. CASE HandlePropose(NextCall.sender, NextCall.msg)
  <2>1. NextCall.sender \in Addr /\ NextCall.msg.latest \in Latest
    BY <1>1, <1>2, NextCallType DEF HandlePropose, WellFormed
  <2>2. Propose(NextCall.sender, NextCall.msg.latest)
    BY <1>2 DEF HandlePropose
  <2>3. \A i \in DOMAIN proposals : proposals'[i] = proposals[i]
    BY <2>1, <2>2, ProposeEffect DEF AllTypes
  <2>4. proposal_count' = proposal_count + 1
    BY <2>2 DEF Propose, NextProposalId
  <2>5. \A i \in DOMAIN proposals : payload'[i] = payload[i]
    <3>1. payload' = Put(payload, proposal_count + 1, NextCall.msg.msgs)
      BY <1>2 DEF HandlePropose, NextProposalId
    <3>2. /\ DOMAIN payload = DOMAIN proposals
          /\ proposal_count + 1 \notin DOMAIN payload
      BY DEF AllTypes, TypeOK, TxTypes
    <3> QED
      BY <3>1, <3>2 DEF Put
  <2> QED
    BY <1>1, <2>3, <2>4, <2>5, LaterReflexive DEF CallKeeps
<1>3. CASE HandleVote(NextCall.sender, NextCall.msg)
  <2>1. NextCall.sender \in Addr /\ NextCall.msg.vote \in VoteOption
    BY <1>1, <1>3, NextCallType DEF HandleVote, WellFormed
  <2>2. Vote(NextCall.sender, NextCall.msg.id, NextCall.msg.vote)
    BY <1>3 DEF HandleVote
  <2>3. PICK id \in DOMAIN proposals :
            /\ proposals[id].status = "Open"
            /\ \A i \in DOMAIN proposals \ {id} : proposals'[i] = proposals[i]
            /\ proposals'[id].status \in {"Open", "Passed", "Rejected"}
    BY <2>1, <2>2, VoteEffect DEF AllTypes
  <2>4. StageOf(proposals'[id].status)
          \in Visible!Later(StageOf(proposals[id].status))
    BY <2>3 DEF StageOf, Visible!Later
  <2>5. proposal_count' = proposal_count /\ payload' = payload
    BY <1>3, <2>2 DEF HandleVote, Vote
  <2> QED
    BY <1>1, <2>3, <2>4, <2>5, LaterReflexive DEF CallKeeps
<1>4. CASE HandleExecute(NextCall.msg)
  <2>1. Execute(NextCall.msg.id)
    BY <1>4 DEF HandleExecute
  <2>2. PICK id \in DOMAIN proposals :
            /\ proposals[id].status = "Passed"
            /\ proposals' = Put(proposals, id,
                                [proposals[id] EXCEPT !.status = "Executed"])
    BY <2>1, ExecuteEffect DEF AllTypes
  <2>3. /\ proposals'[id].status = "Executed"
        /\ \A i \in DOMAIN proposals \ {id} : proposals'[i] = proposals[i]
    BY <2>2, RestatusEffect DEF AllTypes
  <2>4. StageOf(proposals'[id].status)
          \in Visible!Later(StageOf(proposals[id].status))
    BY <2>2, <2>3 DEF StageOf, Visible!Later
  <2>5. proposal_count' = proposal_count /\ payload' = payload
    BY <1>4, <2>1 DEF HandleExecute, Execute
  <2> QED
    BY <1>1, <2>3, <2>4, <2>5, LaterReflexive DEF CallKeeps
<1>5. CASE HandleClose(NextCall.msg)
  <2>1. Close(NextCall.msg.id)
    BY <1>5 DEF HandleClose
  <2>2. PICK id \in DOMAIN proposals :
            /\ proposals[id].status \notin {"Executed", "Rejected", "Passed"}
            /\ proposals' = Put(proposals, id,
                                [proposals[id] EXCEPT !.status = "Rejected"])
    BY <2>1, CloseEffect DEF AllTypes
  <2>3. /\ proposals'[id].status = "Rejected"
        /\ \A i \in DOMAIN proposals \ {id} : proposals'[i] = proposals[i]
    BY <2>2, RestatusEffect DEF AllTypes
  <2>4. StageOf(proposals'[id].status)
          \in Visible!Later(StageOf(proposals[id].status))
    BY <2>2, <2>3 DEF StageOf, Visible!Later
  <2>5. proposal_count' = proposal_count /\ payload' = payload
    BY <1>5, <2>1 DEF HandleClose, Close
  <2> QED
    BY <1>1, <2>3, <2>4, <2>5, LaterReflexive DEF CallKeeps
<1>6. CASE Carry
  BY <1>1, <1>6, LaterReflexive DEF CallKeeps, Carry, vars
<1> QED
  BY <1>2, <1>3, <1>4, <1>5, <1>6 DEF Handle

\* The stages a transaction leaves behind follow on those it started from.
LEMMA SinceCommittedKept ==
    ASSUME NEW All, AllTypes(All), AllTypes(All)', SinceCommitted, CallKeeps
    PROVE  /\ committed.proposal_count <= proposal_count'
           /\ \A id \in DOMAIN committed.proposals :
                 /\ StageOf(proposals'[id].status)
                       \in Visible!Later(
                              StageOf(committed.proposals[id].status))
                 /\ payload'[id] = committed.payload[id]
<1>1. /\ proposal_count \in Nat /\ proposal_count' \in Nat
      /\ committed.proposal_count \in Nat
      /\ DOMAIN proposals = 1 .. proposal_count
      /\ DOMAIN committed.proposals = 1 .. committed.proposal_count
  BY DEF AllTypes, TypeOK, CommittedTypes
<1>2. committed.proposal_count <= proposal_count'
  BY <1>1 DEF SinceCommitted, CallKeeps
<1>3. ASSUME NEW id \in DOMAIN committed.proposals
      PROVE  /\ StageOf(proposals'[id].status)
                    \in Visible!Later(StageOf(committed.proposals[id].status))
             /\ payload'[id] = committed.payload[id]
  <2>1. id \in DOMAIN proposals
    BY <1>1 DEF SinceCommitted
  <2>2. StageOf(proposals[id].status)
          \in Visible!Later(StageOf(committed.proposals[id].status))
    BY DEF SinceCommitted
  <2>3. StageOf(proposals'[id].status)
          \in Visible!Later(StageOf(proposals[id].status))
    BY <2>1 DEF CallKeeps
  <2> QED
    BY <2>1, <2>2, <2>3, LaterTransitive DEF SinceCommitted, CallKeeps
<1> QED
  BY <1>2, <1>3

----------------------------------------------------------------------------
\* The inductive invariant

AtomicInv(All) ==
    /\ AllTypes(All)
    /\ MessagesAllOrNothing
    /\ CommittedAllOrNothing
    /\ SinceCommitted

LEMMA InitAtomicInv ==
    ASSUME NEW All, TxInit
    PROVE  AtomicInv(All)
<1>1. AllTypes(All)
  BY InitAllTypes
<1>2. /\ proposal_count = 0 /\ proposals = EmptyBucket
      /\ committed = Storage
  BY DEF TxInit, Init
<1>3. DOMAIN proposals = {}
  BY <1>2 DEF EmptyBucket
<1>4. committed.proposals = proposals /\ committed.proposal_count = 0
  BY <1>2 DEF Storage
<1>5. MessagesAllOrNothing /\ CommittedAllOrNothing
  BY <1>3, <1>4 DEF MessagesAllOrNothing, CommittedAllOrNothing
<1>6. SinceCommitted
  BY <1>2, <1>3, <1>4 DEF SinceCommitted
<1> QED
  BY <1>1, <1>5, <1>6 DEF AtomicInv

\* A call that succeeds, and the commit when it was the last one.
LEMMA CallAtomicInv ==
    ASSUME NEW All, WellFormed(All), AtomicInv(All), AllTypes(All)',
           Handle \/ Carry
    PROVE  AtomicInv(All)'
<1>1. MessagesAllOrNothing'
  BY CallMessages DEF AtomicInv
<1>2. PICK returned : Continue(returned)
  BY DEF Handle, Carry, HandlePropose, HandleVote, HandleExecute, HandleClose
<1>3. CommittedAllOrNothing'
  BY <1>1, <1>2, CommitMessages DEF AtomicInv
<1>4. SinceCommitted'
  <2>1. CallKeeps
    BY CallKeepsStages DEF AtomicInv
  <2>2. CASE pending' = <<>>
    <3>1. /\ committed'.proposal_count = proposal_count'
          /\ committed'.proposals = proposals'
          /\ committed'.payload = payload'
      BY <1>2, <2>2 DEF Continue, Storage
    <3>2. proposal_count' <= proposal_count'
      BY DEF AllTypes, TypeOK
    <3> QED
      BY <3>1, <3>2, LaterReflexive DEF SinceCommitted
  <2>3. CASE pending' # <<>>
    <3>1. committed' = committed
      BY <1>2, <2>3 DEF Continue
    <3> QED
      BY <2>1, <3>1, SinceCommittedKept DEF AtomicInv, SinceCommitted
  <2> QED
    BY <2>2, <2>3
<1> QED
  BY <1>1, <1>3, <1>4 DEF AtomicInv

\* A failure goes back to the storage the transaction started from.
LEMMA FailAtomicInv ==
    ASSUME NEW All, AtomicInv(All), AllTypes(All)', Fail
    PROVE  AtomicInv(All)'
<1>1. /\ pending' = <<>>
      /\ proposal_count' = committed.proposal_count
      /\ proposals' = committed.proposals
      /\ payload' = committed.payload
      /\ sent' = committed.sent
      /\ committed' = committed
  BY DEF Fail
<1>2. CommittedAllOrNothing'
  BY <1>1 DEF AtomicInv, CommittedAllOrNothing
<1>3. MessagesAllOrNothing'
  <2>1. ASSUME NEW id PROVE Outstanding(id)' = 0
    <3>1. {i \in DOMAIN pending' : pending'[i].of = id} = {}
      BY <1>1
    <3> QED
      BY <3>1, FS_EmptySet DEF Outstanding
  <2>2. \A id \in DOMAIN proposals' : sent'[id] \in Nat
    BY DEF AllTypes, TxTypes, TypeOK
  <2>3. ASSUME NEW id \in DOMAIN proposals'
        PROVE  sent'[id] + Outstanding(id)'
                  = (IF proposals'[id].status = "Executed"
                     THEN Len(payload'[id]) ELSE 0)
    <3>1. sent'[id] = (IF proposals'[id].status = "Executed"
                       THEN Len(payload'[id]) ELSE 0)
      BY <1>1 DEF AtomicInv, CommittedAllOrNothing
    <3>2. sent'[id] \in Nat /\ Outstanding(id)' = 0
      BY <2>1, <2>2
    <3> QED
      BY <3>1, <3>2
  <2> QED
    BY <2>3 DEF MessagesAllOrNothing
<1>4. SinceCommitted'
  <2>1. proposal_count' <= proposal_count'
    BY DEF AllTypes, TypeOK
  <2> QED
    BY <1>1, <2>1, LaterReflexive DEF SinceCommitted
<1> QED
  BY <1>2, <1>3, <1>4 DEF AtomicInv

\* What is submitted is nobody's message, so that nothing becomes outstanding.
LEMMA SubmitAtomicInv ==
    ASSUME NEW All, AtomicInv(All), AllTypes(All)',
           NEW sender, NEW msg, Submit(sender, msg)
    PROVE  AtomicInv(All)'
<1>1. /\ pending = <<>>
      /\ pending' = << Call(sender, 0, msg) >>
      /\ UNCHANGED <<proposal_count, proposals, payload, sent, committed>>
  BY DEF Submit, Idle, vars
<1>2. ASSUME NEW id \in DOMAIN proposals
      PROVE  Outstanding(id)' = Outstanding(id)
  <2>1. id # 0
    BY DEF AtomicInv, AllTypes, TypeOK
  <2>2. {i \in DOMAIN pending : pending[i].of = id} = {}
    BY <1>1
  <2>3. {i \in DOMAIN pending' : pending'[i].of = id} = {}
    BY <1>1, <2>1 DEF Call
  <2> QED
    BY <2>2, <2>3 DEF Outstanding
<1>3. MessagesAllOrNothing'
  BY <1>1, <1>2 DEF AtomicInv, MessagesAllOrNothing
<1>4. CommittedAllOrNothing' /\ SinceCommitted'
  BY <1>1 DEF AtomicInv, CommittedAllOrNothing, SinceCommitted
<1> QED
  BY <1>3, <1>4 DEF AtomicInv

LEMMA IdleAtomicInv ==
    ASSUME NEW All, AtomicInv(All), AllTypes(All)',
           UNCHANGED <<proposal_count, proposals, txvars>>
    PROVE  AtomicInv(All)'
<1>1. \A id : Outstanding(id)' = Outstanding(id)
  BY DEF Outstanding, txvars
<1> QED
  BY <1>1 DEF AtomicInv, MessagesAllOrNothing, CommittedAllOrNothing,
              SinceCommitted, txvars

LEMMA NextAtomicInv ==
    ASSUME NEW All, WellFormed(All), AtomicInv(All), [TxNext]_allvars
    PROVE  AtomicInv(All)'
<1>1. AllTypes(All)'
  BY NextAllTypes DEF AtomicInv
<1>2. ASSUME NEW sender \in Addr \ {Self}, NEW msg \in Messages,
             Submit(sender, msg)
      PROVE  AtomicInv(All)'
  BY <1>1, <1>2, SubmitAtomicInv
<1>3. CASE Handle \/ Carry
  BY <1>1, <1>3, CallAtomicInv
<1>4. CASE Fail
  BY <1>1, <1>4, FailAtomicInv
<1>5. ASSUME NEW dt \in TimeSteps, NextBlock(dt) PROVE AtomicInv(All)'
  BY <1>1, <1>5, IdleAtomicInv DEF NextBlock, NewBlock
<1>6. CASE UNCHANGED allvars
  BY <1>1, <1>6, IdleAtomicInv DEF allvars, vars
<1> QED
  BY <1>2, <1>3, <1>4, <1>5, <1>6 DEF TxNext, Dispatch

LEMMA AlwaysAtomicInv ==
    ASSUME NEW All, WellFormed(All)
    PROVE  TxSpec => []AtomicInv(All)
<1>1. TxInit => AtomicInv(All)
  BY InitAtomicInv
<1>2. AtomicInv(All) /\ [TxNext]_allvars => AtomicInv(All)'
  BY NextAtomicInv
<1> QED
  BY <1>1, <1>2, PTL DEF TxSpec

(***************************************************************************)
(* All messages of a proposal or none, at every moment of every            *)
(* transaction: whatever the messages are, how deep they call the contract *)
(* again, and wherever a call fails.                                       *)
(***************************************************************************)
THEOREM MessagesGoOutTogether ==
    ASSUME NEW All, WellFormed(All)
    PROVE  TxSpec => []MessagesAllOrNothing
<1>1. AtomicInv(All) => MessagesAllOrNothing
  BY DEF AtomicInv
<1> QED
  BY <1>1, AlwaysAtomicInv, PTL

----------------------------------------------------------------------------
\* What transactions leave behind

LEMMA DoneIsExecuted ==
    ASSUME NEW status
    PROVE  StageOf(status) = "done" <=> status = "Executed"
BY DEF StageOf

\* A transaction that ends well is one step of OnceOrNever.
LEMMA CommitRefines ==
    ASSUME NEW All, WellFormed(All), AtomicInv(All), AtomicInv(All)',
           Handle \/ Carry, pending' = <<>>
    PROVE  Visible!ONext
<1>1. PICK returned : Continue(returned)
  BY DEF Handle, Carry, HandlePropose, HandleVote, HandleExecute, HandleClose
<1>2. /\ committed'.proposal_count = proposal_count'
      /\ committed'.proposals = proposals'
      /\ committed'.payload = payload'
      /\ committed'.sent = sent'
  BY <1>1 DEF Continue, Storage
<1>3. /\ committed.proposal_count <= proposal_count'
      /\ \A id \in DOMAIN committed.proposals :
            /\ StageOf(proposals'[id].status)
                  \in Visible!Later(StageOf(committed.proposals[id].status))
            /\ payload'[id] = committed.payload[id]
  BY CallKeepsStages, SinceCommittedKept DEF AtomicInv
<1>4. PICK count \in 0 .. MaxProposals : count = proposal_count'
  BY DEF AtomicInv, AllTypes, TypeOK
<1>5. /\ DOMAIN committed.proposals = 1 .. committed.proposal_count
      /\ DOMAIN committed.payload = 1 .. committed.proposal_count
      /\ committed.proposal_count \in Nat
  BY DEF AtomicInv, AllTypes, CommittedTypes
<1>6. /\ DOMAIN proposals' = 1 .. count
      /\ payload' \in [1 .. count -> Seq(All)]
      /\ sent' \in [1 .. count -> Nat]
  BY <1>4 DEF AtomicInv, AllTypes, TypeOK, TxTypes
<1>7. DOMAIN committed.proposals \subseteq 1 .. count
  BY <1>3, <1>4, <1>5
<1>8. \A id \in 1 .. count :
          sent'[id] = (IF StageOf(proposals'[id].status) = "done"
                       THEN Len(payload'[id]) ELSE 0)
  <2>1. CommittedAllOrNothing'
    BY DEF AtomicInv
  <2> QED
    BY <1>2, <1>6, <2>1, DoneIsExecuted DEF CommittedAllOrNothing
<1>9. sent' = [id \in 1 .. count |->
                  IF StageOf(proposals'[id].status) = "done"
                  THEN Len(payload'[id]) ELSE 0]
  BY <1>6, <1>8
<1>10. Visible!Step(1 .. count)
  BY <1>2, <1>3, <1>5, <1>6, <1>7, <1>9 DEF Visible!Step
<1>11. 1 .. count \in SUBSET (1 .. MaxProposals)
  BY MultisigAssumption, <1>4
<1> QED
  BY <1>10, <1>11 DEF Visible!ONext

LEMMA NextRefines ==
    ASSUME NEW All, WellFormed(All), AtomicInv(All), AtomicInv(All)',
           [TxNext]_allvars
    PROVE  [Visible!ONext]_(Visible!ovars)
<1>1. CASE Handle \/ Carry
  <2>1. CASE pending' = <<>>
    BY <1>1, <2>1, CommitRefines
  <2>2. CASE pending' # <<>>
    <3>1. committed' = committed
      BY <1>1, <2>2 DEF Handle, Carry, HandlePropose, HandleVote,
                        HandleExecute, HandleClose, Continue
    <3> QED
      BY <3>1 DEF Visible!ovars
  <2> QED
    BY <2>1, <2>2
<1>2. CASE ~(Handle \/ Carry)
  <2>1. committed' = committed
    BY <1>2 DEF TxNext, Dispatch, Submit, Fail, NextBlock, allvars, txvars
  <2> QED
    BY <2>1 DEF Visible!ovars
<1> QED
  BY <1>1, <1>2

LEMMA InitRefines == ASSUME TxInit PROVE Visible!OInit
<1>1. /\ committed.proposals = EmptyBucket
      /\ committed.payload = EmptyBucket
      /\ committed.sent = EmptyBucket
  BY DEF TxInit, Init, Storage
<1>2. DOMAIN EmptyBucket = {}
  BY DEF EmptyBucket
<1> QED
  BY <1>1, <1>2 DEF Visible!OInit, EmptyBucket

(***************************************************************************)
(* Transactions implement OnceOrNever, for every value of the constants:   *)
(* a proposal that passed is executed with all its messages and once, or   *)
(* it remains Passed, whatever fails and whatever calls whatever.          *)
(***************************************************************************)
THEOREM TransactionsAreOnceOrNever ==
    ASSUME NEW All, WellFormed(All)
    PROVE  TxSpec => ImplementsOnceOrNever
<1>1. TxInit => Visible!OInit
  BY InitRefines
<1>2. AtomicInv(All) /\ AtomicInv(All)' /\ [TxNext]_allvars
        => [Visible!ONext]_(Visible!ovars)
  BY NextRefines
<1> QED
  BY <1>1, <1>2, AlwaysAtomicInv, PTL
  DEF TxSpec, ImplementsOnceOrNever, Visible!OSpec

----------------------------------------------------------------------------
\* Transactions end

LEMMA NothingReturnedIsLess ==
    ASSUME NEW All, AllTypes(All), ~Idle, Continue(<<>>)
    PROVE  Len(pending') < Len(pending)
<1> DEFINE C == Calls(All, proposal_count)
<1>1. /\ pending \in Seq(C) /\ pending # <<>>
      /\ pending' = <<>> \o Tail(pending)
  BY DEF AllTypes, TxTypes, Idle, Continue
<1> HIDE DEF C
<1>2. /\ Tail(pending) \in Seq(C)
      /\ Len(Tail(pending)) = Len(pending) - 1
      /\ Len(pending) \in Nat
  BY <1>1
<1> QED
  BY <1>1, <1>2

\* An Execute uses up the proposal whose messages it returns.
LEMMA ExecuteUsesUp ==
    ASSUME NEW All, AllTypes(All), HandleExecute(NextCall.msg)
    PROVE  Cardinality(ExecutedIds') > Cardinality(ExecutedIds)
<1>1. Execute(NextCall.msg.id)
  BY DEF HandleExecute
<1>2. PICK id \in DOMAIN proposals :
          /\ proposals[id].status = "Passed"
          /\ proposals' = Put(proposals, id,
                              [proposals[id] EXCEPT !.status = "Executed"])
  BY <1>1, ExecuteEffect DEF AllTypes
<1>3. /\ DOMAIN proposals' = DOMAIN proposals
      /\ proposals'[id].status = "Executed"
      /\ \A i \in DOMAIN proposals \ {id} : proposals'[i] = proposals[i]
  BY <1>2, RestatusEffect DEF AllTypes
<1>4. ExecutedIds' = ExecutedIds \cup {id} /\ id \notin ExecutedIds
  BY <1>2, <1>3 DEF ExecutedIds
<1>5. IsFiniteSet(ExecutedIds)
  <2>1. proposal_count \in Nat /\ DOMAIN proposals = 1 .. proposal_count
    BY DEF AllTypes, TypeOK
  <2>2. IsFiniteSet(1 .. proposal_count)
    BY <2>1, FS_Interval
  <2>3. ExecutedIds \in SUBSET (1 .. proposal_count)
    BY <2>1 DEF ExecutedIds
  <2> QED
    BY <2>2, <2>3, FS_Subset
<1>6. Cardinality(ExecutedIds') = Cardinality(ExecutedIds) + 1
  BY <1>4, <1>5, FS_AddElement
<1>7. Cardinality(ExecutedIds) \in Nat
  BY <1>5, FS_CardinalityType
<1> QED
  BY <1>6, <1>7

(***************************************************************************)
(* No messages keep a transaction going for ever: at every step of one,    *)
(* it ends, or less is left to do, or a proposal is used up, of which      *)
(* there are finitely many.                                                *)
(***************************************************************************)
THEOREM TransactionsEnd ==
    ASSUME NEW All, WellFormed(All)
    PROVE  TxSpec => DispatchTerminates
<1> DEFINE Progress == ~Idle =>
               \/ pending' = <<>>
               \/ Len(pending') < Len(pending)
               \/ Cardinality(ExecutedIds') > Cardinality(ExecutedIds)
<1>1. ASSUME AllTypes(All), TxNext PROVE Progress
  <2>1. CASE \E sender \in Addr \ {Self}, msg \in Messages : Submit(sender, msg)
    BY <2>1 DEF Submit
  <2>2. CASE Handle
    <3>1. ~Idle
      BY <2>2 DEF Handle
    <3>2. CASE HandleExecute(NextCall.msg)
      BY <1>1, <3>2, ExecuteUsesUp
    <3>3. CASE Continue(<<>>)
      BY <1>1, <3>1, <3>3, NothingReturnedIsLess
    <3> QED
      BY <2>2, <3>2, <3>3 DEF Handle, HandlePropose, HandleVote, HandleClose
  <2>3. CASE Carry
    BY <1>1, <2>3, NothingReturnedIsLess DEF Carry
  <2>4. CASE Fail
    BY <2>4 DEF Fail
  <2>5. CASE \E dt \in TimeSteps : NextBlock(dt)
    BY <2>5 DEF NextBlock
  <2> QED
    BY <1>1, <2>1, <2>2, <2>3, <2>4, <2>5 DEF TxNext, Dispatch
<1>2. AtomicInv(All) => AllTypes(All)
  BY DEF AtomicInv
<1>3. AtomicInv(All) /\ [TxNext]_allvars => [Progress]_allvars
  BY <1>1, <1>2
<1> QED
  BY <1>3, AlwaysAtomicInv, PTL DEF TxSpec, DispatchTerminates

----------------------------------------------------------------------------
\* The contract inside its transactions

\* What the invariants of the contract say of the storage a rollback goes back
\* to: its tallies, its terms and its verdicts.
SavedVotersFor(id, vote) ==
    {a \in DOMAIN voters : /\ <<id, a>> \in DOMAIN committed.ballots
                           /\ committed.ballots[<<id, a>>].vote = vote}

SavedTally ==
    /\ \A key \in DOMAIN committed.ballots :
          committed.ballots[key].weight = voters[key[2]]
    /\ \A id \in DOMAIN committed.proposals, vote \in VoteOption :
          committed.proposals[id].votes[vote]
             = WeightSum(voters, SavedVotersFor(id, vote))

SavedTerms ==
    \A id \in DOMAIN committed.proposals :
        /\ committed.proposals[id].threshold = config.threshold
        /\ committed.proposals[id].total_weight = config.total_weight

SavedUndecided ==
    \A id \in DOMAIN committed.proposals :
        UpToDate(committed.proposals[id], block)

SavedMissesRule ==
    \A id \in DOMAIN committed.proposals :
        /\ committed.proposals[id].threshold.kind # "ThresholdQuorum"
        /\ committed.proposals[id].status \notin {"Passed", "Executed"}
        => ~MeetsRule(committed.proposals[id])

SavedInv ==
    /\ SavedTally
    /\ SavedTerms
    /\ SavedUndecided
    /\ SavedMissesRule

\* Between transactions there is nothing to go back on.
IdleIsCommitted ==
    Idle => committed.proposals = proposals /\ committed.ballots = ballots

(***************************************************************************)
(* The inductive invariant: a rollback takes the contract back to the      *)
(* storage the transaction found, so that storage has to satisfy what is   *)
(* wanted of the contract, in the block of the transaction; and since      *)
(* blocks are made between transactions only, it has aged by none.         *)
(***************************************************************************)
ContractInv ==
    /\ TallyInv
    /\ OpenIsUndecided
    /\ NotPassedMissesRule
    /\ SavedInv
    /\ IdleIsCommitted

\* A call that succeeds is a step of Multisig: the messages of a proposal can
\* do nothing to the contract that an account could not.
LEMMA CallIsStep ==
    ASSUME NEW All, WellFormed(All), AllTypes(All), Handle \/ Carry
    PROVE  [Next]_vars
<1>1. /\ NextCall.sender \in Addr
      /\ NextCall.msg \in All
  BY NextCallType DEF Handle, Carry
<1>2. DOMAIN proposals \subseteq 1 .. MaxProposals
  BY MultisigAssumption DEF AllTypes, TypeOK
<1>3. CASE HandlePropose(NextCall.sender, NextCall.msg)
  <2>1. Propose(NextCall.sender, NextCall.msg.latest)
        /\ NextCall.msg.latest \in Latest
    BY <1>1, <1>3 DEF HandlePropose, WellFormed
  <2> QED
    BY <1>1, <2>1 DEF Next
<1>4. CASE HandleVote(NextCall.sender, NextCall.msg)
  <2>1. /\ Vote(NextCall.sender, NextCall.msg.id, NextCall.msg.vote)
        /\ NextCall.msg.vote \in VoteOption
    BY <1>1, <1>4 DEF HandleVote, WellFormed
  <2>2. NextCall.msg.id \in 1 .. MaxProposals
    BY <1>2, <2>1 DEF Vote, CanVote
  <2> QED
    BY <1>1, <2>1, <2>2 DEF Next
<1>5. CASE HandleExecute(NextCall.msg)
  <2>1. Execute(NextCall.msg.id)
    BY <1>5 DEF HandleExecute
  <2>2. NextCall.msg.id \in 1 .. MaxProposals
    BY <1>2, <2>1 DEF Execute, CanExecute
  <2> QED
    BY <2>1, <2>2 DEF Next
<1>6. CASE HandleClose(NextCall.msg)
  <2>1. Close(NextCall.msg.id)
    BY <1>6 DEF HandleClose
  <2>2. NextCall.msg.id \in 1 .. MaxProposals
    BY <1>2, <2>1 DEF Close, CanClose
  <2> QED
    BY <2>1, <2>2 DEF Next
<1>7. CASE Carry
  BY <1>7 DEF Carry
<1> QED
  BY <1>3, <1>4, <1>5, <1>6, <1>7 DEF Handle

\* What holds of a contract is committed with it.
LEMMA CommittedHolds ==
    ASSUME committed'.proposals = proposals', committed'.ballots = ballots',
           TallyInv', OpenIsUndecided', NotPassedMissesRule'
    PROVE  SavedInv'
<1>1. SavedTally'
  <2>1. \A id, v : SavedVotersFor(id, v)' = VotersFor(id, v)'
    BY DEF SavedVotersFor, VotersFor
  <2> QED
    BY <2>1 DEF TallyInv, TallyMatchesBallots, SavedTally
<1>2. SavedTerms'
  BY DEF TallyInv, TermsOfConfig, SavedTerms
<1>3. SavedUndecided'
  BY DEF OpenIsUndecided, SavedUndecided
<1>4. SavedMissesRule'
  BY DEF NotPassedMissesRule, SavedMissesRule
<1> QED
  BY <1>1, <1>2, <1>3, <1>4 DEF SavedInv

\* What holds of a storage holds of the contract when it is restored.
LEMMA RestoredHolds ==
    ASSUME SavedInv, VotersWithinTotal, Fail
    PROVE  TallyInv' /\ OpenIsUndecided' /\ NotPassedMissesRule'
<1>1. /\ proposals' = committed.proposals
      /\ ballots' = committed.ballots
      /\ UNCHANGED <<block, config, voters>>
  BY DEF Fail, configured
<1>2. TallyMatchesBallots'
  <2>1. \A id, v : VotersFor(id, v)' = SavedVotersFor(id, v)
    BY <1>1 DEF SavedVotersFor, VotersFor
  <2> QED
    BY <1>1, <2>1 DEF SavedInv, TallyMatchesBallots, SavedTally
<1>3. TermsOfConfig' /\ VotersWithinTotal'
  BY <1>1 DEF SavedInv, SavedTerms, TermsOfConfig, VotersWithinTotal
<1>4. OpenIsUndecided'
  BY <1>1 DEF SavedInv, OpenIsUndecided, SavedUndecided
<1>5. NotPassedMissesRule'
  BY <1>1 DEF SavedInv, NotPassedMissesRule, SavedMissesRule
<1> QED
  BY <1>2, <1>3, <1>4, <1>5 DEF TallyInv

\* The storage to go back to is left alone, in the same block.
LEMMA SavedStays ==
    ASSUME SavedInv, UNCHANGED <<committed, block, config, voters>>
    PROVE  SavedInv'
<1>1. SavedTally'
  <2>1. \A id, v : SavedVotersFor(id, v)' = SavedVotersFor(id, v)
    BY DEF SavedVotersFor
  <2> QED
    BY <2>1 DEF SavedInv, SavedTally
<1>2. SavedTerms'
  BY DEF SavedInv, SavedTerms
<1>3. SavedUndecided'
  BY DEF SavedInv, SavedUndecided
<1>4. SavedMissesRule'
  BY DEF SavedInv, SavedMissesRule
<1> QED
  BY <1>1, <1>2, <1>3, <1>4 DEF SavedInv

\* The invariants of Multisig, over one of its steps.
LEMMA StepHolds ==
    ASSUME TypeOK, TypeOK', ContractInv, [Next]_vars
    PROVE  TallyInv' /\ OpenIsUndecided' /\ NotPassedMissesRule'
<1>1. TallyInv'
  BY NextTallyInv DEF ContractInv
<1>2. TallyWithinTotalWeight'
  <2>1. TallyWithinTotalWeight
    BY TallyInvBounds DEF ContractInv
  <2> QED
    BY <1>1, TallyInvBounds, PTL
<1> QED
  BY <1>1, <1>2, NextOpenIsUndecided, NextNotPassedMissesRule DEF ContractInv

LEMMA InitContractInv == TxInit => ContractInv
<1> SUFFICES ASSUME TxInit PROVE ContractInv
  OBVIOUS
<1>1. Init /\ committed = Storage
  BY DEF TxInit
<1>2. TallyInv
  BY <1>1, InitTallyInv
<1>3. DOMAIN proposals = {} /\ DOMAIN ballots = {}
  BY <1>1 DEF Init, EmptyBucket
<1>4. committed.proposals = proposals /\ committed.ballots = ballots
  BY <1>1 DEF Storage
<1>5. OpenIsUndecided /\ NotPassedMissesRule
  BY <1>3 DEF OpenIsUndecided, NotPassedMissesRule
<1>6. SavedInv
  BY <1>3, <1>4 DEF SavedInv, SavedTally, SavedTerms, SavedUndecided,
                    SavedMissesRule
<1> QED
  BY <1>2, <1>4, <1>5, <1>6 DEF ContractInv, IdleIsCommitted

\* A call that succeeds goes on, or is the last and commits.
LEMMA CallHolds ==
    ASSUME NEW All, WellFormed(All), AllTypes(All), AllTypes(All)',
           ContractInv, Handle \/ Carry
    PROVE  ContractInv'
<1>1. TypeOK /\ TypeOK' /\ [Next]_vars
  BY CallIsStep DEF AllTypes
<1>2. TallyInv' /\ OpenIsUndecided' /\ NotPassedMissesRule'
  BY <1>1, StepHolds
<1>3. PICK returned : Continue(returned)
  BY DEF Handle, Carry, HandlePropose, HandleVote, HandleExecute, HandleClose
<1>4. CASE pending' = <<>>
  <2>1. committed'.proposals = proposals' /\ committed'.ballots = ballots'
    BY <1>3, <1>4 DEF Continue, Storage
  <2>2. SavedInv'
    BY <1>2, <2>1, CommittedHolds
  <2> QED
    BY <1>2, <2>1, <2>2 DEF ContractInv, IdleIsCommitted
<1>5. CASE pending' # <<>>
  <2>1. committed' = committed
    BY <1>3, <1>5 DEF Continue
  <2>2. UNCHANGED <<block, config, voters>>
    BY DEF Handle, Carry, HandlePropose, HandleVote, HandleExecute,
           HandleClose, Propose, Vote, Execute, Close, configured, vars
  <2>3. SavedInv'
    BY <2>1, <2>2, SavedStays DEF ContractInv
  <2> QED
    BY <1>2, <1>5, <2>3 DEF ContractInv, IdleIsCommitted, Idle
<1> QED
  BY <1>4, <1>5

LEMMA NextContractInv ==
    ASSUME NEW All, WellFormed(All), AllTypes(All), AllTypes(All)',
           ContractInv, [TxNext]_allvars
    PROVE  ContractInv'
<1>1. TypeOK /\ TypeOK'
  BY DEF AllTypes
<1>2. ASSUME NEW sender, NEW msg, Submit(sender, msg) PROVE ContractInv'
  <2>1. [Next]_vars
    BY <1>2 DEF Submit
  <2>2. UNCHANGED <<committed, block, config, voters>>
    BY <1>2 DEF Submit, vars, configured
  <2>3. pending' # <<>>
    BY <1>2 DEF Submit
  <2> QED
    BY <1>1, <2>1, <2>2, <2>3, StepHolds, SavedStays
    DEF ContractInv, IdleIsCommitted, Idle
<1>3. CASE Handle \/ Carry
  BY <1>3, CallHolds
<1>4. CASE Fail
  <2>1. TallyInv' /\ OpenIsUndecided' /\ NotPassedMissesRule'
    BY <1>4, RestoredHolds DEF ContractInv, TallyInv
  <2>2. SavedInv'
    BY <1>4, SavedStays DEF ContractInv, Fail, configured
  <2>3. IdleIsCommitted'
    BY <1>4 DEF Fail, IdleIsCommitted
  <2> QED
    BY <2>1, <2>2, <2>3 DEF ContractInv
<1>5. ASSUME NEW dt \in TimeSteps, NextBlock(dt) PROVE ContractInv'
  <2>1. [Next]_vars
    BY <1>5 DEF NextBlock, Next
  <2>2. TallyInv' /\ OpenIsUndecided' /\ NotPassedMissesRule'
    BY <1>1, <2>1, StepHolds
  <2>3. committed'.proposals = proposals' /\ committed'.ballots = ballots'
    BY <1>5 DEF ContractInv, IdleIsCommitted, NextBlock, NewBlock, txvars
  <2> QED
    BY <2>2, <2>3, CommittedHolds DEF ContractInv, IdleIsCommitted
<1>6. CASE UNCHANGED allvars
  <2>1. [Next]_vars /\ UNCHANGED <<committed, block, config, voters>>
    BY <1>6 DEF allvars, vars, configured, txvars
  <2>2. IdleIsCommitted'
    BY <1>6 DEF ContractInv, IdleIsCommitted, Idle, allvars, vars, txvars
  <2> QED
    BY <1>1, <2>1, <2>2, StepHolds, SavedStays DEF ContractInv
<1> QED
  BY <1>2, <1>3, <1>4, <1>5, <1>6 DEF TxNext, Dispatch

LEMMA AlwaysContractInv ==
    ASSUME NEW All, WellFormed(All)
    PROVE  TxSpec => [](TypeOK /\ ContractInv)
<1>1. AtomicInv(All) => AllTypes(All)
  BY DEF AtomicInv
<1>2. AllTypes(All) => TypeOK
  BY DEF AllTypes
<1>3. /\ AllTypes(All) /\ ContractInv
      /\ [TxNext]_allvars
      /\ AllTypes(All)'
      => ContractInv'
  BY NextContractInv
<1> QED
  BY <1>1, <1>2, <1>3, AlwaysAtomicInv, InitContractInv, PTL DEF TxSpec

(***************************************************************************)
(* The contract keeps its promises inside its transactions: whatever the   *)
(* messages of its proposals make it do to itself, and whatever fails and  *)
(* is undone on the way, the tallies are recounts within the total weight, *)
(* no proposal is open that its votes decide, and the absolute rules       *)
(* reject none that meets them.                                            *)
(***************************************************************************)
THEOREM TransactionsKeepTheContract ==
    ASSUME NEW All, WellFormed(All)
    PROVE  TxSpec => [](/\ TypeOK
                        /\ TallyMatchesBallots
                        /\ TallyWithinTotalWeight
                        /\ OpenIsUndecided
                        /\ AbsoluteRejectedDidNotPass)
<1>1. ContractInv => /\ TallyInv
                     /\ TallyMatchesBallots
                     /\ OpenIsUndecided
                     /\ NotPassedMissesRule
  BY DEF ContractInv, TallyInv
<1>2. NotPassedMissesRule => AbsoluteRejectedDidNotPass
  BY DEF NotPassedMissesRule, AbsoluteRejectedDidNotPass, Wronged
<1> QED
  BY <1>1, <1>2, TallyInvBounds, AlwaysContractInv, PTL

(***************************************************************************)
(* The inductive invariant of the early verdicts, of the contract and of   *)
(* the storage a rollback goes back to.                                    *)
(***************************************************************************)
SavedSure ==
    \A id \in DOMAIN committed.proposals :
        LET p == committed.proposals[id]
        IN  /\ p.status \in {"Passed", "Executed"} =>
                  \A q \in FinalTallies(p, block) : MeetsRule(q)
            /\ p.status = "Rejected" /\ ~IsExpired(p.expires, block) =>
                  \A q \in FinalTallies(p, block) : ~MeetsRule(q)

SureInv ==
    /\ SoundThreshold
    /\ PassIsSure
    /\ RejectionIsSure
    /\ SavedSure

LEMMA InitSureInv ==
    ASSUME ExactPercentages, TxInit
    PROVE  SureInv
<1>1. Init /\ committed = Storage
  BY DEF TxInit
<1>2. DOMAIN proposals = {}
  BY <1>1 DEF Init, EmptyBucket
<1>3. DOMAIN committed.proposals = {}
  BY <1>1, <1>2 DEF Storage
<1> QED
  BY <1>1, <1>2, <1>3, InitSoundThreshold
  DEF SureInv, PassIsSure, RejectionIsSure, SavedSure

LEMMA NextSureInv ==
    ASSUME NEW All, WellFormed(All), AllTypes(All), AllTypes(All)',
           ContractInv, ContractInv', SureInv, [TxNext]_allvars
    PROVE  SureInv'
<1>1. /\ TypeOK /\ TypeOK'
      /\ SoundThreshold
  BY DEF AllTypes, SureInv
<1>2. SoundThreshold'
  <2>1. config' = config
    BY DEF TxNext, Dispatch, Submit, Handle, Carry, Fail, NextBlock,
           HandlePropose, HandleVote, HandleExecute, HandleClose, Propose,
           Vote, Execute, Close, NewBlock, configured, vars, allvars
  <2> QED
    BY <1>1, <2>1 DEF SoundThreshold
<1>3. SoundProposals /\ SoundProposals'
  <2>1. SoundProposals
    BY <1>1, SoundProposalsFollow DEF ContractInv
  <2>2. TallyInv'
    BY DEF ContractInv
  <2> QED
    BY <1>1, <1>2, <2>1, <2>2, SoundProposalsFollow, PTL
<1>4. ASSUME [Next]_vars PROVE PassIsSure' /\ RejectionIsSure'
  BY <1>1, <1>3, <1>4, NextPassIsSure, NextRejectionIsSure DEF SureInv
<1>5. ASSUME committed'.proposals = proposals', PassIsSure', RejectionIsSure'
      PROVE  SavedSure'
  BY <1>5 DEF PassIsSure, RejectionIsSure, SavedSure
<1>6. ASSUME UNCHANGED <<committed, block>> PROVE SavedSure'
  BY <1>6 DEF SureInv, SavedSure
<1>7. CASE Handle \/ Carry
  <2>1. PassIsSure' /\ RejectionIsSure'
    BY <1>4, <1>7, CallIsStep
  <2>2. PICK returned : Continue(returned)
    BY <1>7 DEF Handle, Carry, HandlePropose, HandleVote, HandleExecute,
                HandleClose
  <2>3. CASE pending' = <<>>
    <3>1. committed'.proposals = proposals'
      BY <2>2, <2>3 DEF Continue, Storage
    <3> QED
      BY <1>2, <1>5, <2>1, <3>1 DEF SureInv
  <2>4. CASE pending' # <<>>
    <3>1. UNCHANGED <<committed, block>>
      BY <1>7, <2>2, <2>4
      DEF Continue, Handle, Carry, HandlePropose, HandleVote, HandleExecute,
          HandleClose, Propose, Vote, Execute, Close, vars
    <3> QED
      BY <1>2, <1>6, <2>1, <3>1 DEF SureInv
  <2> QED
    BY <2>3, <2>4
<1>8. CASE Fail
  <2>1. /\ proposals' = committed.proposals
        /\ UNCHANGED <<committed, block>>
    BY <1>8 DEF Fail
  <2>2. PassIsSure' /\ RejectionIsSure'
    BY <2>1 DEF SureInv, SavedSure, PassIsSure, RejectionIsSure
  <2> QED
    BY <1>2, <1>6, <2>1, <2>2 DEF SureInv
<1>9. ASSUME NEW dt \in TimeSteps, NextBlock(dt) PROVE SureInv'
  <2>1. [Next]_vars
    BY <1>9 DEF NextBlock, Next
  <2>2. committed'.proposals = proposals'
    BY <1>9 DEF ContractInv, IdleIsCommitted, NextBlock, NewBlock, txvars
  <2> QED
    BY <1>2, <1>4, <1>5, <2>1, <2>2 DEF SureInv
<1>10. ASSUME UNCHANGED <<vars, committed>> PROVE SureInv'
  <2>1. UNCHANGED <<committed, block>>
    BY <1>10 DEF vars
  <2> QED
    BY <1>2, <1>4, <1>6, <1>10, <2>1 DEF SureInv
<1> QED
  BY <1>7, <1>8, <1>9, <1>10 DEF TxNext, Dispatch, Submit, allvars, txvars

(***************************************************************************)
(* A verdict given early is the right one also when it is given in the     *)
(* middle of a transaction, by a vote of the contract on its own proposal, *)
(* and what a rollback takes back it takes back together with its votes.   *)
(***************************************************************************)
THEOREM NestedVerdictsAreSure ==
    ASSUME ExactPercentages, NEW All, WellFormed(All)
    PROVE  TxSpec => [](PassIsSure /\ RejectionIsSure)
<1>1. AtomicInv(All) => AllTypes(All)
  BY DEF AtomicInv
<1>2. TxInit => SureInv
  BY InitSureInv
<1>3. /\ AllTypes(All) /\ ContractInv /\ SureInv
      /\ [TxNext]_allvars
      /\ AllTypes(All)' /\ ContractInv'
      => SureInv'
  BY NextSureInv
<1>4. SureInv => PassIsSure /\ RejectionIsSure
  BY DEF SureInv
<1> QED
  BY <1>1, <1>2, <1>3, <1>4, AlwaysAtomicInv, AlwaysContractInv, PTL
  DEF TxSpec
=============================================================================
