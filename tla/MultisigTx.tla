----------------------------- MODULE MultisigTx -----------------------------
(***************************************************************************)
(* The contract inside the transactions of its chain.  A transaction       *)
(* brings one message; what execute_execute returns (messages: prop.msgs)  *)
(* is carried out within the same transaction, each message before the     *)
(* next, and may call the contract again, with the contract itself as      *)
(* sender.  If any part fails (a handler returns an error or aborts, a     *)
(* message to someone else fails, the gas runs out), the whole transaction *)
(* is undone.  The dispatch and the rollback are the chain's, modelled by  *)
(* what README.md:56-61 and execute_execute rely on; the handlers are the  *)
(* actions of Multisig.                                                    *)
(***************************************************************************)
EXTENDS MultisigKOfN

CONSTANTS
    Self,        \* the address of the contract
    Messages,    \* the messages accounts submit
    MaxMsgs,     \* bound: the messages of a proposal
    Retried      \* the proposals somebody keeps trying to execute

ASSUME TxAssumption ==
    /\ Self \in Addr
    /\ MaxMsgs \in Nat
    /\ Retried \subseteq 1 .. MaxProposals

\* HandleMsg, and the messages of a proposal that go to somebody else.
ProposeMsg(latest, msgs) ==
    [kind |-> "Propose", latest |-> latest, msgs |-> msgs]
VoteMsg(id, vote) == [kind |-> "Vote", id |-> id, vote |-> vote]
ExecuteMsg(id) == [kind |-> "Execute", id |-> id]
CloseMsg(id) == [kind |-> "Close", id |-> id]
OtherMsg == [kind |-> "Other"]

(***************************************************************************)
(* Every message is one of a set All that holds what accounts submit and,  *)
(* with a proposal, the messages it carries: what the JSON of HandleMsg    *)
(* and CosmosMsg can express.                                              *)
(***************************************************************************)
WellFormed(All) ==
    /\ Messages \subseteq All
    /\ \A msg \in All :
          /\ msg.kind = "Propose" =>
                msg.latest \in Latest /\ msg.msgs \in Seq(All)
          /\ msg.kind = "Vote" => msg.vote \in VoteOption

VARIABLES
    payload,     \* the msgs of the stored proposals
    sent,        \* history: how many messages of a proposal were carried out
    pending,     \* the calls of the running transaction, the next one first
    committed    \* the storage as the last transaction left it

txvars == <<payload, sent, pending, committed>>
allvars == <<vars, txvars>>

\* What a rollback restores.
Storage ==
    [ proposal_count |-> proposal_count, proposals  |-> proposals,
      ballots        |-> ballots,        dispatched |-> dispatched,
      payload        |-> payload,        sent       |-> sent ]

\* A call, and the proposal whose message it is: 0 for the one submitted.
Call(sender, of, msg) == [sender |-> sender, of |-> of, msg |-> msg]

Idle == pending = <<>>
NextCall == pending[1]

TxInit ==
    /\ Init
    /\ payload = EmptyBucket
    /\ sent = EmptyBucket
    /\ pending = <<>>
    /\ committed = Storage

----------------------------------------------------------------------------
Submit(sender, msg) ==
    /\ Idle
    /\ pending' = << Call(sender, 0, msg) >>
    /\ UNCHANGED <<vars, payload, sent, committed>>

\* One more message of the proposal the head belongs to is carried out.
CountSent(counts) ==
    IF NextCall.of = 0 THEN counts ELSE [counts EXCEPT ![NextCall.of] = @ + 1]

\* The transaction goes on with `returned' and then the rest, and is over
\* when nothing is left.
Continue(returned) ==
    /\ pending' = returned \o Tail(pending)
    /\ committed' = IF pending' = <<>> THEN Storage' ELSE committed

HandlePropose(sender, msg) ==
    /\ msg.kind = "Propose"
    /\ Propose(sender, msg.latest)
    /\ payload' = Put(payload, NextProposalId, msg.msgs)
    /\ sent' = Put(CountSent(sent), NextProposalId, 0)
    /\ Continue(<<>>)

HandleVote(sender, msg) ==
    /\ msg.kind = "Vote"
    /\ Vote(sender, msg.id, msg.vote)
    /\ sent' = CountSent(sent)
    /\ UNCHANGED payload
    /\ Continue(<<>>)

\* The messages of the proposal as calls of the contract.
Returned(id) == [i \in DOMAIN payload[id] |-> Call(Self, id, payload[id][i])]

HandleExecute(msg) ==
    /\ msg.kind = "Execute"
    /\ Execute(msg.id)
    /\ sent' = CountSent(sent)
    /\ UNCHANGED payload
    /\ Continue(Returned(msg.id))

HandleClose(msg) ==
    /\ msg.kind = "Close"
    /\ Close(msg.id)
    /\ sent' = CountSent(sent)
    /\ UNCHANGED payload
    /\ Continue(<<>>)

\* The entry point `handle' with the next call of the transaction.
Handle ==
    /\ ~Idle
    /\ \/ HandlePropose(NextCall.sender, NextCall.msg)
       \/ HandleVote(NextCall.sender, NextCall.msg)
       \/ HandleExecute(NextCall.msg)
       \/ HandleClose(NextCall.msg)

\* A message to somebody else succeeds.
Carry ==
    /\ ~Idle
    /\ NextCall.msg.kind = "Other"
    /\ sent' = CountSent(sent)
    /\ UNCHANGED <<vars, payload>>
    /\ Continue(<<>>)

\* The next call fails, whatever it is: the transaction is undone.
Fail ==
    /\ ~Idle
    /\ pending' = <<>>
    /\ proposal_count' = committed.proposal_count
    /\ proposals' = committed.proposals
    /\ ballots' = committed.ballots
    /\ dispatched' = committed.dispatched
    /\ payload' = committed.payload
    /\ sent' = committed.sent
    /\ UNCHANGED <<block, configured, committed>>

Dispatch == Handle \/ Carry \/ Fail

\* Blocks change between transactions.
NextBlock(dt) ==
    /\ Idle
    /\ NewBlock(dt)
    /\ UNCHANGED txvars

TxNext ==
    \/ \E sender \in Addr \ {Self}, msg \in Messages : Submit(sender, msg)
    \/ Dispatch
    \/ \E dt \in TimeSteps : NextBlock(dt)

TxSpec == TxInit /\ [][TxNext]_allvars

(***************************************************************************)
(* The chain finishes what it starts.  Of the Retried proposals, somebody  *)
(* submits Execute again and again, and what made it fail passes: neither  *)
(* the call itself nor the messages at the same place fail for ever.       *)
(***************************************************************************)
TryExecute(id) == \E sender \in Addr \ {Self} : Submit(sender, ExecuteMsg(id))

TakeExecute(id) ==
    /\ Handle
    /\ NextCall.of = 0
    /\ NextCall.msg = ExecuteMsg(id)

CarryOf(id, left) ==
    /\ Carry
    /\ NextCall.of = id
    /\ Len(pending) = left

TxFairness ==
    /\ WF_allvars(Dispatch)
    /\ \A id \in Retried :
          /\ SF_allvars(TryExecute(id))
          /\ SF_allvars(TakeExecute(id))
          /\ \A left \in 1 .. MaxMsgs : SF_allvars(CarryOf(id, left))

FairTxSpec == TxSpec /\ TxFairness

----------------------------------------------------------------------------
\* How many messages of the proposal the running transaction still has to do.
Outstanding(id) == Cardinality({i \in DOMAIN pending : pending[i].of = id})

(***************************************************************************)
(* All messages or none: at any moment of any transaction, through nested  *)
(* calls and rollbacks, the messages of an Executed proposal are carried   *)
(* out or still to be carried out in this transaction, each once, and of a *)
(* proposal that is not Executed none is (execute_execute saves the status *)
(* before it returns the messages).                                        *)
(***************************************************************************)
MessagesAllOrNothing ==
    \A id \in DOMAIN proposals :
        sent[id] + Outstanding(id)
            = (IF proposals[id].status = "Executed" THEN Len(payload[id]) ELSE 0)

ExecutedIds == {id \in DOMAIN proposals : proposals[id].status = "Executed"}

(***************************************************************************)
(* The messages of a proposal cannot keep a transaction going for ever,    *)
(* even those that execute their own proposal or each other: every step    *)
(* ends the transaction, leaves less to do, or uses up a proposal.         *)
(***************************************************************************)
DispatchTerminates ==
    [][ ~Idle =>
          \/ pending' = <<>>
          \/ Len(pending') < Len(pending)
          \/ Cardinality(ExecutedIds') > Cardinality(ExecutedIds) ]_allvars

Visible == INSTANCE OnceOrNever
    WITH Id      <- 1 .. MaxProposals,
         stage   <- [id \in DOMAIN committed.proposals |->
                        StageOf(committed.proposals[id].status)],
         size    <- [id \in DOMAIN committed.payload |->
                        Len(committed.payload[id])],
         effects <- committed.sent

(***************************************************************************)
(* "If the execution fails for any reason, the state update will be        *)
(* reverted, and it will remain Passed": what transactions leave behind is *)
(* what OnceOrNever allows, however calls nest and wherever they fail.     *)
(***************************************************************************)
ImplementsOnceOrNever == Visible!OSpec

\* Messages that neither call the contract nor depend on it.
Independent(msgs) == \A i \in DOMAIN msgs : msgs[i].kind = "Other"

(***************************************************************************)
(* "So you can try again": a proposal that passed is never lost, neither   *)
(* by failed attempts nor by its expiration nor by what other transactions *)
(* do; if somebody keeps trying, it is executed with all its messages.     *)
(***************************************************************************)
RetriesSucceed ==
    \A id \in Retried :
        (/\ id \in DOMAIN committed.proposals
         /\ committed.proposals[id].status = "Passed"
         /\ Independent(committed.payload[id]))
        ~> (/\ id \in DOMAIN committed.proposals
            /\ committed.proposals[id].status = "Executed")
=============================================================================
