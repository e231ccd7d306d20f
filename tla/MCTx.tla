-------------------------------- MODULE MCTx --------------------------------
(***************************************************************************)
(* MultisigTx for TLC: two proposals whose messages go to somebody else,   *)
(* execute each other or themselves, vote on or make a proposal.           *)
(***************************************************************************)
EXTENDS MultisigTx

CONSTANTS a, b   \* accounts

Entry(addr) == [addr |-> addr, weight |-> 1]

TwoOfTwo == << Entry(a), Entry(b) >>

\* The contract is one of its own voters: its messages can vote and propose.
WithSelf == << Entry(a), Entry(b), Entry(Self) >>

TxInitMsgs ==
    { [ voters            |-> list,
        threshold         |-> AbsoluteCount(2),
        max_voting_period |-> [kind |-> "Height", len |-> 1] ] :
      list \in {TwoOfTwo, WithSelf} }

Payloads ==
    { <<OtherMsg, OtherMsg>>,
      <<ExecuteMsg(1)>>,
      <<ExecuteMsg(2), OtherMsg>>,
      <<VoteMsg(2, "Yes"), ExecuteMsg(2)>>,
      <<ProposeMsg(NoLatest, <<OtherMsg>>), OtherMsg>>,
      <<CloseMsg(2)>> }

TxMessages ==
         {ProposeMsg(NoLatest, msgs) : msgs \in Payloads}
    \cup {VoteMsg(id, vote) : id \in 1 .. 2, vote \in {"Yes", "No"}}
    \cup {ExecuteMsg(id) : id \in 1 .. 2}
    \cup {CloseMsg(id) : id \in 1 .. 2}

TxLatest == {NoLatest}
TxGenesis == [height |-> 2, time |-> 1]

\* What is submitted, and the messages it carries.
AllMessages == TxMessages \cup {OtherMsg, ProposeMsg(NoLatest, <<OtherMsg>>)}

ASSUME MessagesAreWellFormed == WellFormed(AllMessages)
=============================================================================
