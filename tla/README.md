# Verification of snip3-fixed-multisig

TLA+ modules, TLC configurations and TLAPS proofs for the fixed multisig
contract in `contracts/src` (Rust, a Secret Network port of
`cw3-fixed-multisig`). Line numbers below are of that directory unless a path
says otherwise. `PROJECT.json` maps every definition to the lines it stands for.

## 1. The system

A contract is created with a fixed list of voters and weights, a threshold and
a maximal voting period. Members make proposals that carry messages for the
chain; members vote; a proposal that passed can be executed by anyone, which
sends its messages; an expired one that did not can be closed by anyone.

| component | state | operations | talks to |
|---|---|---|---|
| handlers (`contract.rs`) | the whole storage: `config`, `voters` (address -> weight), `voters_list`, `proposal_count`, `proposals` (id -> Proposal), `ballots` (id, address -> Ballot) | `init`, `execute_propose`, `execute_vote`, `execute_execute`, `execute_close` | calls the tally, thresholds and expirations; returns messages to the chain |
| tally and verdicts (`state.rs`) | `Votes`, `status` inside a proposal | `Votes::yes/add_vote/total`, `is_passed`, `is_rejected`, `current_status`, `update_status`, `votes_needed` | called by Propose and Vote; reads the block |
| thresholds (`threshold.rs`) | none | `validate`, `to_response` | validated once, in `init`; `to_response` answers queries |
| expirations (`expiration.rs`) | none | `is_expired`, `partial_cmp`, `Duration::after` | Propose computes a deadline, Vote, Close and the verdicts compare it with the block |
| decimal arithmetic (`math.rs`) | none | `percent`, `-`, `Uint128 * Decimal` (`multiply_ratio`) | used by `votes_needed` |
| decimals as text (`math.rs`) | none of its own; the text in the message, in `config` and in every proposal | `from_str`, `Display`, `Serialize`, `Deserialize` | every save and load of a percentage |
| queries (`contract.rs`, `query.rs`) | none | the eight of `QueryMsg`: threshold, proposal, vote, voter, list and reverse list of proposals, lists of votes and voters | read the storage, have no block |
| dispatch of executed messages (the chain, README.md:56-61) | the calls still to do, the storage to go back to | carry out what `execute_execute` returns, undo all of it when any of it fails | calls the handlers again, inside the transaction of Execute |
| messages, entry points, errors (`msg.rs`, `lib.rs`, `error.rs`) | none | deserialization, the entry points `init`, `handle`, `query` | the chain |
| tooling (`schema.rs`, `deploy.js`, `tests/integration.ts`, CI) | none | deployment, schemas, drivers | not part of the contract |

**What is hard.** The chain runs one transaction at a time, so there are no data
races; the difficulty is elsewhere.

* *Order.* Anyone sends Execute and Close at any time around the deadline, and
  votes of several proposals interleave. `status` is a cached verdict: only
  Propose and Vote bring it up to date, Execute and Close trust it.
* *Re-entry and rollback.* The messages of a proposal may vote, propose and
  execute, their own proposal included, before the Execute that sent them is
  over; and whatever they did is undone when a later one fails, to be tried again.
* *Early verdicts.* `is_passed` and `is_rejected` stop a vote before its end,
  with other denominators than at the end, with rounding in `votes_needed`.
  A verdict must be right for every way the missing votes could come in.
* *Two copies of one fact.* The tally and the ballots are saved under different
  keys; so are the bucket and the list of voters, which disagree when an
  address is listed twice; `total_weight` is the sum over the list; a percentage
  is a number in memory and a text in the storage.
* *Time.* The proposer chooses the deadline: in the past, never, or in the other
  unit. A proposal must not stay open forever.
* *Widths.* u64 and u128 arithmetic is checked and aborts (`overflow-checks`,
  `panic = 'abort'` in `Cargo.toml`); an abort in a verdict blocks a proposal.
* *Page bounds.* The two paging loops mix ids with page sizes.

What makes each component correct:

* handlers: the tally is the recount of the ballots and never exceeds the total;
  messages go out exactly once; a decision is never undone and its terms never
  change; deadlines are finite and within the period; every vote ends; a
  rejected proposal did not pass.
* tally and verdicts: an early pass or rejection could not have ended otherwise;
  an open proposal is undecided, and may still pass.
* dispatch: all messages of a proposal or none, once, at every moment; a
  transaction ends; what passed can be retried until it succeeds.
* expirations: what is approved is approved before its deadline. Decimals: no
  save or load changes a percentage, no text aborts the contract, `votes_needed`
  rounds up by less than it may.
* queries: what they list adds up to the tally; a client can compute from them
  what the handlers will decide; it is known how far the pages reach.

## 2. The modules

```
Weights   DecimalMath <- DecimalText <- DecimalStore <- MCDecimals, DecimalProofs
   \         /
  Expirations  Thresholds  Tally           pure operators on records
                 |
              Multisig                     state machine of the contract
                 |
        MultisigProperties                 what it promises
         /       |        \
MultisigQueries  |     MultisigTypeProofs <- MultisigSafetyProofs <- VerdictProofs
     |           |
     |       MultisigKOfN --INSTANCE--> KOfN
     |        |      |
 MCQueries    |   MultisigTx --INSTANCE--> OnceOrNever
              |      |
       MCMultisig   MCTx
```

A line downwards reads "is extended by", and `A <- B` that B extends A. The
proofs: `ArithmeticLemmas` (over `Weights` and `DecimalMath`) is extended by
`MultisigTypeProofs` and `DecimalProofs`; `QueryProofs`, `KOfNProofs` and `TxProofs`
extend `VerdictProofs` and, each its own, `MultisigQueries`, `MultisigKOfN` and
`MultisigTx`.

**Multisig** has one variable per storage item, `block` for `env.block`, and the
history variable `dispatched`, which counts how often the messages of a proposal
were returned. A handler that returns an error or aborts leaves no trace, so an
action is enabled exactly when its handler succeeds (`CanPropose`, `CanVote`,
`CanExecute`, `CanClose` collect the early returns), and its conjuncts follow
the order of the code.

| action | code | notes |
|---|---|---|
| `Init` | `init` | empty list, `validate` and the overflow of the sum are guards; `total_weight` sums the list, the bucket keeps the last entry of an address |
| `Propose(sender, latest)` | `execute_propose` | `latest` is clipped to the period (`Never` is greater than any finite one), a deadline of the other unit is refused, a past one is accepted; the draft goes through `update_status` before it is saved; the ballot of the proposer is a Yes, of weight zero too |
| `Vote(sender, id, vote)` | `execute_vote` | the stored status must be Open, the deadline ahead, no ballot yet, weight at least 1; then the tally and `update_status` |
| `Execute(id)` | `execute_execute` | the stored status must be Passed, whatever the deadline |
| `Close(id)` | `execute_close` | the stored status must not be Executed, Rejected or Passed, the deadline behind |
| `NewBlock(dt)` | the chain | one height up, the clock by one of `TimeSteps` |

Any account sends any message at any time. Execute and Close check no sender, so
they carry none. `Expirations` models `partial_cmp` by the two answers
`execute_propose` asks for. `Tally` holds the verdicts;
`StatusComputable` is the guard that no call of `votes_needed` on the branches
taken overflows.

**DecimalMath** keeps the width and the rounding of `votes_needed`: the product
is cut to `PRECISION_FACTOR` digits, then rounded up. The truncation is
deliberate in the code (2/3 given with 18 digits is slightly more than 2/3), and
the verdict properties are stated for percentages without such excess digits.

**DecimalText** is `from_str` and `Display`. A text is the sequence of its parts
between dots; a part is a number and how many characters spell it, or garbled.
That is what the code looks at, and it is where the leading and trailing zeros
of a fraction matter. `Part` says that no part spells a number with more digits
than it has characters. `FromStrAborts` is the case of the one product of
`from_str` that is not a checked operation. **DecimalStore** is the life of a
percentage: `Receive` (the message is deserialized), then `Save` and `Load`
(`Display`, `from_str`) any number of times.

**Weights** counts unit votes instead of folding: a weight sum is the
cardinality of a set of units, which makes sums over disjoint sets facts about
cardinalities, within reach of the provers. For the same reason the powers of ten
of `DecimalText` and the loop of `list_votes` are recursive functions.

**KOfN** is the abstract multisig: members approve, each once; a proposal is
approved exactly when enough weight approved; what is approved runs once; what
is not may be dropped. It knows no blocks, tallies or ballots. `MultisigKOfN` maps
the approvers to the recounted Yes ballots and the stage to the stored status.

**MultisigTx** puts `Multisig` inside the transactions of its chain. `pending` is
the stack of calls the running transaction still has to do (each with its sender
and the proposal whose message it is), `committed` the storage it started from,
`payload` the messages of the proposals, and the history variable `sent` counts
those carried out.

| action | stands for | notes |
|---|---|---|
| `Submit(sender, msg)` | the chain starts a transaction | one message per transaction; only when no other is running |
| `Handle` | `handle` with the next call | `HandlePropose/Vote/Execute/Close` are the actions of `Multisig`; what Execute returns goes in front of the other calls, with the contract as its sender; the last call commits |
| `Carry` | a message to somebody else succeeds | it touches nothing of the contract |
| `Fail` | the next call fails | the error or abort of a handler, a message to somebody else, or the gas; the storage is `committed` again |
| `NextBlock(dt)` | the chain | between transactions |

`Fail` is always possible: gas may run out anywhere. The stack, the rollback and
the sender are the chain's, modelled from README.md:56-61 and the `messages`
field `execute_execute` returns; they are marked external in the map. A Propose
beyond the bound `MaxProposals` can only fail, which adds no behaviour that gas
would not. `WellFormed(All)` says what messages are: a set that contains, with a
proposal, the messages it carries.

**OnceOrNever** is what the README promises of execution: a proposal takes effect
as a whole and once, or stays approved. `MultisigTx` implements it by what its
transactions leave behind (`committed`).

**MultisigQueries** has one operator per query and `Query` for the entry point. A
listing loads a sequence of ids, and an id without a record makes the query an
error, as `load` does. `ListVotes` is the loop of `list_votes`: `PushVote` is one
turn of it.

## 3. The runs

CHECK_DEADLOCK is FALSE throughout: a behaviour stops at the horizon `MaxU64` once
all proposals are made and decided, which is the bound's doing.

| run | properties | what it shows |
|---|---|---|
| `core_safety` | `TypeOK`, `TallyMatchesBallots`, `TallyWithinTotalWeight`, `ExecutedExactlyOnce`, `ExpiryWithinPeriod`, `DecisionIsFinal` | two proposals in every interleaving of three accounts, with equal votes and with an address listed twice |
| `verdicts` | `PassIsSure`, `RejectionIsSure`, `OpenIsUndecided`, `AbsoluteRejectedDidNotPass` | six thresholds, weights 2, 1, 1 and 0, both units of time, every kind of `latest`: no early verdict could have ended differently, and a stored status is no worse than out of date |
| `k_of_n` | `ImplementsKOfN`, `VotingEnds` | AbsoluteCount contracts refine `KOfN`; every proposal is decided or expires, whatever `latest` was |
| `tx` | `MessagesAllOrNothing`, `DispatchTerminates`, `ImplementsOnceOrNever`, `RetriesSucceed` | nested calls, failures anywhere, rollbacks and retries: all messages of a proposal or none, and what passed is not lost |
| `queries` | `ListedVotesAreTheTally`, `ClientsCanDecide`, `NewestFirst`, `PagesReach` | without repeated addresses the listed votes are the tally, the answers of the queries and the block determine every verdict and every vote, reading from the newest proposal back never fails, and the other pages reach so far and no further |
| `decimals` | `PercentageSurvives`, `StoredTextLoads`, `FromStrReturns`, `VotesNeededIsTight` | every text: parsed without rounding or aborting, unchanged by saves and loads, and the votes it asks for are the share rounded up |
| `quorum_close` | `RejectedDidNotPass` (violated) | finding 1 |
| `hopeless_open` | `OpenMayStillPass` (violated) | finding 2 |
| `abstain_pass` | `PassedHasSupport` (violated) | finding 3 |
| `heavy_weights` | `MembersCanPropose` (violated) | finding 4 |
| `repeated_voter` | `ListedVotesAreTheTally` (violated) | finding 5 |
| `late_approval` | `ApprovedOnTime` (violated) | finding 6 |

**Bounds and why they are enough.**

* *Accounts and weights.* Two to four accounts. In `verdicts` weights 2, 1, 1, 0:
  every threshold used is reached by several coalitions, missed by one vote, and
  made unreachable by No; weight zero proposes and does not vote.
* *Proposals.* Two in `core_safety` (nothing in the handlers relates three), one
  where the property is about a single verdict, two in `tx` (a proposal that
  acts on itself and one that acts on the other, in both directions), three in
  the queries, to exceed a page of two (the code's 30 and 10 are scaled to
  `MAX_LIMIT` and `DEFAULT_LIMIT` 2).
* *Payloads of `tx`.* Six, of up to `MaxMsgs` 2 messages: two to somebody else; an
  Execute of the first proposal (itself, if it is the first); an Execute of the
  second and one to somebody else; a Vote and an Execute on the second; a Propose
  and one to somebody else; a Close. The contract is a voter in one of the two
  instances, so its messages' votes and proposals succeed there and fail in the
  other. `Retried` is {1}; period one block and `MaxU64` 3, so that attempts
  come before and after the deadline.
* *Percentages.* `DECIMAL_FRACTIONAL` 1000 and `PRECISION_FACTOR` 100 instead of 10^18
  and 10^9: whole percents lose no digit in either, so the roundings are those
  of the code. `MaxU128` is large enough not to matter, except in `heavy_weights`,
  which takes a 4-bit u64 and an 8-bit u128 with `DECIMAL_FRACTIONAL *
  PRECISION_FACTOR` larger than `MaxU128 / MaxU64`, as 10^27 is larger than 2^64.
* *Decimals.* Two digits behind the dot, one digit of precision, `MaxU128` 2999:
  whole parts from zero to beyond the width with and without leading zeros, all
  fractions of one and two digits, longer ones, garbled parts, no dot and two
  dots; weights up to `MaxWeight` 20.
* *Time.* `MaxU64` (3 to 5) is the width of height and time and the horizon.
  Periods are 1 to 3 blocks or seconds, so a run sees the time before, at and
  after the deadline. `TimeSteps` {0, 2} lets the clock stand still or jump over
  a deadline.

**Mutants.** For each property of a passing run one plausible bug is kept next to
the definition it changes ("Mutant:" in a comment): a dropped check for a second
vote, a forgotten `update_status`, heads counted for weights, an id taken before
the count is raised, and so on. Each breaks its property.

**Fairness.** `FairSpec` (`k_of_n`, `late_approval`) assumes only that the chain keeps making
blocks: weak fairness of `NewBlock`, with a clock that advances. Nobody is obliged
to vote, execute or close, so `VotingEnds` says that a vote is decided or *can* be
closed, not that it is. `FairTxSpec` (run `tx`) assumes that the chain finishes
what it starts (weak fairness of `Dispatch`), and, for the `Retried` proposals
only, what "so you can try again" (README.md:61) takes for granted: somebody
keeps sending Execute, and neither that call nor the message at any one place
fails for ever (strong fairness of each, since each is enabled only while such a
transaction runs). `RetriesSucceed` is about proposals whose messages go to
somebody else; that Close, the deadline, or other transactions never take such a
proposal away is what the property adds to these assumptions.

## 4. Findings

1. **A quorum proposal that passes at its deadline is rejected.** `execute_close`
   (contract.rs:233) rejects every expired proposal stored as Open, and
   `execute_execute` (contract.rs:195) takes only a stored Passed; neither calls
   `update_status`. The documentation of the quorum rule (threshold.rs:158-160)
   says such a proposal "would be considered successful". Without a further vote
   it can only be rejected. The run shows one Yes and one Abstain of three at
   51 percent with a quorum of 50: one Yes is not enough of the two opinions
   there may be, and is all of the opinions there are at the end. `AbsoluteRejectedDidNotPass` shows that the two
   absolute rules are not affected.
2. **Hopeless proposals stay open.** `is_rejected` (state.rs:158) looks at No alone
   and rounds the complementary share up, so Veto votes, or a tie at 51 percent,
   never reject early, against its comment (state.rs:156-157). `RejectionIsSure`
   shows that the error is on the safe side.
3. **A proposal without support passes** when all the weight abstains: the share
   of zero is zero (state.rs:135-136). It takes a proposer of weight zero:
   with none such it cannot happen (`PassesHaveSupport`).
4. **Large weights block the contract.** `votes_needed` (state.rs:231) exceeds a u128
   for weights above about 3.4e11 divided by the percentage as a fraction; `init`
   accepts them and every Propose aborts. `LightMembersCanPropose` gives the limit:
   up to a total weight of about 3.4e11 no verdict on a new proposal overflows,
   under any threshold.
5. **A repeated address is listed twice** by `list_votes` (contract.rs:401), with the
   weights of the list instead of the ballot. The tally itself stays right:
   `core_safety` includes a repeated address, and the theorems cover them all.
   Nothing else sets list and tally apart (`VotesAddUpToTheTally`).
6. **A proposal can be approved after its expiration.** `execute_propose` accepts a
   `latest` in the past (contract.rs:90); the proposal is expired when it is made,
   nobody but its proposer can vote on it, and `update_status` decides it at once
   by the rule for expired votes. `execute_execute` takes for granted that a
   Passed proposal was "approved on time" (contract.rs:193-194). The run shows a
   member with 2 of 4 votes, a quorum of 50 and a threshold of 51 percent: with a
   deadline ahead the proposal would be Open (3 of 4 are needed), with one behind
   it is Passed, and anyone can execute it. Under the absolute rules the proposer
   gains nothing, as their verdict is the same before and after. A deadline in
   the past, or a voting period of length zero, is the only way to it
   (`PassesAreOnTime`).

Not counted as findings, since no comment or document claims otherwise:

* *Pages.* `list_proposals` compares an id with the page size (contract.rs:316), so
  a proposal with an id above 30 is on none of its pages. `reverse_proposals`
  counts past the first id (contract.rs:348): a page that asks for more
  proposals than are left is an error instead of a short page, and a client that
  walks down to the first has to ask for fewer. `PagesReach` states both bounds
  exactly, and `NewestFirst` that the page from the newest back never fails.
* *The generic Threshold query.* query.rs:25-27 says it "does not provide valid
  information for existing proposals", since the rules may have changed since.
  In this contract only `init` writes `config`, and every proposal keeps the terms
  of its making (`DecisionIsFinal`, `TermsOfConfig` of the proofs), so the two
  answers never differ. No property relies on it: `ClientsCanDecide` takes the
  threshold from the answer about the proposal, as that comment asks.

## 5. The proofs

Every theorem holds for all values of the constants that satisfy the assumptions
named in the modules (`U64Assumption`, `DecimalAssumption`, `TextAssumption`,
`StoreAssumption`, `MultisigAssumption`, `TxAssumption`, `QueryAssumption`): a finite
set of accounts, any set of well-typed `InitMsg` values (repeated addresses
included), any deadlines, any time steps, any texts. What else a theorem assumes
is in the last column.

| theorem | module | states | assumes |
|---|---|---|---|
| `TypeCorrect` | `MultisigTypeProofs` | `TypeOK` | |
| `TallyIsARecount` | `MultisigSafetyProofs` | `TallyMatchesBallots` | |
| `TallyNeverExceedsTotal` | `MultisigSafetyProofs` | `TallyWithinTotalWeight` | |
| `MessagesGoOutOnce` | `MultisigSafetyProofs` | `ExecutedExactlyOnce` | |
| `DeadlinesAreReached` | `MultisigSafetyProofs` | `ExpiryWithinPeriod` | |
| `DecisionsAreFinal` | `MultisigSafetyProofs` | `DecisionIsFinal` | |
| `OpenProposalsAreUndecided` | `VerdictProofs` | `OpenIsUndecided` | |
| `AbsoluteRulesRejectRightly` | `VerdictProofs` | `AbsoluteRejectedDidNotPass` | |
| `EarlyPassesAreSure` | `VerdictProofs` | `PassIsSure` | `ExactPercentages` |
| `EarlyRejectionsAreSure` | `VerdictProofs` | `RejectionIsSure` | `ExactPercentages` |
| `LightMembersCanPropose` | `VerdictProofs` | `MembersCanPropose` | `LightWeights` |
| `PassesHaveSupport` | `VerdictProofs` | `PassedHasSupport` | `NobodyWeighsNothing` |
| `PassesAreOnTime` | `VerdictProofs` | `ApprovedOnTime` | `PeriodsTakeTime`, `[][DeadlinesAhead]_vars` |
| `CountContractsAreKOfN` | `KOfNProofs` | `ImplementsKOfN` | `CountContracts` |
| `NewestPagesLoad` | `QueryProofs` | `NewestFirst` | `ErrorIsNoPage` |
| `VotesAddUpToTheTally` | `QueryProofs` | `ListedVotesAreTheTally` | `ListsNameOnce` |
| `ClientsKnowEnough` | `QueryProofs` | `ClientsCanDecide` | `ListsNameOnce`, `LightWeights`, `AnswersAreAnswers` |
| `PagesReachThisFar` | `QueryProofs` | `PagesReach` | `ErrorIsNoPage`, `NoneIsNoNumber` |
| `NoRounding` | `DecimalProofs` | `PercentageSurvives` | |
| `SavedIsLoaded` | `DecimalProofs` | `StoredTextLoads` | |
| `FromStrNeverAborts` | `DecimalProofs` | `FromStrReturns` | |
| `VotesNeededRoundsUp` | `DecimalProofs` | `VotesNeededIsTight` | |
| `MessagesGoOutTogether` | `TxProofs` | `MessagesAllOrNothing` | `WellFormed(All)` |
| `TransactionsAreOnceOrNever` | `TxProofs` | `ImplementsOnceOrNever` | `WellFormed(All)` |
| `TransactionsEnd` | `TxProofs` | `DispatchTerminates` | `WellFormed(All)` |
| `TransactionsKeepTheContract` | `TxProofs` | `TypeOK`, `TallyMatchesBallots`, `TallyWithinTotalWeight`, `OpenIsUndecided`, `AbsoluteRejectedDidNotPass`, of `TxSpec` | `WellFormed(All)` |
| `NestedVerdictsAreSure` | `TxProofs` | `PassIsSure`, `RejectionIsSure`, of `TxSpec` | `WellFormed(All)`, `ExactPercentages` |

* `ExactPercentages`: the percentages of `InitMsgs` have no digits that
  `votes_needed` cuts off, at most nine decimals in the code. With more digits
  it rounds down on purpose, and a pass may come a fraction of a vote early.
* `LightWeights`: the total weight of every `InitMsg` times `PRECISION_FACTOR` and
  1.0 fits a u128, a total of about 3.4e11 in the code. `init` does not check it,
  which is finding 4; the theorem is the other side of that finding. A client
  cannot see this overflow coming from the answers of the queries, which is why
  `ClientsKnowEnough` needs it too.
* `NobodyWeighsNothing`: no voter is listed with weight zero. `init` does not check
  it either; without it there is finding 3.
* `PeriodsTakeTime`, `DeadlinesAhead`: the voting periods of `InitMsgs` are not zero,
  and every Propose comes with a deadline that is not over, or with none. The
  code checks neither, which is finding 6.
* `ListsNameOnce`: no list of voters names an address twice; without it there is
  finding 5. The theorems on the tally do not need it.
* `CountContracts`: all `InitMsgs` have an AbsoluteCount threshold.
* `WellFormed(All)`: messages are what `HandleMsg` can express, nested to any
  depth. `MCTx` has TLC evaluate it for the messages of the run.
* `ErrorIsNoPage`, `AnswersAreAnswers`, `NoneIsNoNumber`: the values that stand for a
  failed query and for None are no answers and no arguments, as the variants of
  a Rust `Result` and `Option` are none.

*The tally.* `TypeOK` is inductive by itself. `TallyWithinTotalWeight` is not: a state
whose tally is already at the total has a successor that exceeds it, unless one
knows that each ballot was counted. The inductive invariant is `TallyInv`:

* `VotersWithinTotal`, the weights of the bucket add up to at most `total_weight`
  (less when an address is repeated: each address of the bucket is charged to
  its last entry in the list);
* `TermsOfConfig`, each proposal has the threshold and total of the contract;
* `TallyMatchesBallots`, each side of a tally is the weight of its voters.

The voters of the four sides are disjoint subsets of the bucket, so the four
sums add up to at most the weight of the bucket, hence `TallyWithinTotalWeight`.
`ArithmeticLemmas` has the facts about sums: empty set, one more key, subset, union
of disjoint sets, same weights. The lemmas `ProposeEffect`, `VoteEffect`,
`ExecuteEffect` and `CloseEffect` say once what an action does to each variable, and
the preservation lemmas cite them. `DecisionIsFinal` needs in addition
`NeverPending`, that no stored proposal has the unused status Pending, which Close
would accept.

*The verdicts.* `ArithmeticLemmas` brackets `votes_needed` by the exact share from
both sides (`VotesNeededAtMost`, `VotesNeededAtLeast`); the second needs
`NoExcessDigits`. From them `PassedMeetsRule` and `RejectedMissesRule` relate
`is_passed` and `is_rejected`, with their own denominators and rounding, to the
plain rule that `PassIsSure` and `RejectionIsSure` ask of every final tally.
`Fate` says what a step can do to a stored proposal: nothing, a fresh verdict in
this block, Execute or Close. A proposal decided earlier keeps its tally, so its
final tallies only get fewer as time goes by (`FinalTalliesShrink`); one decided
now is the case of the lemmas. `SoundProposals` carries what they need: a tally
within the total, percentages at most one and without excess digits. The
invariant behind `AbsoluteRejectedDidNotPass` is `NotPassedMissesRule`, which
says of Open proposals too that their tally misses the rule; without it Close
could reject one that meets it. `OpenIsUndecided` is inductive: while a proposal
is not expired the verdict does not depend on the block (`VerdictBeforeExpiration`),
under the absolute rules it never does (`AbsoluteVerdictTimeless`), so time can
only turn an Open status that was current into one that hides a rejection
(`StaysUpToDate`).

*How far findings reach.* Every product of `votes_needed` is at most that of the
total weight and 1.0 (`LightProductsFit`), since the tally is within the total
and `validate` lets no percentage or quorum exceed one; so light contracts never
overflow. `ProposerSupports` is the invariant of `PassesHaveSupport`: the Yes of the
proposer is never taken out of the tally. `PassesAreOnTime` follows the two actions
that give a verdict: a vote is only taken before the expiration, and a proposal
made by the limit of the contract is not expired in its first block
(`LimitIsAhead`).

*K of N.* `KInv` adds `ApprovedByCount` to `TallyInv`: a proposal is or was Passed
exactly when its Yes tally reaches the threshold. With it Vote and Propose map to
the approval of a member, Execute to the run of an approved proposal, Close to
dropping one that is not.

*Queries.* The listed votes are computed by a loop, so their sum is proved by
induction over the entries of the list: after `n` turns the list holds the
weights of those of the first `n` voters who have a ballot (`PushVoteSum`). That
this is the tally needs `ListIsBucket`, that the list and the bucket are two
copies of one thing, and `TallyMatchesBallots`. `ClientsKnowEnough` compares the
stored proposal with the one a client rebuilds: they differ in representation
alone (`RebuiltLooksLike`), and the verdict reads nothing else (`SameVerdict`).

*Decimals.* `NumberKept` is the inductive invariant: the number in memory is what
the received text spells, and the stored text parses to it. Its core is that
`from_str` inverts `Display` (`DisplayIsInverted`): `Display` drops zeros at the end
of a fraction and keeps those behind the dot, `from_str` multiplies by the power
of ten for the digits that are missing, and the two powers make up
`DECIMAL_FRACTIONAL` (`PowerOfTenAdds`).

*Induction.* `NatSetInduction` is proved from the well-foundedness of `<` on `Nat`
(a set of counterexamples has a least element), so it speaks of sets of numbers
and not of predicates. That a recursive function satisfies its equation is not
a definition but a fact: `RecursionHasSolution` shows that a function with the
equations exists, so that the CHOOSE behind the definition finds one
(`PowerOfTenRecursion`, `ListVotesLoop`).

*Transactions.* `MessagesAllOrNothing` is not inductive: `Fail` goes back to
`committed`, about which it says nothing. `AtomicInv` adds `CommittedAllOrNothing`
(the committed messages are all carried out), the types, and `SinceCommitted`
(since the commit no proposal went back a stage, none vanished, and none changed
its messages). The counting lemmas (`ContinuedCalls`) say how many calls of a
proposal are pending when one is replaced by the calls it returned. A commit with
nothing pending is then one `Step` of `OnceOrNever`, and every other step a
stutter. `TransactionsEnd`: an Execute uses up a proposal, of which there are
finitely many, and every other call shortens the stack.

*The contract inside transactions.* A call that succeeds is a step of `Multisig`
(`CallIsStep`), so what was proved of its steps carries over; a rollback is not.
`ContractInv` therefore says of the storage to go back to what it says of the
current one (`SavedInv`: tallies, terms, open verdicts, the absolute rules), in the
current block. That is inductive because blocks are made between transactions
only, when both storages are the same (`IdleIsCommitted`). `SureInv` does the same
for the early verdicts.

**Only model-checked.** The liveness properties `VotingEnds` and `RetriesSucceed`:
they rest on fairness, that is, on when an action is enabled, which is beyond the
prover. Their safety side is proved: deadlines are finite and within the period
(`DeadlinesAreReached`), what is approved is never lost (`TransactionsAreOnceOrNever`).
The properties of the runs that expect a violation are false as they stand; the
theorems above say under which condition five of the six do hold
(`AbsoluteRulesRejectRightly` does so for `quorum_close`). `OpenMayStillPass`,
finding 2, has no such theorem yet.

## 6. What is not modelled

* JSON, addresses, log attributes and the text of errors: no property is about
  them, and a refused message is an action that is not enabled.
* Title and description of a proposal, and what a message to somebody else does.
* `permille`, `from_ratio`, and the operators and the text form of
  `Uint128`, and `Add`, `Mul` and `plus_one` of deadlines and durations: no handler
  calls them. The printing of expirations and
  thresholds.
* The hand-over of memory in the wasm entry points of `lib.rs`.
* Several messages in one transaction of the chain: `Submit` brings one. More
  would only make more calls share a rollback, as those of a proposal do.
* Tooling, schemas and integration tests hold no state of the contract.

## 7. Plan

Done: all of the contract's operations as actions, its transactions, its
queries and its decimals, both abstract specifications with the proofs that
they are implemented, and theorems for every safety and action property of the
passing runs. What could follow:

1. The composition of `MultisigTx` with `KOfN`: nested votes and executions are
   several steps of `KOfN` in one transaction, so `KOfN` would need a step that
   joins them.
2. The boundary of finding 2: which proposals that cannot pass any more stay open,
   and exactly which quorum proposals Close takes away (finding 1).
