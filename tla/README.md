# A TLA+ model of the Hedera–EVM bridge validator

The validator watches a Hedera account for deposits, signs an authorisation for
each of them, publishes the signature on a Hedera topic, collects the other
members' signatures from the topic and serves them over REST, so that the user
can mint the wrapped asset on the EVM chain. In the other direction it watches
burn events and schedules payments on Hedera. This directory models both
directions, the start of the process and the two services every goroutine
leans on (the member list and the mirror node), checks them with TLC and proves
their safety properties, action properties and refinements with TLAPS.

## 1. The system

| Component | State it keeps | Operations | Hard part |
|---|---|---|---|
| Transfer watcher (`process/watcher/transfer`) | milestone in memory and in table `status` | `Watch`, poll of the mirror node, one goroutine per transaction, save of the milestone | milestone saved before the goroutines have stored anything |
| Transfer handler, transfers service (`process/handler/transfer`, `services/transfers`) | row of `transfers` | create record, start the fee goroutine, sign and submit, record the submission, callbacks | status written after a receipt, beside other goroutines; lost receipts |
| Fee goroutine, scheduled service (`services/scheduled`, callbacks of `services/transfers`) | row of `fees` | schedule, sign an identical schedule, record, poll for the execution | runs again after a restart; schedule known to the network and not to the node |
| Message watcher (`process/watcher/message`) | milestone | poll, one message after the other to a handler | as the transfer watcher |
| Message handler, messages service (`process/handler/message`, `services/messages`) | rows of `messages`, status of the transfer | await the transfer, compare, verify, store, count, complete | many handlers at once, each operation its own database call |
| Recovery (`process/recovery`, `cmd/main.go`) | nothing of its own | intervals, missed transfers, missed messages, unfinished transfers, start of the pairs | runs before the watchers; whatever the last process left |
| Persistence (`persistence`) | the tables | single statements, no transactions | unique keys are the only mutual exclusion |
| Fee calculator and distributor (`services/fee`) | none | split of an amount | int64 |
| Burn event watcher, handler, service (`process/watcher/ethereum`, `services/burn-event`) | rows of `burn_events` and `fees` | subscribe, wait for confirmations, record, schedule the payment, callbacks, REST answer | no recovery, reorganisations, several validators meet in one schedule |
| Contracts service (`services/contracts`) | member list | first reading, subscription, refresh entry by entry, membership, wrapped asset | the contract changes between two entries, or before the subscription |
| Mirror node client (`clients/hedera/mirror-node`) | none | queries by timestamp, pollers | pages, lag, timestamps as text, answers that are refusals |
| Start of the process (`cmd`, `config`, `persistence/db.go`) | none | configuration, clients, database, services, recovery, pairs, REST only | `log.Fatal` anywhere, in main or in a goroutine |
| Authorisation (`model/auth-message`, `signer/eth`, `helper/ethereum`, `helper/memo`, `mirror-node/transaction.go`) | none | record to transfer, hash, signature, the peer's checks | sender and peer compute the same content from different sources |
| Ethereum client, REST routers, other helpers, generated code, scripts | – | I/O and conversions | – |

All goroutines of a process interact through the database only. Each pair
(watcher, handler) is started by the server; a queue hands each payload to a
handler goroutine of its own. The node learns about the world by polling the
mirror node and changes it by two calls of the Hedera client: a message to the
topic and a scheduled transaction. The REST API reads the database. The burn pipeline learns about Ethereum by a
subscription to the contract's logs and asks for block number and receipt; it
meets the other validators only in the scheduled transaction they all sign.

What makes each part correct, in one line each:

* watchers: nothing between two milestones is dropped;
* transfers service: the record says no more than what is on the ledger, nothing is published again once recorded;
* fee goroutine: a fee row tells the truth, and terminal statuses stay;
* message handlers: only members' signatures of known transfers are stored, completion needs a majority that the REST API serves, and a majority does complete;
* recovery: no gap before the watchers' start, no record left behind;
* burn events: a burn is paid once, by one schedule, and only when the chain will not take it back; the tables claim no more than what happened;
* contracts service: the copy of the member list follows the contract;
* feeds: nothing after the recovery's end is left out or handed over twice;
* start: the process comes up, whatever fails on the way;
* authorisation: what a member signs its peers accept, and all they accept is redeemed in one mint;
* fees: the bridge account backs the wrapped tokens, and every fee can be paid.

## 2. The modules

```
ConsensusLedger <- ValidatorStore <- TransferPipeline <- SignaturePipeline <- Recovery <- ValidatorNode
ValidatorNode <- MCValidatorNode                                 ValidatorNode -> (INSTANCE) SignatureQuorum
ValidatorNode <- ValidatorNodeProofs <- ValidatorNodeStepProofs <- ValidatorNodeGapProofs

EvmChain <- BurnEvents <- MCBurnEvents                           BurnEvents -> (INSTANCE) OnePayment
            BurnEvents <- BurnEventsProofs <- BurnTablesProofs

Startup <- ContractMembers <- MirrorFeed <- ValidatorProcess <- MCValidatorProcess, ValidatorProcessProofs

Fees <- BridgeAccounting <- AuthMessage <- MCBridgeAccounting
        BridgeAccounting <- BridgeAccountingProofs <- AuthMessageProofs
```

`A <- B` is: B extends A. Four models stand beside each other: the node's work on
deposits and signatures, the validators' work on burns, the life of a process with
its two outside sources, and the amounts and contents. They share no state in the
code but the tables, and of those each model keeps the rows its goroutines write.

* **ConsensusLedger** – users, peers and network (external code). `ledger` is the
  consensus order of deposits and topic messages; a consensus timestamp is a
  position in it. `scheduled` is what became of the scheduled fee transaction.
* **ValidatorStore** – the tables and one operator per SQL statement, with the
  effect of unique and foreign keys; the majority and the answer of
  `GET /transfers/{id}`.
* **TransferPipeline** – transfer watcher, transfer handler, `ProcessTransfer`, fee
  goroutine and pollers. `flow[t]` is the goroutine of a transfer: `spawned`
  (`processTransaction`), `queued` (`Handle`), `submit` (before
  `SubmitTopicConsensusMessage`), `record` (before `UpdateStatusSignatureSubmitted`).
  `feeFlow[t]` is the fee goroutine, `sigWait` the pollers of `WaitForTransaction`.
* **SignaturePipeline** – topic watcher and message handlers. `handler[i]` is the
  goroutine for the message at position `i`: `await` (`awaitTransfer`), `create`
  (before the INSERT), `count` (before `checkMajority`), `complete` (before
  `UpdateStatusCompleted`).
* **Recovery** – death and start of the process. `phase` is what `main` is doing.
* **ValidatorNode** – the composition, its fairness, its properties, the
  inductive invariant.
* **SignatureQuorum** – the abstract specification: a node collects published
  signatures, completes with a quorum, and withdraws the completion at most once,
  when it records its own signature.
* **EvmChain** – the Ethereum chain as the validators see it (external code):
  height, and block and log index of every burn. A reorganisation replaces up to
  `MaxReorg` blocks by a longer branch.
* **BurnEvents** – several validators over one chain and one set of schedules.
  `waiting[v][l]` counts the goroutines of `handleLog` for a log, `pay[v][e]` is where
  the one is that processes an event: `execute` (before the ScheduleCreate), `sign`
  (identical schedule found), `accepted` (before `UpdateStatusSubmitted`), `recordFee`,
  `refused` and `recordFailure` (`onExecutionFail`), `wait` (the poller), `settleFee`.
  `row`, `answer`, `fees` are each validator's tables, `signatures` and `outcome` the
  network's schedules.
* **OnePayment** – the abstract specification: a burn is paid at most once, and
  only after it is final.
* **Startup** – configuration and the phases of `main` up to the services.
* **ContractMembers** – the contract's list and the service's copy. `refresh` is a
  reading in progress (`updateMembers`), `updates` what the subscription delivered,
  `missed` a ghost: the list changed unheard since the last reading began.
* **MirrorFeed** – consensus time, the mirror node behind it, the queries by
  timestamp, the recovery's interval and the two polling loops. What becomes of an
  item handed over is the subject of the pipelines above.
* **ValidatorProcess** – the composition of the three, with death and restart.
* **Fees**, **BridgeAccounting** – the int64 arithmetic of the fee, and the
  balances of bridge account, wrapped token and members it leads to.
* **AuthMessage** – from the mirror node's record of a deposit to the signed
  authorisation and to what a peer compares, as operators over the deposits of
  BridgeAccounting. Texts of addresses have a spelling, their bytes have none.

Definitions under a comment "Fault" are not part of the model: each is a mistake
one could make in the operator below it, kept to check that a property notices
it. `PROJECT.json` says which property each one breaks.

### Granularity and abstractions

* A step ends where the code waits for the database or another system. Pure
  computation between two such points belongs to the step.
* Every call may fail. A failure takes the error branch of the code and one of
  `MaxErrors`; `Fault` is that choice. A failed poll restarts the loop from the
  saved milestone, which is the one in memory, so it is no step.
* The content of an authorisation is `agreed` (what this node computes from the
  record) or `other` (what a member with another `fee_percentage` computes).
  Signatures are deterministic, so a member publishes the same message again.
* A poll may answer with any prefix of what is new: paging and the mirror node's
  lag. A recovery query reads one page; `WholeAnswers` says whether that page
  holds everything before `to`.
* The recovery of one message is one step: nothing else writes `messages` then.
* An identical schedule is signed, whatever its state; a failure of that
  signature is only logged by the code and has no state.
* The validators compute the same transfers for a burn event, so an event has one
  schedule; the event's id is the schedule's memo, so two events have two. A death
  loses all goroutines at once; the network executes a schedule with the signature
  that reaches `Threshold`, or fails then.
* A burn is mined at one of `Places`; the receiver, the asset and the failed calls
  that make `handleLog` drop a log are one fault.
* In MirrorFeed a second has `Base ^ Digits` nanoseconds (10 ^ 9 in the code), and
  `AsRead` is the time the mirror node understands when it reads the text of one:
  its nanoseconds are the digits after the point, filled up with zeros.
* `log.Fatal` is the action `Die`, for a fault anywhere or for an entry of the
  member list that is gone when it is asked for.
* keccak is taken to be free of collisions and the signature to determine its
  signer: a hash is its content, a signature names its key.
* A fee row is named by its transfer, the transaction id of its schedule being
  one to one with it; `Blank` is the empty key of a failed schedule.

## 3. The runs

All passing runs set `CHECK_DEADLOCK FALSE`: idle polling is no step, so a node
with nothing to do has none, and the bounds stop the rest.

| Run | Instance | Question |
|---|---|---|
| `node_quorum` | 3 members, 1 death, no failed calls | Does `COMPLETED` always mean a served majority (`CompletedByMajority`, `CompletedIsServed`)? Is it final once the own submission is recorded (`CompletedStays`)? Does the node implement `SignatureQuorum`? |
| `node_faults` | 2 members, 2 failed calls, 1 death | Does the database ever claim what the ledger does not show (`StoredIsPublished`, `RecordedIsSubmitted`, `FeeIsTruthful`)? Do terminal fee rows stay (`FeeIsTerminal`), is a recorded signature sent again (`SubmittedOnce`)? Does `Inductive` hold? |
| `node_live` | 3 members, one misconfigured, configured interval, whole answers, 1 death, no failed calls, fairness | Is any signature the watcher passed dropped (`SignaturesInHand`)? Does anyone but recovery store what was not compared (`ForeignIsRecovered`)? Is anything before the start missing (`RecoveredDeposits`, `RecoveredSignatures`)? Does a majority complete (`MajorityCompletes`), is every record finished (`RecordedIsFinished`)? |
| `node_two` | 2 transfers, 2 members, a stranger, messages published twice | Do transfers disturb each other, is one of several in one answer dropped (`DepositsInHand`), is a stranger's signature stored (`StoredIsPublished`)? |
| `accounting` | 3 operations, 4 amounts, 2 members, 3 assets, 2 spellings, 2 keys | Does the bridge account back the wrapped tokens (`Backed`), is the fee the percentage (`FeeIsPercentage`), is everything paid (`AlwaysPaid`)? Does every peer accept and recover what a member signs (`DepositsAreAuthorised`), and has all it accepts one hash (`AcceptedContentIsOne`)? |
| `burns` | 2 validators that both have to sign, 1 burn, 2 places in blocks of different numbers, reorganisations as deep as the confirmations, 2 failures | Is a burn paid once and only when final (`ImplementsOnePayment`)? Is `COMPLETED` true (`CompletedIsPaid`), do record, fee and REST answer agree (`TablesAgree`), is a settled event left alone (`EventTakenOnce`), does an undisturbed burn settle at every validator (`BurnSettles`)? |
| `process` | 2 addresses, 2 changes or items, 4 moments of consensus time, pages of one item, a clock one off, 1 failure, fairness | Does the process come up (`ComesUp`)? Does the member list follow the contract (`MembersFollow`, `MembersCatchUp`)? Do the watchers hand over everything after the recovery (`OnlyShadowed`, `FeedsCatchUp`), and nothing twice (`NothingTwice`)? |

The bounds. One transfer is enough for everything but mutual disturbance, since
the tables and goroutines of two transfers share nothing else: `node_two` has two.
Three members are the least number where a majority is neither one nor all.
One death is enough to meet every state a restart can find; two failed calls allow
a lost receipt and a failure after it. In `node_live` the ledger holds five items, all
that the other bounds allow (a deposit, one signature of each peer, and the node's own
once in each of two lives): where liveness is checked no step waits for room. `node_two`
holds four items, enough for both deposits and two signatures. In `accounting` an 8-bit integer and a
`MaxPercentage` of 10 stand for int64 and 100000; the amounts include ones that
are not divisible by the members and ones whose fee is zero.

In `burns` a chain of four blocks holds a burn in block 1 or 2, two confirmations
and a reorganisation in between; two failures allow a lost receipt and a crash, or
two subscriptions that break. Two validators with a threshold of two are the least
with both roles, the one that creates and the one that signs, and they disagree in
every way two can. In `process` a second has four nanoseconds of two binary
digits: 0, 1, 10, 11, of which 1 is read as 10, so the text of a timestamp goes
wrong for one of four; a page of one item makes every second item another query.
One failure is one death, one broken connection, one failed query or one watcher
that does not start.

Symmetry (`PeerSymmetry`, `TransferSymmetry`) is used in runs without liveness.

**Fairness.** `FairSpec` of the node is one weak fairness: while some goroutine of the
process can go on, one of them does. That is no more than the Go scheduler gives (which is
fair to every goroutine), if every call returns or fails and a supervisor restarts the
process. It is enough, since the process has only finitely much to do between two steps of
its environment. Users, peers and the network owe nothing: `Deposit`, `Publish`, `Settle`
and `Crash` have no fairness. `accounting` has weak fairness of `PayFee` and `PayOut`: a
scheduled transfer that enough members signed is executed by the network, so `AlwaysPaid`
says that what was booked can be paid, not that the network pays it. In `burns` blocks are mined, and a validator with a goroutine that can go on
without a fault lets one of them go on (`Goroutine(v) /\ Ok`: nothing has to fail);
nobody has to burn and nothing has to be reorganised. In `process` main, the listener,
the watchers and the supervisor go on, the `log.Fatal` of a listener happens, and the mirror
node imports what reached consensus; contract and users owe nothing.

### Disagreements with the repository's own words

* `finding_terminal` – `persistence/entity/transfer/status.go` calls `COMPLETED`
  a terminal status. The submission of the own signature may return after the
  handlers have completed the transfer, and then sets `IN_PROGRESS`; no handler is
  left to complete it again. What does hold is `CompletedStays`.
* `finding_sanity` – `process/recovery/recovery.go:188` says that recovery performs sanity
  checks on the missed messages. It calls `ProcessSignature` alone (line 208), which verifies the
  signer and not the content: after one restart the signature of a member with another fee
  percentage is stored, and later counted. What does hold is `ForeignIsRecovered`: handlers
  store only what they compared; and without misconfigured members `StoredIsAgreed` (section 4).
* `finding_overflow` – the documents call the fee a percentage of the amount. The
  product `amount * feePercentage` overflows for large amounts.
* `finding_paid_twice` – `docs/overview.md` trusts that only one of the identical
  schedules is created. A reorganisation that leaves the burn's transaction in a
  block of the same number, but at another log index, gives the same burn a second
  id; both pass the confirmations, which compare block numbers only, and are paid by two schedules.
  `docs/integration.md` describes the index as the one in the receipt, which does
  not change.
* `finding_skipped` – the client's comments promise all messages after a timestamp.
  Timestamps are written without the leading zeros of their nanoseconds
  (`helper/timestamp/helper.go:52`), and the query asks for what is after a later
  time. `OnlyShadowed` and `FeedsCatchUp` say that nothing else is lost.

Read in the code, without a run of their own:

* `entity/transfer/status.go:21` says that `SIGNATURE_FAILED` is set if the submission
  fails. The code sets nothing then.
* `services/contracts/service.go:82` says that `GetMembers` returns the members
  currently set. A change between the first reading and the subscription is not
  heard of (`missed`).
* `domain/client/mirror-node.go:30` says that `from` is included; the query is `gt:`.
* `docs/configuration.md:44` says that a REST-only node exposes the REST endpoints.
  `PrepareApiOnlyServices` leaves the transfers and burn event services nil. The
  default file's key `rest-api-only` is not the one the struct has (`rest_api_only`).

## 4. The proofs

`ValidatorNodeProofs` proves, for every set of transfers, signers and members and
all bounds, from the assumptions named in the modules (the own key is a member,
members are signers and finitely many, bounds are numbers, the empty key is no transfer):

* `TypeCorrect`: `Spec => []TypeOK`
* `StoredIsAlwaysPublished`: `Spec => []StoredIsPublished`
* `RecordedIsAlwaysSubmitted`: `Spec => []RecordedIsSubmitted`
* `CompletedIsAlwaysServed`: `Spec => []CompletedIsServed`
* `NothingIsTakenBack`: no step rewrites the ledger or deletes a record or a signature.

None of the first four is inductive. That a stored signature is on the ledger
needs that the handler (or the recovery) that stores it found it there
(`HandlersOnLedger`, `BacklogOnLedger`); that the record's claim is true needs
that the goroutine that writes it, or polls for it, has seen its own message reach the ledger
(`SubmissionOnLedger`); that a completed transfer is served needs that a handler past
its checks still finds the record, the fee row and the majority it has seen
(`HandlersKnowTransfer`). All of these survive the steps of everybody else because
nothing is taken back: `NextGrows` (ledger), `NextRecordsStay` (records),
`MessagesGrow` (signatures), `FeesStay` (fee rows). The conjunction is `Inductive`;
TLC checks it in `node_faults`, `InductiveStep` proves that every step keeps it.

`ValidatorNodeStepProofs` proves what a step of the node may never do, and the quorum
behind `COMPLETED`:

* `FeesAreTruthful`: `Spec => []FeeIsTruthful`, and `FeesAreTerminal`: `Spec => FeeIsTerminal`
* `SubmittedIsFinal`: `Spec => SubmittedOnce`
* `CompletedIsFinal`: `Spec => CompletedStays`, and `OnlyRecordingWithdraws`: whatever else
  takes `COMPLETED` back is the first recording of a submission that is on the topic, which is
  all that `finding_terminal` can show
* `StoredIsAlwaysAgreed`: `ContentIsChecked => (Spec => []StoredIsAgreed)`
* `CompletedAlwaysByMajority`: `ContentIsChecked => (Spec => []CompletedByMajority)`
* `NodeImplementsQuorum`: `ContentIsChecked => (Spec => ImplementsQuorum)`

The fees need that a goroutine past its schedule is right that there is one
(`ScheduleExists`). The submissions need that a transfer whose submission is recorded is in
nobody's hand (`SubmissionOrder`: not in a goroutine, not among the unfinished ones), and that
one needs the order in which the process starts its parts (`ProcessOrder`): while `main` works
off the unfinished transfers, no watcher has started a goroutine for the same one. The content needs
that handlers past their comparison hold agreed content (`HandlersAgree`) and that recovery,
which compares nothing, recovers nothing else. That is the hypothesis: `ContentIsChecked`
says that no member is misconfigured, or that the process neither dies nor recovers. It
cannot be dropped (`finding_sanity`), and so nothing is proved of the content behind
`COMPLETED` where a misconfigured member and a restart meet; `node_quorum`, which checks
`CompletedByMajority` and the refinement, has no misconfigured member either.
For the refinement each step of the node is mapped to a step of `SignatureQuorum` or to none; its
one step with two effects (recording and withdrawal) is one step there, too. tlapm takes the
`Cardinality` of an instance for another operator, so `QuorumCardinality` identifies them first.

`ValidatorNodeGapProofs` proves what the node does not miss and does not do twice:

* `NoDepositDropped`: `Spec => [](errors = 0 => DepositsInHand)`
* `NoSignatureDropped`: `Spec => [](errors = 0 => SignaturesInHand)`
* `EveryDepositRecovered`, `EverySignatureRecovered`: with `RecoversEverything`,
  `errors = 0 => RecoveredDeposits` and `errors = 0 => RecoveredSignatures` always hold
* `ForeignIsAlwaysRecovered`: `Spec => []ForeignIsRecovered`, without `ContentIsChecked`
* `ActsOnlyOnDeposits`: a transfer this node has a record, a stored signature, a goroutine or a
  scheduled fee of was deposited, and this node's own signature comes after the deposit
  (of other members' signatures it says nothing: that they follow the deposit is a guard of `Publish`)
* `SentOncePerProcess`: a transfer's signature is sent at most once in every life of the
  process, whatever fails (copies on the topic `<= crashes + 1`).

`errors = 0` is a condition on the state, not on the constants: the theorems speak of every
behaviour up to its first failed call, through crashes and restarts. A failed INSERT
does drop a deposit, so the condition is needed; the runs of these properties have
`MaxErrors = 0`. `RecoversEverything` is the instance `node_live` checks: an interval
configured from the beginning (`RecoverFrom = 0`) and answers that hold all there is
(`WholeAnswers`); `MirrorFeed` says what is lost without them. A watcher has counted only what
is on the ledger (`WatchedIsPresent`), and a handler that counts has its message stored
(`CountedIsStored`). A recovered signature is stored because its transfer has a record, which needs that
its deposit came before it (`SignedAfterDeposit`), and so was recovered before. That only recovery
stores foreign content needs that it stores only what is before the start (`MessagesArePast`), and
`HandlersAgree` for everyone else. A fee stands for a deposit (`FeeIsOfDeposit`) because its goroutine
starts with the processing of a record (`KnownIsDeposited`). For
`SentOncePerProcess` the invariant says who may still come to send (`MaySend`): once the life's
watching has passed the one deposit of the transfer (`Passed`, `DepositedOnce`) and no goroutine is
on its way, nobody does.

TLC checked each of these invariants, conjoined, on the instances of `node_quorum`,
`node_faults`, `node_live` and `node_two` before it was proved.

`BridgeAccountingProofs` proves about the fee and the bridge account, for every integer width, percentage,
number of members and set of operations, under one condition (`NoOverflow`: no
amount times the largest percentage leaves the integers, the condition
`finding_overflow` shows to be needed):

* `SplitIsRight`: what `CalculateFee`, `ValidAmount` and their callers compute loses and
  creates nothing, can be shared, and is the percentage rounded down;
* `FeeIsAlwaysPercentage`: `AccountingSpec => []FeeIsPercentage`;
* `BookedIsPayable`: the list of transfers of every booked operation sums to zero;
* `AccountingTypeCorrect`: `AccountingSpec => []AccountingTypeOK`;
* `AlwaysBacked`: `AccountingSpec => []Backed`, and `NeverOverdrawn`: the balance is never below
  the wrapped tokens in circulation.

The invariant is `BookedRight` (every booked operation carries the split of its
amount) with the types; the arithmetic rests on the bounds of truncated division
(`QuoBounds`). `Backed` is inductive with them, but speaks of a sum over all operations,
a fold of the community modules. That changing one operation changes the
sum by the difference is an induction over finite sets. The library's induction theorems take an operator
as a parameter, which the provers cannot instantiate; `NatSetInduction` and
`SubsetInduction` state the same of a set instead, from the well-foundedness of `<` on `Nat`.

`AuthMessageProofs` builds on these, under the same condition, for every set of
assets, addresses, spellings and keys:

* `SignersAreRecovered`: from a signature in either form of V its key is recovered,
  and both forms are stored alike;
* `MembersAreAccepted`: `AccountingSpec => []DepositsAreAuthorised`;
* `OneHashIsAccepted`: `AccountingSpec => []AcceptedContentIsOne`.

The condition is used once, where the peer computes the amount from its fee row
and the member from the percentage (`BookedDepositSplit`).

`BurnEventsProofs` proves, for every number of validators, burns, places and
failures and every threshold:

* `BurnTypeCorrect`: `Spec => []BurnTypeOK`
* `CompletedIsTrue`: `Spec => []CompletedIsPaid`
* `PaidOnceUnlessReordered`: `Spec => []PaidOnce`
* `ValidatorsKeepPromise`: `Spec => ImplementsOnePayment`

the last two from `ReorgsAreShallow` (no reorganisation is deeper than the
confirmations) and `OneIndexPerBlock` (`finding_paid_twice` shows that it is needed). The
invariant is `ActedUpon`: an event that has a record, a goroutine or a signature
at any validator stands for the place where its burn is mined, that deep that
it stays there (`ConclusiveStays`). Two paid events of a burn then have one place.

`BurnTablesProofs` adds, without any assumption about the chain:

* `TablesAlwaysAgree`: `Spec => []TablesAgree`
* `EventIsTakenOnce`: `Spec => EventTakenOnce`

The invariant `RowsAgree` says what the record of an event holds where its goroutine stands
(`GoroutineAgrees`: before the schedule `INITIAL`, before the fee row `SUBMITTED` with a
transaction id, before the fee is settled what became of the schedule), and what a fee row says
of the record (`FeeAgrees`): so a statement never meets a row it would contradict, though a failure
or a crash may come between any two.

`ValidatorProcessProofs` proves, for every configuration, list of members, page size,
lag, clock skew and number of digits:

* `ProcessTypeCorrect`: `Safety => []ProcessTypeOK`
* `MembersAreCurrent`: `Safety => []MembersFollow`
* `FeedsLoseOnlyShadowed`: `Safety => []OnlyShadowed`
* `FeedsHandOverOnce`: `Safety => []NothingTwice`

For the members the invariant adds that a reading in progress has read what the
list held, unless an event of a later change waits (`ReadingFollows`); for the feeds, that
recovery hands over only what is before `to` (`RecoveredBefore`), that a watcher has
handed over what it reached but for what is shadowed (`ReachedIsHanded`), and that a
fetched page is the next one (`FetchedAreNext`). They rest on the text of a timestamp
never being read as an earlier one (`ReadNoEarlier`) and on a page holding the first of what is
asked for (`AnswerIsFirst`). `PowersArePositive` is assumed because the provers know
nothing of exponentiation; TLC evaluates it.

Every invariant, action property and refinement a passing run checks is stated by a theorem.
Model-checked only is what needs fairness, which is out of the prover's reach: `MajorityCompletes`,
`RecordedIsFinished`, `AlwaysPaid`, `BurnSettles`, `ComesUp`, `MembersCatchUp`, `FeedsCatchUp`. The
findings are counterexamples of TLC.

## 5. Not modelled

* `Amount.Int64()` of a burn event (`process/watcher/ethereum/watcher.go`): the uint256 is never
  truncated while the wrapped tokens in circulation are backed by a balance on Hedera
  (`NeverOverdrawn`), which is an int64.
* Signatures as texts: the code counts the rows of a transfer, one for each signature text; in the
  model there is one for each signer and content. They differ only for a member that signs one
  content twice with different bytes; signing is deterministic.
* HTTP, JSON, base64, protobuf and hexadecimal texts, REST routing and encoding,
  logging: what may fail in them is a failed call or a failed check of the models.
* The keys of the configuration that steer neither start nor recovery: addresses
  and credentials.
* `WaitForTransaction` of the Ethereum client (called by nobody) and its receipt
  poller (end-to-end tests only); statements of the repositories nobody calls.
* Generated code: of the Router binding only the calls the services use are
  modelled; the wrapped token's binding serves the end-to-end tests, the protobuf code
  is pure encoding.
* The set-up scripts: run once by hand before there is a bridge. The custodial key they
  create has all members as its threshold (`Threshold` in `burns`).
* End-to-end tests and mocks.

## 6. Plan

1. Two validators over the same ledger, composed from `ValidatorNode`'s promises
   (`SignatureQuorum`), and the user who mints.
2. Proofs: the safety half of the liveness properties (what `MajorityCompletes` and
   `RecordedIsFinished` need of a state from which the step must follow), and that a life of
   `MirrorFeed` provides what `WholeAnswers` assumes of a recovery.
3. Member changes inside the node's model: `Members` is a constant of
   `ValidatorNode`, and `ContractMembers` could take its place.
