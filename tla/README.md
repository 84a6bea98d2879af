# Black River Broker: TLA+ models and proofs

TLA+ models of the Black River broker: the escrow contract, its token and its
audit log (Solidity), the procurement cycle of the broker agent that drives
them (Python), the way its transactions reach the chain, and the deployment of
it all (JavaScript and shell). The models are checked with TLC on small instances, and theorems
about them are proved with TLAPS. Paths below are relative to the repository.

## The system

| component | state it keeps | operations |
|---|---|---|
| Escrow, `contracts/BlackRiverBroker.sol` | award records, broker wallet, owner | `createContract`, `recordAward`, `confirmDelivery`, `settlePayment`, `cancelContract`, `setBroker`, ownership |
| Token, `contracts/MockUSDC.sol` | balances, allowances, supply, owner | ERC20 calls, `mint`, `faucet`, ownership |
| Audit log, `contracts/AuditLog.sol` | event array, index by requirement, writers | `logEvent`, `setAuthorised`, views |
| Broker graph, `agents/broker/broker_graph.py` | `BrokerState` of one cycle | seven nodes, two routers, the re-evaluation loop |
| Chain client, `agents/broker/chain_client.py` | none of its own; the wallet's nonce | one transaction per call: send, wait for the receipt |
| Producer adapters, `agents/producers/*.py` | ids of the last accepted order | `can_fulfil`, `submit_bid`, `accept_award`, `get_status`, `confirm_delivery` |
| Consumer adapters, `agents/consumer`, `agents/interfaces/consumer_adapter.py` | notifications seen | `on_stage_update`, `on_award`, `on_settlement` |
| Message types, `shared/cnp_messages.py` | none | validation |
| MPP server, `agents/mpp/broker_server.py` | pending challenges | HTTP endpoints around `broker.run()` |
| Deploy scripts, `scripts/deploy_*.js`, `.sh` | the env file; nonces while they run | deploy, authorise, mint, approve, write the file |
| Demo, `demo.py` | none of its own | one `broker.run()` with what the env file says |
| Mediator, `agents/interfaces/base.py` | one private thread per party | `talk_to_*`, `synthesize_deal` |

**Interaction.** `BrokerAgent.run()` takes a requirement through announce,
collect, evaluate, award, monitor, settle. It calls producers and the consumer
synchronously through their adapters. Every chain write is a transaction the
client sends and waits for. One wallet plays three parts: it is the escrow's
broker, an authorised writer of the log, and (because the graph passes no
consumer wallet) the consumer whose tokens are escrowed.

**What is hard here.**

- A node makes several external calls, and an exception between any two of them
  ends the cycle and loses its state, while the contracts keep theirs.
- A receipt can time out while the transaction is still waiting to be mined.
  Because each send uses the nonce of the latest block, the next call then
  either replaces it or is refused.
- A mined transaction may have reverted. The client never looks.
- Several processes (demos, a deploy script) may send from one account. They
  read nonces at different times and by different rules.
- A deploy script may fail between any two of its seven or eight calls, and be
  run again, while demos read the file it writes.
- A rejection comes after the award has been escrowed.
- The contracts are open to any order of calls by the broker, and the token to
  any call by anybody.

The `hazards` of `PROJECT.json` list these at their lines.

**What makes each component correct.** The escrow holds what it owes, can
always refund, moves awards forward only and pays each out once. The log's index
is exact and nothing stored changes. The broker awards within budget, by a
scoring that elects an undominated bid, and never again to a producer that
rejected; it pays at most one producer per requirement and only one that
accepted; its public trail follows the protocol and never claims more than
happened; and every cycle ends. The chain client lets each call take effect at
most once and those of an account in order, and leaves no transaction waiting
for a nonce nobody sends. A deployment is complete before a broker uses it.

## Modules

| module | models |
|---|---|
| `MockUSDC` | the token; the ERC20 and Ownable parts are external (OpenZeppelin) |
| `BlackRiverBroker` | the escrow, EXTENDS `MockUSDC`: one action per function |
| `AuditLog` | the log: one action per function, the views as operators |
| `BidEvaluation` | pure: messages, tariffs, budget check, bid, weighted total, winner |
| `Bidding` | one requirement from announcement to award over `BidEvaluation` |
| `HttpProducer` | an HTTP adapter and its partner: placing, polling and confirming awards, request by request |
| `Mediator` | a negotiation between parties with secrets: private agents, the mediating broker, the script that drives them |
| `ContractNet` | abstract specification: last recorded stage and paid producer |
| `BrokerGraph` | the whole cycle: instantiates `BlackRiverBroker`, `AuditLog` and, for the refinement, `ContractNet`; EXTENDS `BidEvaluation` |
| `CallLog` | abstract specification: calls per account, at most once and in order |
| `ChainClient` | processes, accounts, nonces and the node's mempool |
| `Deployment` | EXTENDS `ChainClient`: the deploy scripts, the env file and the demos |
| `MC*` | constants of the bounded instances |
| `*Proofs` | theorems and proofs |

**Contracts.** A transaction is atomic, so a function is one action and a
reverting call is no step; its `require`s are the action's guard, a separate
operator (`CanCreate`, `CanSettle`, ...) so that `BrokerGraph` can ask whether a
call would revert. The first argument is `msg.sender`. Timestamps are abstracted
to "set or not". Strings that the contracts store unread are left out. The
`nonReentrant` flag is left out: the token calls nobody back.

**Bidding.** The messages are record types with the fields that decide something
(`ServiceRequirement`, `TaskAnnouncement`, `ProducerBid`). The list of bids is a
function on the registration positions of the producers that bid, whose order is
the list's. `ProducersOf` and `DefaultRequirement` are what the demonstration
registers and posts. Prices are whole USDC, as all adapters quote. A weighted total is a
rational; within one evaluation all have the denominator
`100 * 100 * PriceRange`, so integer numerators compare exactly as the reals do.
Floating-point rounding of the totals is not modelled; it can only matter
between bids whose exact totals are equal or nearly so.

**Broker graph.** A node is split into one action per external call, in the
order of the code. The variable `node` names the call about to be made. Each
chain call is one of: executed; reverted, without the client noticing or raising
(`revertRaises`, chosen in `Init`: a node that mines reverted transactions, or
one that refuses them, as Hardhat does); refused before it is sent, which also stands for the process
being killed and for any exception of the code between two calls; timed out,
which leaves it in `mempool`. `MinedLate` may mine a forgotten transaction
at any later time, in the middle of the next cycle. An accepting producer
sets `mission`, which `PartnerReports` later completes (`MissionCompletes`) or
fails (`MissionFails`). What waits in `mempool` is one of the messages as the
client encodes it (`AuditEvent`, `ContractAward`, `DeliveryConfirmation`,
`PaymentSettlement`).

**HTTP producers.** `HttpProducer` is DroneDeploy's adapter or Skydio's, chosen
in `Init`, with the partner behind it. The two differ in what they place (a
project and a mission in it; one order), in their status names and in what they
do with an answer that has no id; evidence is asked by the first id, status by the
last. Such an answer may come with or without the partner having acted
(`PostAnsweredWithoutId`): DroneDeploy's adapter raises `KeyError`, Skydio's
takes the award for accepted and reports it PENDING for ever, also when nothing was
placed. Each attempt of a request is an action: answered; 429 or 5xx, after
which the policy of `_retry_policy` sends it again or gives up, and the
partner may have acted; another error status; or no usable answer, which
is not a `ProducerApiError`, so it is neither retried nor caught. The partner creates
and moves flights as the mock servers do, on polls and also on its own, and
may end them otherwise. The broker calls the adapter for one award after another,
as `run()` does; the process may be restarted at any point, which empties the
adapter. In `BrokerGraph` the same producer is a free answer, status or exception.

**Chain client.** `ChainClient` is about order, whatever the calls do. A process
builds a transaction with a nonce (`BuildTransaction`: the count of the latest
block, asked each time; `BuildCounted`: the scripts' `send()`, asked once and
counted from there), sends it (`SendRawTransaction`, `SendRaises`) and waits for
its hash (`Receipt`, `TimesOut`). Between these steps other processes act and the
node mines, replaces or drops what waits. The node is external: it takes a nonce
that is not mined yet, one transaction per account and nonce, and mines them by
turn. `BrokerGraph` keeps its own coarser picture of the same for one process:
there a call and its receipt are one step and the calls' effects are modelled.

**Deployment.** A run of the script is `StartScript`, then per call
`ScriptCall`, `ScriptGoesOn` (it sends) and `ScriptReturns`, then `WriteEnv`; it
may stop at any point (`ScriptGoesOn`) and be started again. The three scripts
differ in their calls' order and number, in who counts the nonces and in
what a missing or placeholder key does. Nothing a script calls can revert once
it is mined, so what stands on the chain is read off the mined calls and their
purpose. A demo reads the file once (`StartDemo`) and makes calls of a
cycle (`DemoCall`), any number of them. Only the wallet, the private key and the
deployment the file names matter to it.

**Mediator.** A text is the set of secrets that can be read off it; a secret is
one item of a private briefing. A language model may put anything it was shown
into its answer, and nothing else: its briefing (a party has one, the broker has
none) and its own conversation. The broker's synthesis is shown both threads, so
its proposals may hold everything. Every call may raise, which ends the script with the question
appended and unanswered. The script is `proto_interfaces.py`, the only caller.

Where `BrokerGraph` has an awarded producer's wallet, it is the real
`recordAward` of `BlackRiverBroker` that stores it, and likewise for every other
call: the contracts are the same modules that the `escrow` and
`audit_log` runs check and the proofs are about.

## Runs

| run | shows | bounds |
|---|---|---|
| `escrow` | invariants `RecordCoherent`, `EscrowApprovesNobody`, `Solvent`, `Refundable`, `SupplyConserved`; steps `Lifecycle`, `EscrowOutflow` | 2 key holders, 3 other addresses, 2 awards (symmetric), `MaxUint = 3` |
| `audit_log` | `IndexExact`, `AppendOnly` | 2 writers, 2 requirements, 3 events |
| `bidding` | `WithinBudget`, `WinnerUndominated`, `WinnerUnitFree`, `Decided`, `TypeOK` | real tariffs, 3 registrations, 4 window lengths, 10 budgets, 5 weightings |
| `http_producer` | `StatusOfAward`, `MissionInOwnProject`, `EvidenceOfAward`, `DuplicatesBounded`, liveness `AcceptReturns`, `PollingEnds` | both adapters, 2 awards, 2 attempts per request, 5 projects, missions or orders |
| `mediator` | `LeakOnlyByProposal`, `SynthesisInformed`, `QuestionsAnswered` | 2 secrets of the consumer, 1 of the producer |
| `broker_faults` | `SettlementBacked`, `PaidOnce`, `Books`, `StrandedExplained`, `NoReaward`, `TrailTruthful`, `SettlementOnRecord`, refinement of `ContractNet`, liveness `CycleEndsUnlessFailed` | 3 cycles, 2 producers, funds for fewer awards than can be made, nodes of both kinds |
| `shared_wallet` | `NeverGapped`, `DeployedBeforeUse`, refinement of `CallLog`, liveness `CallsEnd` | a script (three kinds, every filling of its env file that lets it start) run twice, 2 demos, 2 accounts, 10 calls |

Why the bounds are enough: two awards are what it takes for one to be paid with
the other's money; amounts 1 and 2 differ and sum to the supply's limit 3, and 3
is the never-reduced allowance. Three events reach an index with two entries and
a gap. Three cycles with four tokens, prices 1 and 2 and up to two rejections
per cycle exhaust balance and allowance, and leave a forgotten transaction of one
cycle to be mined in the next two. The budgets lie on and around every
adapter's price for one and three days. The HTTP adapters stop after 4 attempts
(`http_producer_base.py:61`); 2 attempts already retry, duplicate and give up,
and nothing depends on how often a request is repeated in between. Five orders hold
two awards of DroneDeploy and a duplicate, or four orders of Skydio.

In `shared_wallet` the scripts and two demos share the deployer's account unless
the broker has its own. A complete deployment takes 7 or 8 calls, which leaves 2 or 3 for
the demos or the next run; a run that fails early leaves more to the second, so
a demo of the first deployment meets the second half done, and both demos meet
each other and the script at one nonce. `NeverGapped`, `DeployedBeforeUse` and the refinement are
proved for every number of calls, runs and demos, so the run is there for their
mutants and for `CallsEnd`. It may stop when the calls are used up (`CHECK_DEADLOCK FALSE`).

Secrets do not interact: a text holds each of them or not. One for each side shows every
way one can take; the consumer's second one shows them apart. The mediator's
script has no loop, so that run is complete for these briefings
(`CHECK_DEADLOCK FALSE`, as the script ends).

Bounds that shape the environment rather than the code: `Spenders` and
`Recipients` limit whom key holders approve and pay, `Consumers` and `Payees`
whom the broker names (for payees: a wallet, address(0) and the escrow itself),
`Brokers` whom the owner appoints (the two key holders),
`MaxEvents` the length of the log.

**Violation runs.** Each checks one statement of the documentation that the code
does not keep; `findings` in `PROJECT.json` quotes it.

| run | statement | what TLC finds |
|---|---|---|
| `broker_settlement_unconfirmed` | `on_settlement` means confirmed on-chain | receipt status unread: settled without escrow |
| `broker_withdrawal` | withdrawal is refunded | rejected award's escrow stays open |
| `broker_end_unrecorded` | FAILED ends any failure | sole bidder rejects, `min()` of nothing raises |
| `broker_mission_failed` | FAILED ends any failure, so every cycle ends | a FAILED mission is polled for ever |
| `bidding_reversed` | ceiling is the most that is spent | `days or 1` against `max(days, 1)` |

The four broker runs allow no fault, so that their counterexamples need none. With
exceptions `WithdrawalRefunded` fails too when one ends the cycle after
`createContract` and before the producer answers, and `EndRecorded` when one
comes between the payment and its two events. The invariants of `broker_faults` bound what
is left then and do not exclude it: `StrandedExplained` and `Books` say which money
may stay in escrow, `TrailTruthful` and the refinement that a trail cut short claims
nothing false, `SettlementOnRecord` that no consumer is told of a settlement with
such a trail.

More statements are not kept, as is plain from the code or from a run
above. Weights are announced and scored unvalidated (`cnp_messages.py:70`
says the broker validates them). A re-evaluation logs EVALUATING and AWARDED
again (`AuditLog.sol:8` says one event per stage). A receipt that times out after the
payment leaves it without SETTLED (`AuditLog.sol:6`). `accept_award()` returns
False, which `producer_adapter.py:90` says means that the producer withdraws, also
when the partner acted on the last POST and answered it with a 5xx: the flight
goes ahead beside that of the producer awarded instead (`DuplicatesBounded`
counts such orders, nothing cancels them). It returns True, which line 89 says means
that the producer "acknowledges and commits", on any success of Skydio's without an id
(`skydio_producer.py:156`), whether or not there is an order: such an award is never
confirmed (`StatusOfAward`, `EvidenceOfAward`), but the broker polls it for ever, which
`PollingEnds` excepts (`Unfinishable`). The mediator asks the producer to
proceed (`proto_interfaces.py:255`: "confirmed client intent") without reading what the
client answered. The scripts count a nonce before the send (`deploy_local.js:54`), not
"after each successful send" (line 42); `NeverGapped` holds all the same, because
a failed send ends the script. The broker wallet does not sign
(`.env.tempo_testnet.example:24`): `demo.py:108` signs with the deployer's key, so
with a broker key of its own every call of the demo raises. After the quick start
of the repository's `README.md:36` (`deploy.ts`) no demo can make a call
(line 42) either: the file it writes has no private key, and only the consumer's
wallet approves. Nor does anything enforce the boundary of `base.py:9` at the
synthesis: it rests on the prompt, which is why `LeakOnlyByProposal` excepts
the proposal.

## Fairness

The contracts have none: nobody has to call them. Nor has `Mediator`, which has
safety properties only. `Bidding` assumes weak
fairness of its next-state relation: it is one sequential program.
`BrokerGraph!FairSpec` assumes weak fairness of `CycleStep`, the broker process,
which runs until its cycle is over (an adapter that raises is outside it: no fault is ever owed), and of `PartnerReports`: an accepted
mission eventually has a final status. That is an assumption about partners; the
simulated ones complete within seconds, while an award that Skydio's adapter accepted
without an id never gets one and lies outside `CycleEndsUnlessFailed`. `HttpProducer!FairSpec` assumes weak
fairness of `Request`: a request ends, by its timeout if not otherwise. Which
answer it gets stays free, so no fault and no success is owed.
`Deployment!FairDeploySpec` assumes the same of a demo's request to the node
(`DemoSends`) and that its wait ends (`DemoWaits`), since
`wait_for_transaction_receipt` gives up after 120 s. Nothing need be mined, and a
script, whose `tx.wait()` has no limit, may wait for ever. A forgotten transaction need never
be mined, and requirements need not be posted. `CycleEndsUnlessFailed` excepts
the cycle whose mission is reported FAILED; without the exception the property is
false, which is `broker_mission_failed`.

## Proofs

For every value of the constants, from the named assumptions of the modules.
`TokenAssumption`: address(0) exists and is no key holder, the addresses are
finitely many (20 bytes), the integer bounds are naturals. `EscrowAssumption`: the escrow's
address is no key holder and not address(0), the award ids are finitely many
(they are 32 bytes), the named sets are what their names say. `GraphAssumption`:
the broker's wallet, the escrow, address(0) and the producers' wallets are all
different, and each producer is registered once. `BiddingAssumption` types its
constants. Every safety property of a passing run is proved; each inductive
invariant is named in its module and its parts are explained there.

- `BlackRiverBrokerProofs`: `TypeOK`, `RecordCoherent`, `EscrowApprovesNobody` as
  invariants, `Lifecycle` and `EscrowOutflow` of every step. The inductive
  invariant is the conjunction of the three (`EscrowInv`). Types alone would
  allow an allowance on the escrow's account, and then `transferFrom` or
  `createContract` could lower its balance outside a payout; `RecordCoherent`
  needs the types of the fields, and its parts need each other (no delivery
  without evidence relies on none being stored before). Each of the five
  lifecycle functions has a lemma that it keeps the invariant, all through one
  lemma on rewriting one award.
  On top of it `SupplyConserved`, `Solvent` and `Refundable`. They are about sums
  over finite sets, which the community modules define by recursion. The
  library's induction theorems cannot be used with these provers, so sums are
  reasoned about by a smallest counterexample (`SmallestSubset`: the strict
  subsets of a finite set are well-founded). They exist, are unique, are
  naturals, and change by what one summand changes (`SumChanged`). `Solvent`
  follows, as the sum of open awards changes with the escrow's balance or not at
  all; `Refundable` from it, as an open award is one summand.
- `AuditLogProofs`: `LogTypeOK` and `IndexExact` are inductive together;
  `AppendOnly` follows from them, since the positions a reader follows are
  positions of the old array.
- `BrokerGraphProofs`: all eight invariants of `broker_faults` and the refinement
  of `ContractNet`, for any offers, prices, weights, funds, number of
  requirements and of re-evaluations, with every fault. None of them
  is inductive by itself: what a transaction forgotten in one cycle does when it is mined
  in another depends on why it was sent. `GraphInv` adds that.
  `MempoolInv`: the waiting transaction was *justified*, its reason lasts (a
  payment waits only for an accepted award, a FAILED only where nothing was
  accepted), and its cycle has raised. `ActiveInv`: how far the running cycle has
  got, that is the status of the current award and the last stage on record at
  each call (`CurrentInv`, `TrailAt`), and that earlier attempts were rejected
  and name no producer whose bid is still held (`AttemptsInv`). `FutureInv`:
  later requirements are untouched. `ContractsInv`: what the two contracts' own
  proofs provide, cited through `INSTANCE`. There is one lemma per transaction
  on what it does to the contracts, whoever sends it, and one per action of the
  graph; a cycle's part of the invariant speaks of its own awards only, so frame
  lemmas keep that of the others.
  For the refinement, a step does to the contracts nothing or one justified
  transaction (`ChainStep`), and such a transaction is a `Record`, a `Pay` or
  invisible to the readers of the chain (`ChainStepIsNetStep`). `Books` needs
  `GraphInv` for the payees and amounts of awards and is then kept by every
  `ChainStep` (`BooksInv`, with the lemmas on sums). `SettlementOnRecord` needs
  of `GraphInv` that every event sent follows the last one of its trail when it is
  mined: then no stage stands without the one before it (`TrailLinked`), and nothing
  follows SETTLED.
- `ContractNetProofs`: `PaidAsRecorded` and `Irrevocable` of the abstract
  protocol: no delivery on record without payment, no payment before the record
  of execution, no payment taken back, nothing after SETTLED or FAILED. As
  `BrokerGraph` implements `ContractNet`, it has these properties as seen through
  the refinement mapping (on a node that raises on reverts; of another the mapping
  claims nothing).
  The module also holds the theorems of `Bidding`: `TypeOK`, `WithinBudget`,
  `WinnerUndominated` and `WinnerUnitFree`, for any tariffs, registrations,
  budgets and weights, valid or not. `BiddingInv` says that every bid held is
  what its adapter submits for the announced task within its budget, and that
  the winner is the one the scores elect. The rest is arithmetic about
  `WeightedTotal`: it falls with the price and rises with availability and
  record, so a dominating bid scores more; and in another unit all totals are
  multiplied by one factor. `WithinBudget` assumes `Days \subseteq Nat`: with a
  window that ends before it starts it is false, which is `bidding_reversed`.
- `HttpProducerProofs`: `TypeOK`, `StatusOfAward`, `EvidenceOfAward`,
  `MissionInOwnProject` and `DuplicatesBounded`, from
  `HttpAssumption` (the bounds are naturals). The partner's orders only grow and
  keep their award (`NextGrows`), so an id stays good once it is; between
  DroneDeploy's two POSTs the project held is the new award's
  (`ProjectOfAward`), hence both ids are when polling starts (`StatusOfAward`,
  `IdsBelongTogether`), a flight being confirmed is completed
  (`ConfirmsCompleted`), and evidence inherits all three. Duplicates are bounded
  because what a request has left behind before an attempt is less than the
  attempts begun (`AttemptsCounted`).
- `ChainClientProofs`: `NeverGapped` and the refinement of `CallLog`, for any number
  of processes, accounts and calls. The invariant says that no nonce is ahead of its account's
  turn (`NonceReached`; for the scripts because a count is ahead by the call under way
  at most, `Counted`) and that those mined are behind it. Hence a transaction
  whose turn it is was issued after all of its account that were mined
  (`InTurn`): a later call that was mined has taken the turn from every earlier
  one. That is the order of `CallLog`; building a call issues it, mining executes it, the
  receipt returns it, and every other step is a stutter.
- `DeploymentProofs`: `DeployTypeOK` and `DeployedBeforeUse`, for any number of demos, runs
  and accounts, from `DeploymentAssumption` (script and demos are distinct processes, configurations
  are what `Configs` says). The script counts as done only what was mined
  (`ScriptInStep`), so the file names complete deployments only (`EnvTrusted`), so
  every call of a cycle is for one (`CyclesBacked`), also while it waits in
  the mempool; and what is mined stays mined (`Grows`). Every step of a deployment is a step of
  `ChainClient` (`DeploymentIsClient`), which carries `NeverGapped` and the order
  of calls over.
- `MediatorProofs`: `TypeOK`, `LeakOnlyByProposal`, `QuestionsAnswered` and
  `SynthesisInformed`, for any briefings. By
  itself the boundary is not inductive: a text in the script's hand could go to the
  wrong side, and the synthesis could take back an earlier permission. `Bounded` adds
  that the text in hand is fit for the party it goes to next (`InHand`) and that
  nothing is proposed before the synthesis. One lemma on a turn of a conversation
  (`TurnKept`) serves both agents and all eleven talking steps. That questions are answered
needs only the parity of each conversation (`AllAnswered`); that the
synthesis is informed needs to know which answer `main()` still holds (`Informed`).

`LogTypeOK` is checked by the runs as part of `BrokerGraph!TypeOK`, `ClientTypeOK`
and `DeployTypeOK` are proved only; every other conjunct of the inductive
invariants of the two contracts is an invariant of a run.

Only model-checked: liveness (`Decided`, `CycleEndsUnlessFailed`, `AcceptReturns`,
`PollingEnds`, `CallsEnd`), which is out of the prover's reach. The violation
runs are refuted by their counterexamples.

`MockUSDC!TokenTypeOK` types balances as naturals: that they also stay below
`MaxUint` is a consequence of `SupplyConserved`.

## Not modelled

- MPP server: it imports a name (`Location`) that `shared/cnp_messages.py` does
  not define, so its application cannot be created. Its request path is one
  synchronous `broker.run()`.
- MPP simulator: deprecated and ignored by the broker.
- Database schema: declarations nothing in the tree uses.
- LLM rationale of an award, wording of events, logging, dry-run mode, EVM gas.
- Collisions of the 32 random bits in an award id.
- `deploy.ts`, after which no demo makes a call (above), and `compile_local.js`.
- The conversion of delivery hashes (`chain_client.py:262`, `lstrip("0x")`): it goes
  wrong for a prefixed hash only, and every adapter passes the bare digest of
  `hashlib`. The conversion of prices (`chain_client.py:231`): every price in the
  tree is a whole number of USDC, for which it is exact.
- A local node that is restarted and forgets its chain while `.env.local` keeps its
  addresses, and `TEMPO_TESTNET_RPC` of the environment overriding them
  (`demo.py:82`): both depend on what lies outside the repository.
- pytempo's signing of a transaction whose key is not its sender's.
- An id that DroneDeploy answers as `null`, which its adapter would keep and not
  raise on; the mock servers' ids are strings. Without the field it raises, which is modelled.
- Choosing producers and printing in the demo; checklists and tests; the HTTP mock servers'
  authentication.

## Plan

Done in this order: token and escrow, log, bidding, abstract protocol, broker
graph, proofs of escrow, log and protocol, HTTP producers and the mediator
with their proofs, chain client and deployment with theirs, then the sums of the
escrow, the bidding, and the broker graph with its refinement. Left:

1. One model of `BrokerGraph` over `ChainClient`, in place of its own mempool, so
   that two brokers' cycles interleave call by call with their effects.
2. Of that model, that each broker's cycle implements `ContractNet` for its own
   requirements.
