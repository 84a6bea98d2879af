----------------------------- MODULE BrokerGraph -----------------------------
(***************************************************************************)
(* The procurement cycle: the LangGraph state machine of                   *)
(* agents/broker/broker_graph.py driving the two contracts through         *)
(* agents/broker/chain_client.py and the producers through their adapters. *)
(* One broker process runs its requirements one after the other.           *)
(*                                                                         *)
(* A node of the graph makes several calls that leave the process, and the *)
(* process may fail between any two of them, so a node is as many actions  *)
(* as it has such calls, each with the assignments the node makes up to    *)
(* the next one.  The variable node names the call about to be made.       *)
(*                                                                         *)
(* The contracts are the modules BlackRiverBroker and AuditLog themselves, *)
(* with the broker's wallet as the only sender: it is at once the broker   *)
(* of the escrow, an authorised writer of the log and, because the graph   *)
(* passes no consumer wallet to record_award(), the consumer whose tokens  *)
(* are escrowed.                                                           *)
(***************************************************************************)
EXTENDS BidEvaluation, FiniteSets

CONSTANTS
  Offers,        \* the bid each registered producer makes, in order
  WalletOf,      \* producer -> its wallet
  Criteria,      \* weights of the requirements
  Wallet,        \* the broker's wallet
  Escrow, Zero,  \* the escrow contract and address(0)
  Funds,         \* what the wallet holds and has approved to the escrow
  Cycles,        \* how many requirements are posted
  MAX_RE_EVALS,  \* BrokerGraph.MAX_RE_EVALS
  RaisingModes,  \* whether the RPC node raises when a transaction reverts
  Faults,        \* subset of {"raise", "timeout"} that may occur
  MayReject,     \* producers whose accept_award() may return False
  MayFail        \* producers whose partner may report the mission FAILED

Producer == {Offers[i].producer : i \in DOMAIN Offers}
Address == {Wallet, Escrow, Zero} \cup {WalletOf[p] : p \in Producer}
Cycle == 1 .. Cycles
\* A fresh award id for every record_award(); that two of them draw the same
\* 32 random bits is left out.
AwardId == Cycle \X (0 .. MAX_RE_EVALS)
Nobody == "nobody"
NoBid == [producer |-> Nobody, price |-> 0, available |-> FALSE,
          performance |-> 0]

ASSUME GraphAssumption ==
  /\ \A p \in Producer : WalletOf[p] \notin {Wallet, Escrow, Zero}
  /\ \A p, q \in Producer : WalletOf[p] = WalletOf[q] => p = q
  /\ \A i, j \in DOMAIN Offers :
       Offers[i].producer = Offers[j].producer => i = j
  /\ Escrow # Wallet /\ Zero # Wallet /\ Zero # Escrow
  /\ Nobody \notin Producer
  /\ Offers \in Seq(ProducerBid(Producer))
  /\ Criteria \in EvaluationCriteria
  /\ Funds \in Nat /\ Cycles \in Nat \ {0} /\ MAX_RE_EVALS \in Nat \ {0}
  /\ RaisingModes \subseteq BOOLEAN
  /\ Faults \subseteq {"raise", "timeout"}
  /\ MayReject \subseteq Producer /\ MayFail \subseteq Producer

VARIABLES
  \* the escrow and its token
  balance, allowance, totalSupply, tokenOwner, contracts, broker, owner,
  \* the audit log
  events, byRequirement, authorised, logOwner,
  \* the broker process
  node,          \* the call it makes next, or how its cycle ended
  cycle,         \* the requirement it works on
  bids,          \* state["bids"]
  chosen,        \* the bid evaluation.winner_bid_id names
  reEvals,       \* state["re_eval_count"]
  \* the world around it
  revertRaises,  \* the RPC node raises when a transaction reverts; chosen in Init
  mempool,       \* a transaction sent but not mined, if any
  mission,       \* the awarded producer's work: see ExecutionUpdate
  accepted,      \* award ids their producer accepted
  notified       \* award ids reported through on_settlement()

Chain == INSTANCE BlackRiverBroker WITH
  Eoa <- {Wallet}, Spenders <- {Escrow}, Recipients <- {Escrow},
  MaxUint <- Funds + 1, FaucetAmount <- 0, Consumers <- {Wallet},
  Payees <- Address, Brokers <- {Wallet}, Hash <- {"evidence", "zero"}, ZeroHash <- "zero",
  Deployer <- Wallet

Log == INSTANCE AuditLog WITH
  Writer <- {Wallet}, EventId <- {"event"}, RequirementId <- Cycle,
  MaxEvents <- Cycles * (3 * MAX_RE_EVALS + 7)

chainVars == <<balance, allowance, totalSupply, tokenOwner, contracts, broker,
               owner>>
logVars == <<events, byRequirement, authorised, logOwner>>
stateVars == <<cycle, bids, chosen, reEvals>>
worldVars == <<mission, accepted, notified>>
vars == <<chainVars, logVars, node, stateVars, mempool, worldVars,
          revertRaises>>

-----------------------------------------------------------------------------
(* Transactions and their fate *)

NoTx == [fn |-> "none"]

\* The messages as they go to the chain.  One that reports a payment is known
\* by its award: wallet and amount are the award's.
AuditEvent == [fn : {"logEvent"}, req : Cycle, stage : Log!Stage]
ContractAward ==
  [fn : {"createContract"}, award : AwardId, amount : Nat]
    \cup [fn : {"recordAward"}, award : AwardId, payee : Address]
DeliveryConfirmation == [fn : {"confirmDelivery"}, award : AwardId]
PaymentSettlement == AwardId
Transaction ==
  AuditEvent \cup ContractAward \cup DeliveryConfirmation
    \cup [fn : {"settlePayment"}, award : PaymentSettlement]

\* What get_status() can report of the awarded mission, once its partner's
\* words are translated; "none" before there is one.
ExecutionUpdate == {"none", "working", "complete", "failed"}

\* The broker's calls, as chain_client.py builds them.
LogTx(s) == [fn |-> "logEvent", req |-> cycle, stage |-> s]
CreateTx(id, price) == [fn |-> "createContract", award |-> id, amount |-> price]

\* Wrong on purpose: the award names the broker's own wallet.
AwardTxSelf(id, producer) ==
  [fn |-> "recordAward", award |-> id, payee |-> Wallet]

AwardTx(id, producer) ==
  [fn |-> "recordAward", award |-> id, payee |-> WalletOf[producer]]
DeliveryTx(id) == [fn |-> "confirmDelivery", award |-> id]
SettleTx(id) == [fn |-> "settlePayment", award |-> id]

\* Whether the contract would let the call through now.
Accepts(tx) ==
  \/ tx.fn = "logEvent" /\ Log!CanLog(Wallet)
  \/ /\ tx.fn = "createContract"
     /\ Chain!CanCreate(Wallet, tx.award, Wallet, tx.amount)
  \/ tx.fn = "recordAward" /\ Chain!CanRecordAward(Wallet, tx.award)
  \/ /\ tx.fn = "confirmDelivery"
     /\ Chain!CanConfirmDelivery(Wallet, tx.award, "evidence")
  \/ tx.fn = "settlePayment" /\ Chain!CanSettle(Wallet, tx.award)

\* The call takes effect.  On-chain, the actor of every event is the wallet.
Executes(tx) ==
  \/ /\ tx.fn = "logEvent"
     /\ Log!LogEvent(Wallet, "event", tx.req, tx.stage, Wallet)
     /\ UNCHANGED chainVars
  \/ /\ \/ /\ tx.fn = "createContract"
           /\ Chain!CreateContract(Wallet, tx.award, Wallet, tx.amount)
        \/ /\ tx.fn = "recordAward"
           /\ Chain!RecordAward(Wallet, tx.award, tx.payee)
        \/ /\ tx.fn = "confirmDelivery"
           /\ Chain!ConfirmDelivery(Wallet, tx.award, "evidence")
        \/ /\ tx.fn = "settlePayment"
           /\ Chain!SettlePayment(Wallet, tx.award)
     /\ UNCHANGED logVars

\* Wrong on purpose: a revert is taken for success whatever the node does.
ReturnsReverted(tx) ==
  /\ \/ Executes(tx)
     \/ ~Accepts(tx) /\ UNCHANGED <<chainVars, logVars>>
  /\ mempool' = NoTx

\* _send_tx() returns: a receipt has come.  Its status is never read, so a
\* reverted transaction returns like any other unless the node raised.  All
\* sends take the nonce of the latest block, so a transaction still waiting
\* in the mempool has been replaced by this one.
Returns(tx) ==
  /\ \/ Executes(tx)
     \/ ~Accepts(tx) /\ ~revertRaises /\ UNCHANGED <<chainVars, logVars>>
  /\ mempool' = NoTx

\* _send_tx(), or the code just before it in the same node, raises and
\* nothing is sent; also: the process is killed.  The node refuses the
\* transaction when it would revert or when its nonce is taken.
Refused(tx) ==
  /\ \/ "raise" \in Faults
     \/ ~Accepts(tx) /\ revertRaises
     \/ mempool # NoTx
  /\ UNCHANGED <<chainVars, logVars, mempool>>

\* wait_for_transaction_receipt() gives up after 120 s; the transaction may
\* still be mined.
TimesOut(tx) ==
  /\ "timeout" \in Faults
  /\ mempool' = tx
  /\ UNCHANGED <<chainVars, logVars>>

\* The exception leaves run(): the cycle is over and its state is gone.
Raises ==
  /\ node' = "raised"
  /\ UNCHANGED <<stateVars, worldVars>>

\* One call at node at: continue with Then or lose the cycle.
Call(tx, Then) ==
  \/ Returns(tx) /\ Then
  \/ (Refused(tx) \/ TimesOut(tx)) /\ Raises

GoTo(next) == node' = next /\ UNCHANGED <<stateVars, worldVars>>

\* A callback of the consumer raises after the last call of a cycle.  After
\* any other call this is the same as the next call being refused.
ConsumerRaises == "raise" \in Faults /\ Raises

CurrentAward == <<cycle, reEvals>>

-----------------------------------------------------------------------------
(* The nodes *)

AnnounceTask ==
  /\ node = "announce_task"
  /\ Call(LogTx("ANNOUNCED"), GoTo("collect_bids"))

\* The producers that can fulfil the task bid, in registration order.  An
\* empty collection routes to failure.
CollectBids ==
  /\ node = "collect_bids"
  /\ \E willing \in SUBSET DOMAIN Offers :
       Call(LogTx("BIDDING"),
            /\ bids' = Restrict(Offers, willing)
            /\ node' = IF willing = {} THEN "handle_failure"
                                       ELSE "evaluate_bids"
            /\ UNCHANGED <<cycle, chosen, reEvals, worldVars>>)

\* min() of no prices raises ValueError before anything is logged.
EvaluateBids ==
  /\ node = "evaluate_bids"
  /\ IF DOMAIN bids = {}
     THEN Raises /\ UNCHANGED <<chainVars, logVars, mempool>>
     ELSE Call(LogTx("EVALUATING"),
               /\ chosen' = Winner(bids, Criteria)
               /\ node' = "award_contract"
               /\ UNCHANGED <<cycle, bids, reEvals, worldVars>>)

\* Wrong on purpose: recordAward() is never called.
AwardContractUnrecorded ==
  /\ node = "award_contract"
  /\ Call(CreateTx(CurrentAward, chosen.price), GoTo("accept_award"))

\* _award_contract: record_award() is two transactions ...
AwardContract ==
  /\ node = "award_contract"
  /\ Call(CreateTx(CurrentAward, chosen.price), GoTo("record_award"))

RecordAward ==
  /\ node = "record_award"
  /\ Call(AwardTx(CurrentAward, chosen.producer), GoTo("accept_award"))

\* ... then the producer answers ...
AcceptAward ==
  /\ node = "accept_award"
  /\ accepted' = accepted \cup {CurrentAward}
  /\ mission' = "working"
  /\ node' = "log_award"
  /\ UNCHANGED <<chainVars, logVars, stateVars, mempool, notified>>

RejectAward ==
  /\ node = "accept_award"
  /\ chosen.producer \in MayReject
  /\ node' = "log_award"
  /\ UNCHANGED <<chainVars, logVars, stateVars, mempool, worldVars>>

\* ... or its adapter raises something other than ProducerApiError ...
AcceptRaises ==
  /\ node = "accept_award"
  /\ "raise" \in Faults
  /\ Raises
  /\ UNCHANGED <<chainVars, logVars, mempool>>

\* Wrong on purpose: the producer's answer is taken the wrong way round.
LogAwardInverted ==
  /\ node = "log_award"
  /\ Call(LogTx("AWARDED"),
          IF CurrentAward \notin accepted
          THEN GoTo("monitor_execution")
          ELSE /\ bids' = Without(bids, chosen.producer)
               /\ reEvals' = reEvals + 1
               /\ node' = IF reEvals' < MAX_RE_EVALS THEN "evaluate_bids"
                                                    ELSE "handle_failure"
               /\ UNCHANGED <<cycle, chosen, worldVars>>)

\* ... and AWARDED is logged either way.  A rejecting producer loses its bid;
\* _route_after_award tries again while attempts remain.
LogAward ==
  /\ node = "log_award"
  /\ Call(LogTx("AWARDED"),
          IF CurrentAward \in accepted
          THEN GoTo("monitor_execution")
          ELSE /\ bids' = Without(bids, chosen.producer)
               /\ reEvals' = reEvals + 1
               /\ node' = IF reEvals' < MAX_RE_EVALS THEN "evaluate_bids"
                                                    ELSE "handle_failure"
               /\ UNCHANGED <<cycle, chosen, worldVars>>)

\* Any status but COMPLETE, FAILED included, sleeps and polls again.
MonitorSleep ==
  /\ node = "monitor_execution"
  /\ mission # "complete"
  /\ UNCHANGED vars

\* Wrong on purpose: the loop waits for another terminal status.
MonitorExecutionWaits ==
  /\ node = "monitor_execution"
  /\ mission = "failed"
  /\ Call(LogTx("EXECUTING"), GoTo("confirm_delivery"))

\* The poll that leaves the loop.
MonitorExecution ==
  /\ node = "monitor_execution"
  /\ mission = "complete"
  /\ Call(LogTx("EXECUTING"), GoTo("confirm_delivery"))

\* get_status() raises, or the process is killed while polling.
MonitorRaises ==
  /\ node = "monitor_execution"
  /\ "raise" \in Faults
  /\ Raises
  /\ UNCHANGED <<chainVars, logVars, mempool>>

\* Wrong on purpose: the payment is left out.
ConfirmDeliveryUnpaid ==
  /\ node = "confirm_delivery"
  /\ Call(DeliveryTx(CurrentAward), GoTo("log_delivered"))

\* _verify_and_settle: delivery hash, payment, then the two events and the
\* consumer's notification.
ConfirmDelivery ==
  /\ node = "confirm_delivery"
  /\ Call(DeliveryTx(CurrentAward), GoTo("settle_payment"))

\* Wrong on purpose: SETTLED is logged without DELIVERED.
SettlePaymentSkips ==
  /\ node = "settle_payment"
  /\ Call(SettleTx(CurrentAward), GoTo("log_settled"))

SettlePayment ==
  /\ node = "settle_payment"
  /\ Call(SettleTx(CurrentAward), GoTo("log_delivered"))

\* Wrong on purpose: the consumer is told before SETTLED is on record.
LogDeliveredNotifies ==
  /\ node = "log_delivered"
  /\ Call(LogTx("DELIVERED"),
          /\ notified' = notified \cup {CurrentAward}
          /\ node' = "log_settled"
          /\ UNCHANGED <<stateVars, mission, accepted>>)

LogDelivered ==
  /\ node = "log_delivered"
  /\ Call(LogTx("DELIVERED"), GoTo("log_settled"))

LogSettled ==
  /\ node = "log_settled"
  /\ Call(LogTx("SETTLED"),
          \/ /\ notified' = notified \cup {CurrentAward}
             /\ node' = "settled"
             /\ UNCHANGED <<stateVars, mission, accepted>>
          \/ ConsumerRaises)

HandleFailure ==
  /\ node = "handle_failure"
  /\ Call(LogTx("FAILED"), GoTo("failed") \/ ConsumerRaises)

Over == {"settled", "failed", "raised"}

\* Wrong on purpose: the re-evaluation counter outlives its cycle.
NextRequirementKeepsCount ==
  /\ node \in Over
  /\ cycle < Cycles
  /\ cycle' = cycle + 1
  /\ node' = "announce_task"
  /\ bids' = <<>>
  /\ chosen' = NoBid
  /\ mission' = "none"
  /\ UNCHANGED <<chainVars, logVars, mempool, accepted, notified, reEvals>>

\* run() is called for the next requirement, in this process or a new one.
NextRequirement ==
  /\ node \in Over
  /\ cycle < Cycles
  /\ cycle' = cycle + 1
  /\ node' = "announce_task"
  /\ bids' = <<>>
  /\ chosen' = NoBid
  /\ reEvals' = 0
  /\ mission' = "none"
  /\ UNCHANGED <<chainVars, logVars, mempool, accepted, notified>>

-----------------------------------------------------------------------------
(* The world *)

\* What get_status() will find: a simulated mission completes with time, and
\* so may a partner's ...
MissionCompletes ==
  /\ mission = "working"
  /\ mission' = "complete"

\* ... or it ends in a FAILED that is never left.
MissionFails ==
  /\ mission = "working"
  /\ chosen.producer \in MayFail
  /\ mission' = "failed"

PartnerReports ==
  /\ MissionCompletes \/ MissionFails
  /\ UNCHANGED <<chainVars, logVars, node, stateVars, mempool, accepted,
                 notified, revertRaises>>

\* A transaction whose sender gave up on it is mined after all.
MinedLate ==
  /\ mempool # NoTx
  /\ \/ Executes(mempool)
     \/ ~Accepts(mempool) /\ UNCHANGED <<chainVars, logVars>>
  /\ mempool' = NoTx
  /\ UNCHANGED <<node, stateVars, worldVars>>

\* After deploy_local.js: the wallet is broker, authorised writer and
\* consumer; it holds Funds and has approved the escrow for them.  The
\* deployer, who owns the contracts and is authorised too, makes no further
\* call; its roles are given to the wallet, which uses none of them.
Init ==
  /\ balance = [a \in Address |-> IF a = Wallet THEN Funds ELSE 0]
  /\ allowance = [a \in Address |-> [b \in Address |->
                    IF a = Wallet /\ b = Escrow THEN Funds ELSE 0]]
  /\ totalSupply = Funds
  /\ tokenOwner = Wallet
  /\ Chain!EscrowInit(Wallet)
  /\ Log!LogInit(Wallet)
  /\ node = "announce_task"
  /\ cycle = 1
  /\ bids = <<>>
  /\ chosen = NoBid
  /\ reEvals = 0
  /\ mempool = NoTx
  /\ mission = "none"
  /\ accepted = {}
  /\ notified = {}
  /\ revertRaises \in RaisingModes

CycleStep ==
  /\ \/ AnnounceTask \/ CollectBids \/ EvaluateBids
     \/ AwardContract \/ RecordAward \/ AcceptAward \/ RejectAward
     \/ LogAward \/ MonitorSleep \/ MonitorExecution
     \/ ConfirmDelivery \/ SettlePayment \/ LogDelivered \/ LogSettled
     \/ HandleFailure
  /\ UNCHANGED revertRaises

\* An adapter raises, or the process is killed while it waits for one.
Interrupted == AcceptRaises \/ MonitorRaises

\* Every requirement has been worked off.
Finished == node \in Over /\ cycle = Cycles /\ UNCHANGED vars

Next ==
  \/ CycleStep \/ PartnerReports \/ Finished
  \/ (Interrupted \/ NextRequirement \/ MinedLate) /\ UNCHANGED revertRaises

Spec == Init /\ [][Next]_vars

\* The process keeps running between its calls, and a partner eventually
\* reports; nothing obliges an adapter to raise or a forgotten transaction to
\* be mined.
FairSpec == Spec /\ WF_vars(CycleStep) /\ WF_vars(PartnerReports)

-----------------------------------------------------------------------------
(* Properties *)

Nodes == {"announce_task", "collect_bids", "evaluate_bids", "award_contract",
          "record_award", "accept_award", "log_award", "monitor_execution",
          "confirm_delivery", "settle_payment", "log_delivered",
          "log_settled", "handle_failure"} \cup Over

\* The contracts' own type invariants hold under the broker's calls, and the
\* graph state keeps to its declaration.
TypeOK ==
  /\ Chain!TypeOK
  /\ Log!LogTypeOK
  /\ node \in Nodes
  /\ cycle \in Cycle
  /\ \A i \in DOMAIN bids : bids[i] \in ProducerBid(Producer)
  /\ chosen \in ProducerBid(Producer) \cup {NoBid}
  /\ reEvals \in 0 .. MAX_RE_EVALS
  /\ mempool \in Transaction \cup {NoTx}
  /\ mission \in ExecutionUpdate
  /\ accepted \subseteq AwardId
  /\ notified \subseteq PaymentSettlement

AwardsOf(r) == {id \in AwardId : id[1] = r}

StatusOf(id) == contracts[id].status

\* The part of the log that concerns one requirement.
Trail(r) == Log!GetEventsByRequirement(r)

Recorded(r, s) == \E i \in DOMAIN Trail(r) : Trail(r)[i].stage = s

\* A cycle that can make no further step of its own.
Ended(r) == r < cycle \/ (r = cycle /\ node \in Over)

\* on_settlement() is "called when payment has been confirmed on-chain"
\* (consumer_adapter.py:59), on any node: the award it reports is settled
\* there, and for the producer that took it on.  The code does not keep this.
SettlementConfirmed ==
  \A id \in notified : StatusOf(id) = "SETTLED" /\ id \in accepted

\* On a node that raises on a revert, an award reported through
\* on_settlement() is settled on-chain, for the producer that took it on,
\* although the client reads no receipt's status and forgotten transactions
\* of other cycles are mined at any time.
SettlementBacked == revertRaises => SettlementConfirmed

\* Money reaches a producer only for work it agreed to do, and for one award
\* of a requirement at most, whatever was rejected, retried or mined late.
PaidOnce ==
  \A r \in Cycle :
    /\ \A id \in AwardsOf(r) :
         StatusOf(id) \in {"DELIVERED", "SETTLED"} => id \in accepted
    /\ Cardinality({id \in AwardsOf(r) : StatusOf(id) = "SETTLED"}) <= 1
    /\ Cardinality(AwardsOf(r) \cap accepted) <= 1

\* Every token is accounted for: what the wallet is short of is in the escrow
\* of an open award or with the producer of a settled one, at the price bid.
Books ==
  LET total(ids) ==
        SumFunctionOnSet([id \in AwardId |-> contracts[id].amountUsdc], ids)
      created == {id \in AwardId : contracts[id].createdAt}
  IN /\ balance[Escrow] = total({id \in created : StatusOf(id) # "SETTLED"})
     /\ \A i \in DOMAIN Offers :
          LET w == WalletOf[Offers[i].producer] IN
            /\ balance[w] = total({id \in created :
                 StatusOf(id) = "SETTLED" /\ contracts[id].producer = w})
            /\ \A id \in created :
                 contracts[id].producer = w =>
                   contracts[id].amountUsdc = Offers[i].price
     /\ balance[Wallet] = Funds - total(created)

\* What a finished cycle can leave in escrow: one that settled or failed,
\* only awards that were rejected; any other open award belongs to a cycle
\* that an exception ended.
StrandedExplained ==
  \A id \in AwardId :
    (Chain!Open(id) /\ Ended(id[1])) =>
      \/ id \notin accepted
      \/ ~Recorded(id[1], "FAILED") /\ ~Recorded(id[1], "SETTLED")

\* A producer that rejected an award of a requirement is not awarded it again.
NoReaward ==
  \A r \in Cycle : \A a, b \in AwardsOf(r) :
    (a # b /\ contracts[a].producer = contracts[b].producer) =>
      contracts[a].producer = Zero

\* The public trail never claims more than the escrow did: a recorded FAILED
\* means nobody has accepted or been paid, a recorded AWARDED means an award
\* stands on-chain unless its revert went unnoticed, and EXECUTING means its
\* producer accepted it.
TrailTruthful ==
  \A r \in Cycle :
    /\ Recorded(r, "FAILED") =>
         \A id \in AwardsOf(r) : id \notin accepted /\ StatusOf(id) # "SETTLED"
    /\ (Recorded(r, "AWARDED") /\ revertRaises) =>
         \E id \in AwardsOf(r) : contracts[id].producer # Zero
    /\ Recorded(r, "EXECUTING") => AwardsOf(r) \cap accepted # {}

\* The chain as its readers see it implements the contract net protocol, on a
\* node that raises on a revert; on another, nothing is claimed.
LastStage(r) ==
  IF Trail(r) = <<>> THEN "NONE" ELSE Trail(r)[Len(Trail(r))].stage

PaidProducer(r) ==
  IF \E id \in AwardsOf(r) : StatusOf(id) = "SETTLED"
  THEN LET id == CHOOSE id \in AwardsOf(r) : StatusOf(id) = "SETTLED"
       IN  CHOOSE p \in Producer : WalletOf[p] = contracts[id].producer
  ELSE Nobody

Net == INSTANCE ContractNet WITH
  Requirement <- Cycle,
  stage <- [r \in Cycle |-> IF revertRaises THEN LastStage(r) ELSE "NONE"],
  payee <- [r \in Cycle |-> IF revertRaises THEN PaidProducer(r) ELSE Nobody]

ImplementsContractNet == Net!NetSpec

\* When the consumer is told of a settlement, the whole procurement is public,
\* from ANNOUNCED to SETTLED, and nothing is recorded of it afterwards:
\* whatever the node does with reverts and whatever is mined late.  A payment
\* whose DELIVERED or SETTLED was lost to an exception is never reported.
SettlementOnRecord ==
  \A id \in notified :
    /\ \A s \in {"ANNOUNCED", "BIDDING", "EVALUATING", "AWARDED", "EXECUTING",
                 "DELIVERED", "SETTLED"} : Recorded(id[1], s)
    /\ LastStage(id[1]) = "SETTLED"

\* Whatever is rejected, raised, timed out or mined late, every cycle that is
\* started comes to an end, unless its partner reports the mission FAILED.
CycleEndsUnlessFailed ==
  \A r \in Cycle : (cycle = r) ~> (Ended(r) \/ mission = "failed")

(* Statements of the documentation that the code does not keep *)

\* cancelContract() "to refund the consumer (e.g., no qualifying bids,
\* producer withdrawal, delivery failure)" (BlackRiverBroker.sol:20-21): the
\* escrow of a withdrawn award is not still open when its cycle is over.
WithdrawalRefunded ==
  \A id \in AwardId :
    (Ended(id[1]) /\ id \notin accepted) => ~Chain!Open(id)

\* FAILED is the "terminal failure at any stage" (cnp_messages.py:20): the
\* trail of a cycle that ended ends with SETTLED or with FAILED.
EndRecorded ==
  \A r \in Cycle :
    Ended(r) => LastStage(r) \in {"SETTLED", "FAILED"}

\* FAILED is the "terminal failure at any stage" (cnp_messages.py:20): every
\* cycle that is started comes to an end, with a failed mission too.
EveryCycleEnds == \A r \in Cycle : (cycle = r) ~> Ended(r)

=============================================================================
