-------------------------- MODULE BrokerGraphProofs --------------------------
(* What the procurement cycle guarantees for every list of offers, every     *)
(* number of requirements and of re-evaluations, and every budget, with any  *)
(* reverts, exceptions and transactions mined late.                          *)
EXTENDS BrokerGraph, FiniteSetTheorems, NaturalsInduction, TLAPS

\* What is proved of the two contracts, with the graph's wallet as sender.
EP == INSTANCE BlackRiverBrokerProofs WITH
  Eoa <- {Wallet}, Spenders <- {Escrow}, Recipients <- {Escrow},
  MaxUint <- Funds + 1, FaucetAmount <- 0, Consumers <- {Wallet},
  Payees <- Address, Brokers <- {Wallet}, Hash <- {"evidence", "zero"}, ZeroHash <- "zero",
  Deployer <- Wallet

LP == INSTANCE AuditLogProofs WITH
  Writer <- {Wallet}, EventId <- {"event"}, RequirementId <- Cycle,
  MaxEvents <- Cycles * (3 * MAX_RE_EVALS + 7)

-----------------------------------------------------------------------------
(* The inductive invariant *)

\* The contracts are in order, and the broker's wallet has kept its roles.
ContractsInv ==
  /\ EP!EscrowInv
  /\ EP!Solvent
  /\ broker = Wallet
  /\ LP!LogInv
  /\ authorised = {Wallet}

\* An award that names a producer names one that offered its price, and is
\* delivered only if its producer took it on.
AwardInv(id) ==
  /\ StatusOf(id) # "CANCELLED"
  /\ StatusOf(id) \in {"AWARDED", "DELIVERED", "SETTLED"} =>
       \E i \in DOMAIN Offers :
         /\ contracts[id].producer = WalletOf[Offers[i].producer]
         /\ contracts[id].amountUsdc = Offers[i].price
  /\ StatusOf(id) \in {"DELIVERED", "SETTLED"} => id \in accepted

\* Two awards of one requirement are not both accepted and name two producers.
PairInv(a, b) ==
  (a[1] = b[1] /\ a # b) =>
    /\ ~(a \in accepted /\ b \in accepted)
    /\ contracts[a].producer = contracts[b].producer =>
         contracts[a].producer = Zero

SomeAwardStands(r) == \E id \in AwardsOf(r) : contracts[id].producer # Zero
SomeAccepted(r) == \E id \in AwardsOf(r) : id \in accepted
SomePaid(r) == \E id \in AwardsOf(r) : StatusOf(id) = "SETTLED"
AcceptedClosed(r) ==
  \A id \in AwardsOf(r) : id \in accepted => ~Chain!Open(id)

\* What a recorded stage says of the escrow.
TrailInv(r) ==
  /\ Recorded(r, "FAILED") => ~SomeAccepted(r)
  /\ Recorded(r, "AWARDED") /\ revertRaises => SomeAwardStands(r)
  /\ Recorded(r, "EXECUTING") => SomeAccepted(r)
  /\ Recorded(r, "SETTLED") => AcceptedClosed(r)

CyclesInv ==
  /\ \A id \in AwardId : AwardInv(id)
  /\ \A a, b \in AwardId : PairInv(a, b)
  /\ \A r \in Cycle : TrailInv(r)

\* Whatever a transaction finds when it is mined, what it does is in order:
\* each has been sent with good reason, and the reason lasts.
LogJustified(r, s) ==
  /\ <<LastStage(r), s>> \in Net!Succession
  /\ s = "AWARDED" /\ revertRaises => SomeAwardStands(r)
  /\ s = "FAILED" => ~SomeAccepted(r)
  /\ s = "EXECUTING" => SomeAccepted(r)
  /\ s \in {"DELIVERED", "SETTLED"} =>
       AcceptedClosed(r) /\ (revertRaises => SomePaid(r))

AwardJustified(id, producer) ==
  /\ Chain!Exists(id) =>
       \E i \in DOMAIN Offers :
         producer = Offers[i].producer /\ contracts[id].amountUsdc = Offers[i].price
  /\ \A other \in AwardsOf(id[1]) :
       other # id => contracts[other].producer # WalletOf[producer]

IsLogTx(tx, r, s) == tx = [fn |-> "logEvent", req |-> r, stage |-> s]

Justified(tx) ==
  \/ \E r \in Cycle, s \in Log!Stage : IsLogTx(tx, r, s) /\ LogJustified(r, s)
  \/ \E id \in AwardId, i \in DOMAIN Offers :
       tx = CreateTx(id, Offers[i].price) /\ id \notin accepted
  \/ \E id \in AwardId, producer \in Producer :
       tx = AwardTx(id, producer) /\ id \notin accepted /\ AwardJustified(id, producer)
  \/ \E id \in AwardId : tx = DeliveryTx(id) /\ id \in accepted
  \/ \E id \in AwardId :
       tx = SettleTx(id) /\ id \in accepted /\ LastStage(id[1]) = "EXECUTING"

TxCycle(tx) == IF tx.fn = "logEvent" THEN tx.req ELSE tx.award[1]

\* A transaction still waiting belongs to a cycle that raised.
MempoolInv ==
  \A tx \in {mempool} \ {NoTx} :
    /\ Justified(tx)
    /\ \/ TxCycle(tx) < cycle
       \/ TxCycle(tx) = cycle /\ node = "raised"

NotifiedInv == SettlementBacked

\* Nothing has happened yet for the requirements to come.
FutureInv ==
  /\ \A id \in AwardId :
       id[1] > cycle => ~Chain!Exists(id) /\ id \notin accepted
  /\ \A r \in Cycle : r > cycle => Trail(r) = <<>>

\* The last stage on record when a call is about to be made.
StagesAt(n) ==
  CASE n = "announce_task" -> {"NONE"}
    [] n = "collect_bids" -> {"ANNOUNCED"}
    [] n \in {"evaluate_bids", "handle_failure"} -> {"BIDDING", "AWARDED"}
    [] n \in {"award_contract", "record_award", "accept_award", "log_award"} ->
         {"EVALUATING"}
    [] n = "monitor_execution" -> {"AWARDED"}
    [] n \in {"confirm_delivery", "settle_payment", "log_delivered"} ->
         {"EXECUTING"}
    [] n = "log_settled" -> {"DELIVERED"}
    [] OTHER -> {}

Unplaced == {"announce_task", "collect_bids", "evaluate_bids",
             "award_contract", "handle_failure"}
Choosing == {"award_contract", "record_award", "accept_award", "log_award"}
Executing == {"monitor_execution", "confirm_delivery", "settle_payment",
              "log_delivered", "log_settled"}

\* How far the current award has got, if its creation was not reverted.
StatusAt(n) ==
  CASE n = "record_award" -> "CREATED"
    [] n \in {"accept_award", "log_award", "monitor_execution",
              "confirm_delivery"} -> "AWARDED"
    [] n = "settle_payment" -> "DELIVERED"
    [] OTHER -> "SETTLED"

CurrentInv(id) ==
  /\ node \in Unplaced => ~Chain!Exists(id)
  /\ node \in Unplaced \cup {"record_award", "accept_award"} => id \notin accepted
  /\ node \in Executing => id \in accepted
  /\ node \notin Unplaced =>
       /\ revertRaises => Chain!Exists(id)
       /\ Chain!Exists(id) => StatusOf(id) = StatusAt(node)
  /\ (node = "record_award" /\ Chain!Exists(id)) =>
       contracts[id].amountUsdc = chosen.price
  /\ (node \in {"accept_award", "log_award"} /\ Chain!Exists(id)) =>
       contracts[id].producer = WalletOf[chosen.producer]

\* The awards of the current requirement before and after the current one:
\* the rejected ones name no producer whose bid is still held.
AttemptsInv(id) ==
  \A other \in AwardsOf(id[1]) :
    /\ other[2] > id[2] => ~Chain!Exists(other) /\ other \notin accepted
    /\ other[2] < id[2] =>
         /\ other \notin accepted
         /\ \A i \in DOMAIN bids :
              contracts[other].producer # WalletOf[bids[i].producer]

TrailAt(r) ==
  /\ LastStage(r) \in StagesAt(node)
  /\ ~Recorded(r, "FAILED") /\ ~Recorded(r, "SETTLED")

\* Where a running cycle stands, id being its current award.
ActiveInv(id) ==
  /\ CurrentInv(id)
  /\ AttemptsInv(id)
  /\ TrailAt(id[1])
  /\ node \in {"announce_task", "collect_bids"} => reEvals = 0
  /\ node # "handle_failure" => reEvals < MAX_RE_EVALS
  /\ node \in Choosing => \E i \in DOMAIN bids : chosen = bids[i]

\* The state of the graph is what its nodes put there.
StateInv ==
  /\ node \in Nodes
  /\ cycle \in Cycle
  /\ DOMAIN bids \subseteq DOMAIN Offers
  /\ \A i \in DOMAIN bids : bids[i] = Offers[i]
  /\ chosen = NoBid \/ \E i \in DOMAIN Offers : chosen = Offers[i]
  /\ reEvals \in 0 .. MAX_RE_EVALS
  /\ mission \in ExecutionUpdate
  /\ accepted \subseteq AwardId
  /\ notified \subseteq AwardId
  /\ revertRaises \in BOOLEAN

GraphInv ==
  /\ ContractsInv
  /\ CyclesInv
  /\ MempoolInv
  /\ NotifiedInv
  /\ StateInv
  /\ FutureInv
  /\ node \notin Over => \A id \in AwardId : id = CurrentAward => ActiveInv(id)

-----------------------------------------------------------------------------
(* The constants of the contracts *)

LEMMA OffersType ==
  /\ DOMAIN Offers = 1 .. Len(Offers) /\ Len(Offers) \in Nat
  /\ \A i \in DOMAIN Offers :
       /\ Offers[i] \in ProducerBid(Producer)
       /\ Offers[i].producer \in Producer
       /\ Offers[i].price \in Nat /\ Offers[i].performance \in Nat
<1> DEFINE Offer == ProducerBid(Producer)
<1>1. Offers \in Seq(Offer)
  BY GraphAssumption
<1>2. \A o \in Offer : /\ o.producer \in Producer
                       /\ o.price \in Nat /\ o.performance \in Nat
  BY DEF ProducerBid
<1> HIDE DEF Offer
<1>3. /\ DOMAIN Offers = 1 .. Len(Offers) /\ Len(Offers) \in Nat
      /\ \A i \in DOMAIN Offers : Offers[i] \in Offer
  BY <1>1
<1> QED
  BY <1>2, <1>3 DEF Offer

LEMMA FiniteAddresses == IsFiniteSet(Address) /\ IsFiniteSet(AwardId)
<1>1. IsFiniteSet(DOMAIN Offers)
  BY FS_Interval, OffersType
<1>2. IsFiniteSet({WalletOf[p] : p \in Producer})
  <2> DEFINE W == {WalletOf[p] : p \in Producer}
             f == [i \in DOMAIN Offers |-> WalletOf[Offers[i].producer]]
  <2>1. f \in Surjection(DOMAIN Offers, W)
    BY DEF Surjection, Producer
  <2> HIDE DEF f, W
  <2> QED
    BY <1>1, <2>1, FS_Surjection DEF W
<1>3. IsFiniteSet({Wallet, Escrow, Zero})
  <2>1. /\ {Wallet} = {} \cup {Wallet}
        /\ {Wallet, Escrow} = {Wallet} \cup {Escrow}
        /\ {Wallet, Escrow, Zero} = {Wallet, Escrow} \cup {Zero}
    OBVIOUS
  <2>2. IsFiniteSet({Wallet})
    BY FS_Singleton
  <2>3. IsFiniteSet({Wallet, Escrow})
    BY <2>1, <2>2, FS_AddElement
  <2> QED
    BY <2>1, <2>3, FS_AddElement
<1>4. IsFiniteSet(Address)
  BY <1>2, <1>3, FS_Union DEF Address
<1>5. IsFiniteSet(Cycle) /\ IsFiniteSet(0 .. MAX_RE_EVALS)
  <2>1. Cycles \in Int /\ MAX_RE_EVALS \in Int /\ 0 \in Int /\ 1 \in Int
    BY GraphAssumption
  <2> QED
    BY <2>1, FS_Interval DEF Cycle
<1>6. IsFiniteSet(AwardId)
  BY <1>5, FS_Product DEF AwardId
<1> QED
  BY <1>4, <1>6

\* What the modules of the contracts assume of their constants.
LEMMA ContractAssumptions ==
  /\ EP!IsFiniteSet(Address) /\ EP!IsFiniteSet(AwardId)
  /\ Zero \in Address /\ Wallet \in Address \ {Zero}
  /\ Escrow \in Address \ {Wallet, Zero}
  /\ Funds + 1 \in Nat
<1>1. \A S : IsFiniteSet(S) <=> EP!IsFiniteSet(S)
  BY Zenon DEF IsFiniteSet, EP!IsFiniteSet
<1> QED
  BY <1>1, FiniteAddresses, GraphAssumption DEF Address

-----------------------------------------------------------------------------
(* What the five calls do *)

\* The invariants of the contracts, in the words of the graph.
LEMMA ContractsFacts ==
  ASSUME ContractsInv
  PROVE  /\ contracts \in [AwardId -> Chain!ProcurementContract]
         /\ balance \in [Address -> Nat]
         /\ broker = Wallet
         /\ \A id \in AwardId :
              /\ contracts[id].producer \in Address
              /\ contracts[id].amountUsdc \in Nat
              /\ StatusOf(id) \in Chain!Status
              /\ ~Chain!Exists(id) => contracts[id] = Chain!NoContract
              /\ StatusOf(id) = "CREATED" => contracts[id].producer = Zero
              /\ Chain!Exists(id) => contracts[id].amountUsdc > 0
<1>1. /\ contracts \in [AwardId -> EP!ProcurementContract]
      /\ balance \in [Address -> Nat]
      /\ EP!RecordCoherent
  BY DEF ContractsInv, EP!EscrowInv, EP!TypeOK, EP!EscrowTypeOK, EP!TokenTypeOK
<1>2. contracts \in [AwardId -> Chain!ProcurementContract]
  BY <1>1 DEF EP!ProcurementContract, Chain!ProcurementContract,
              EP!Status, Chain!Status, EP!Amount, Chain!Amount
<1>3. ASSUME NEW id \in AwardId
      PROVE  /\ contracts[id].producer \in Address
             /\ contracts[id].amountUsdc \in Nat
             /\ StatusOf(id) \in Chain!Status
  BY <1>2, ContractAssumptions DEF Chain!ProcurementContract, Chain!Amount, StatusOf
<1>4. ASSUME NEW id \in AwardId
      PROVE  /\ ~Chain!Exists(id) => contracts[id] = Chain!NoContract
             /\ StatusOf(id) = "CREATED" => contracts[id].producer = Zero
             /\ Chain!Exists(id) => contracts[id].amountUsdc > 0
  BY <1>1 DEF EP!RecordCoherent, EP!NoContract, Chain!NoContract, Chain!Exists, StatusOf
<1> QED
  BY <1>1, <1>2, <1>3, <1>4 DEF ContractsInv

\* A step of the escrow keeps the invariants of both contracts.
LEMMA EscrowStep ==
  ASSUME ContractsInv, EP!LifecycleNext, UNCHANGED <<broker, logVars>>
  PROVE  ContractsInv'
<1>1. [EP!Next]_EP!vars
  BY DEF EP!Next
<1>2. EP!EscrowInv' /\ EP!Solvent'
  BY <1>1, EP!NextEscrowInv, EP!SolventStep, ContractAssumptions DEF ContractsInv
<1>3. LP!LogInv'
  BY DEF ContractsInv, LP!LogInv, LP!LogTypeOK, LP!IndexExact, logVars
<1> QED
  BY <1>2, <1>3 DEF ContractsInv, logVars

\* createContract(): the award comes into being, in CREATED.
LEMMA CreateExecuted ==
  ASSUME ContractsInv, NEW id \in AwardId, NEW price \in Nat,
         Executes(CreateTx(id, price))
  PROVE  /\ ContractsInv'
         /\ UNCHANGED logVars
         /\ ~Chain!Exists(id) /\ Chain!Exists(id)'
         /\ contracts' = [contracts EXCEPT ![id] =
              [Chain!NoContract EXCEPT !.consumer = Wallet,
                                       !.amountUsdc = price, !.createdAt = TRUE]]
         /\ balance' = Chain!Moved(Wallet, Escrow, price)
         /\ Chain!CanMove(Wallet, Escrow, price)
<1>1. /\ Chain!CreateContract(Wallet, id, Wallet, price)
      /\ UNCHANGED logVars
  BY DEF Executes, CreateTx
<1>2. price \in EP!Amount
  BY <1>1, ContractAssumptions
     DEF ContractsInv, EP!EscrowInv, EP!TypeOK, EP!TokenTypeOK, EP!Amount,
         Chain!CreateContract, Chain!CanCreate, Chain!CanSpend
<1>3. EP!CreateContract(Wallet, id, Wallet, price)
  BY <1>1
     DEF Chain!CreateContract, Chain!CanCreate, Chain!CanSpend, Chain!CanMove,
         Chain!OnlyBroker, Chain!Exists, Chain!TransferFrom, Chain!Spent,
         Chain!Moved, Chain!NoContract,
         EP!CreateContract, EP!CanCreate, EP!CanSpend, EP!CanMove,
         EP!OnlyBroker, EP!Exists, EP!TransferFrom, EP!Spent, EP!Moved,
         EP!NoContract
<1>4. EP!LifecycleNext
  BY <1>2, <1>3 DEF EP!LifecycleNext
<1>5. ContractsInv'
  BY <1>1, <1>4, EscrowStep DEF Chain!CreateContract
<1>6. Chain!Exists(id)'
  BY <1>1, ContractsFacts DEF Chain!CreateContract, Chain!Exists, Chain!NoContract
<1> QED
  BY <1>1, <1>5, <1>6
     DEF Chain!CreateContract, Chain!CanCreate, Chain!TransferFrom

\* recordAward(): an award in CREATED names its producer.
LEMMA AwardExecuted ==
  ASSUME ContractsInv, NEW id \in AwardId, NEW producer \in Producer,
         Executes(AwardTx(id, producer))
  PROVE  /\ ContractsInv'
         /\ UNCHANGED logVars /\ UNCHANGED balance
         /\ Chain!Exists(id) /\ StatusOf(id) = "CREATED"
         /\ contracts' = [contracts EXCEPT ![id].producer = WalletOf[producer],
                                           ![id].status = "AWARDED"]
<1>1. /\ Chain!RecordAward(Wallet, id, WalletOf[producer])
      /\ UNCHANGED logVars
  BY DEF Executes, AwardTx
<1>2. EP!RecordAward(Wallet, id, WalletOf[producer])
  BY <1>1
     DEF Chain!RecordAward, Chain!CanRecordAward, Chain!OnlyBroker,
         Chain!Exists, Chain!tokenVars, EP!RecordAward, EP!CanRecordAward,
         EP!OnlyBroker, EP!Exists, EP!tokenVars
<1>3. EP!LifecycleNext
  BY <1>2 DEF EP!LifecycleNext, Address
<1>4. ContractsInv'
  BY <1>1, <1>3, EscrowStep DEF Chain!RecordAward
<1> QED
  BY <1>1, <1>4
     DEF Chain!RecordAward, Chain!CanRecordAward, Chain!tokenVars, StatusOf

\* confirmDelivery(): an award in AWARDED gets its evidence.
LEMMA DeliveryExecuted ==
  ASSUME ContractsInv, NEW id \in AwardId, Executes(DeliveryTx(id))
  PROVE  /\ ContractsInv'
         /\ UNCHANGED logVars /\ UNCHANGED balance
         /\ Chain!Exists(id) /\ StatusOf(id) = "AWARDED"
         /\ contracts' = [contracts EXCEPT ![id].deliveryHash = "evidence",
                                           ![id].status = "DELIVERED"]
<1>1. /\ Chain!ConfirmDelivery(Wallet, id, "evidence")
      /\ UNCHANGED logVars
  BY DEF Executes, DeliveryTx
<1>2. EP!ConfirmDelivery(Wallet, id, "evidence")
  BY <1>1
     DEF Chain!ConfirmDelivery, Chain!CanConfirmDelivery, Chain!OnlyBroker,
         Chain!Exists, Chain!tokenVars, EP!ConfirmDelivery,
         EP!CanConfirmDelivery, EP!OnlyBroker, EP!Exists, EP!tokenVars
<1>3. EP!LifecycleNext
  BY <1>2 DEF EP!LifecycleNext
<1>4. ContractsInv'
  BY <1>1, <1>3, EscrowStep DEF Chain!ConfirmDelivery
<1> QED
  BY <1>1, <1>4
     DEF Chain!ConfirmDelivery, Chain!CanConfirmDelivery, Chain!tokenVars, StatusOf

\* settlePayment(): an award in DELIVERED is paid.
LEMMA SettleExecuted ==
  ASSUME ContractsInv, NEW id \in AwardId, Executes(SettleTx(id))
  PROVE  /\ ContractsInv'
         /\ UNCHANGED logVars
         /\ Chain!Exists(id) /\ StatusOf(id) = "DELIVERED"
         /\ contracts' = [contracts EXCEPT ![id].status = "SETTLED",
                                           ![id].settledAt = TRUE]
         /\ balance' = Chain!Moved(Escrow, contracts[id].producer,
                                   contracts[id].amountUsdc)
         /\ Chain!CanMove(Escrow, contracts[id].producer,
                          contracts[id].amountUsdc)
<1>1. /\ Chain!SettlePayment(Wallet, id)
      /\ UNCHANGED logVars
  BY DEF Executes, SettleTx
<1>2. EP!SettlePayment(Wallet, id)
  BY <1>1
     DEF Chain!SettlePayment, Chain!CanSettle, Chain!OnlyBroker, Chain!Exists,
         Chain!CanMove, Chain!Transfer, Chain!Moved,
         EP!SettlePayment, EP!CanSettle, EP!OnlyBroker, EP!Exists, EP!CanMove,
         EP!Transfer, EP!Moved
<1>3. EP!LifecycleNext
  BY <1>2 DEF EP!LifecycleNext
<1>4. ContractsInv'
  BY <1>1, <1>3, EscrowStep DEF Chain!SettlePayment
<1> QED
  BY <1>1, <1>4
     DEF Chain!SettlePayment, Chain!CanSettle, Chain!Transfer, StatusOf

\* The trail of a requirement is a sequence of events.
Trailing(q) ==
  /\ Trail(q) \in Seq(LP!AuditEvent)
  /\ Len(Trail(q)) = Len(byRequirement[q])
  /\ Len(byRequirement[q]) \in Nat
  /\ DOMAIN Trail(q) = 1 .. Len(byRequirement[q])
  /\ \A i \in 1 .. Len(byRequirement[q]) :
       Trail(q)[i] = events[byRequirement[q][i]]

LEMMA TrailType == ContractsInv => \A q \in Cycle : Trailing(q)
<1> SUFFICES ASSUME ContractsInv, NEW q \in Cycle
             PROVE  Trailing(q)
  OBVIOUS
<1> DEFINE t == Trail(q)
           m == Len(byRequirement[q])
<1>1. /\ events \in Seq(LP!AuditEvent)
      /\ byRequirement[q] \in Seq(1 .. Len(events))
  BY DEF ContractsInv, LP!LogInv, LP!LogTypeOK
<1>2. /\ m \in Nat /\ DOMAIN t = 1 .. m
      /\ \A i \in 1 .. m : t[i] = events[byRequirement[q][i]]
  BY <1>1 DEF Trail, Log!GetEventsByRequirement
<1>3. \A i \in 1 .. m : t[i] \in LP!AuditEvent
  BY <1>1, <1>2
<1>4. t = [i \in 1 .. m |-> t[i]]
  BY <1>2 DEF Trail, Log!GetEventsByRequirement
<1> HIDE DEF t, m
<1>5. t \in Seq(LP!AuditEvent) /\ Len(t) = m
  <2>1. t \in [1 .. m -> LP!AuditEvent]
    BY <1>3, <1>4
  <2> QED
    BY <2>1, <1>2
<1> QED
  BY <1>2, <1>5 DEF t, m, Trailing

\* What a reader of a trail learns depends on the trail alone.
LEMMA TrailFacts ==
  ASSUME ContractsInv, NEW q \in Cycle
  PROVE  /\ Trail(q) = <<>> <=> Len(byRequirement[q]) = 0
         /\ Trail(q) = <<>> => /\ LastStage(q) = "NONE"
                               /\ \A s : ~Recorded(q, s)
         /\ LastStage(q) \in Log!Stage \cup {"NONE"}
         /\ Recorded(q, LastStage(q)) \/ LastStage(q) = "NONE"
<1>1. /\ Trail(q) \in Seq(LP!AuditEvent)
      /\ Len(Trail(q)) = Len(byRequirement[q]) /\ Len(byRequirement[q]) \in Nat
      /\ DOMAIN Trail(q) = 1 .. Len(byRequirement[q])
  BY TrailType DEF Trailing
<1> DEFINE t == Trail(q)
<1>2. \A e \in LP!AuditEvent : e.stage \in Log!Stage
  BY DEF LP!AuditEvent, LP!Stage, Log!Stage
<1>3. LastStage(q) = IF t = <<>> THEN "NONE" ELSE t[Len(t)].stage
  BY DEF LastStage
<1>4. \A s : Recorded(q, s) <=> \E i \in DOMAIN t : t[i].stage = s
  BY DEF Recorded
<1> HIDE DEF t
<1>5. /\ t \in Seq(LP!AuditEvent) /\ Len(t) \in Nat /\ DOMAIN t = 1 .. Len(t)
      /\ Len(t) = Len(byRequirement[q])
  BY <1>1 DEF t
<1>6. t = <<>> <=> Len(t) = 0
  BY <1>5
<1>7. t # <<>> => Len(t) \in DOMAIN t /\ t[Len(t)] \in LP!AuditEvent
  BY <1>5, <1>6
<1>8. t = <<>> => \A s : ~Recorded(q, s)
  BY <1>4, <1>5, <1>6
<1> QED
  BY <1>2, <1>3, <1>4, <1>5, <1>6, <1>7, <1>8 DEF t

\* logEvent(): one trail grows by one stage.
LEMMA LogExecuted ==
  ASSUME ContractsInv, NEW r \in Cycle, NEW s \in Log!Stage, NEW tx,
         IsLogTx(tx, r, s), Executes(tx)
  PROVE  /\ ContractsInv'
         /\ UNCHANGED chainVars
         /\ \A q \in Cycle : q # r => Trail(q)' = Trail(q)
         /\ \A q \in Cycle : \A st :
              Recorded(q, st)' <=> Recorded(q, st) \/ (q = r /\ st = s)
         /\ \A q \in Cycle : LastStage(q)' = IF q = r THEN s ELSE LastStage(q)
<1>1. /\ Log!LogEvent(Wallet, "event", r, s, Wallet)
      /\ UNCHANGED chainVars
  BY DEF Executes, IsLogTx
<1>2. LP!LogEvent(Wallet, "event", r, s, Wallet) /\ s \in LP!Stage
  BY <1>1 DEF Log!LogEvent, Log!CanLog, Log!Record, Log!Stage,
              LP!LogEvent, LP!CanLog, LP!Record, LP!Stage
<1>3. LP!LogInv'
  BY <1>2, LP!LogEventType, LP!LogEventIndex, GraphAssumption
     DEF ContractsInv, LP!LogInv
<1>4. EP!EscrowInv' /\ EP!Solvent'
  BY <1>1, EP!NextEscrowInv, EP!SolventStep, ContractAssumptions
     DEF ContractsInv, chainVars, EP!vars, EP!tokenVars, EP!escrowVars
<1>5. ContractsInv'
  BY <1>1, <1>3, <1>4 DEF ContractsInv, Log!LogEvent, chainVars
<1> DEFINE n == Len(events)
           rec == Log!Record("event", r, s, Wallet)
<1>6. /\ events \in Seq(LP!AuditEvent) /\ n \in Nat
      /\ byRequirement \in [Cycle -> Seq(1 .. n)]
  BY DEF ContractsInv, LP!LogInv, LP!LogTypeOK
<1>7. rec \in LP!AuditEvent /\ rec.stage = s
  BY <1>2 DEF Log!Record, LP!AuditEvent
<1>8. /\ events' = Append(events, rec)
      /\ byRequirement' = [byRequirement EXCEPT ![r] = Append(@, n + 1)]
  BY <1>1 DEF Log!LogEvent
<1> HIDE DEF rec
<1>9. /\ \A k \in 1 .. n : events'[k] = events[k]
      /\ events'[n + 1] = rec
  BY <1>6, <1>7, <1>8
<1>11. ContractsInv' => (\A q \in Cycle : Trailing(q))'
  BY TrailType, PTL
<1>10. ASSUME NEW q \in Cycle
       PROVE  /\ q # r => Trail(q)' = Trail(q)
              /\ \A st : Recorded(q, st)' <=>
                           Recorded(q, st) \/ (q = r /\ st = s)
              /\ LastStage(q)' = IF q = r THEN s ELSE LastStage(q)
  <2> DEFINE t == Trail(q)
             u == Trail(q)'
             old == byRequirement[q]
             m == Len(old)
  <2>1. /\ t \in Seq(LP!AuditEvent) /\ Len(t) = m /\ m \in Nat
        /\ DOMAIN t = 1 .. m
        /\ \A i \in 1 .. m : t[i] = events[old[i]]
    BY TrailType DEF Trailing
  <2>2. /\ u \in Seq(LP!AuditEvent)'
        /\ Len(u) = Len(byRequirement'[q])
        /\ DOMAIN u = 1 .. Len(byRequirement'[q])
        /\ \A i \in 1 .. Len(byRequirement'[q]) :
             u[i] = events'[byRequirement'[q][i]]
    BY <1>5, <1>11 DEF Trailing
  <2>3. \A i \in 1 .. m : old[i] \in 1 .. n
    BY <1>6
  <2>4. CASE q # r
    <3>1. byRequirement'[q] = old
      BY <1>6, <1>8, <2>4
    <3>2. u = t
      <4>3. Len(u) = m /\ DOMAIN u = 1 .. m
        BY <2>1, <2>2, <3>1
      <4>1. \A i \in 1 .. m : u[i] = t[i]
        BY <2>1, <2>2, <2>3, <3>1, <1>9
      <4> HIDE DEF t, u, old, m
      <4>2. u = [i \in 1 .. Len(u) |-> u[i]] /\ t = [i \in 1 .. Len(t) |-> t[i]]
        BY <2>1, <2>2
      <4> QED
        BY <4>1, <4>2, <4>3, <2>1
    <3> QED
      BY <2>4, <3>2 DEF Recorded, LastStage
  <2>5. CASE q = r
    <3>1. byRequirement'[q] = Append(old, n + 1)
      BY <1>6, <1>8, <2>5
    <3>2. /\ Len(byRequirement'[q]) = m + 1
          /\ \A i \in 1 .. m : byRequirement'[q][i] = old[i]
          /\ byRequirement'[q][m + 1] = n + 1
      <4>1. old \in Seq(1 .. n + 1) /\ n + 1 \in 1 .. n + 1
        BY <1>6
      <4> HIDE DEF old, n
      <4> QED
        BY <3>1, <4>1, LP!AppendElements
    <3>3. /\ Len(u) = m + 1 /\ DOMAIN u = 1 .. m + 1
          /\ \A i \in 1 .. m : u[i] = t[i]
          /\ u[m + 1] = rec
      <4>1. Len(u) = m + 1 /\ DOMAIN u = 1 .. m + 1
        BY <2>1, <2>2, <3>2
      <4>2. \A i \in 1 .. m + 1 : u[i] = events'[byRequirement'[q][i]]
        BY <2>2, <3>2
      <4>3. ASSUME NEW i \in 1 .. m
            PROVE  u[i] = t[i]
        <5>1. i \in 1 .. m + 1 /\ byRequirement'[q][i] = old[i]
          BY <2>1, <3>2
        <5>2. events'[old[i]] = events[old[i]]
          BY <1>9, <2>3
        <5> HIDE DEF t, u, old, m
        <5> QED
          BY <2>1, <4>2, <5>1, <5>2
      <4>4. u[m + 1] = rec
        <5>1. m + 1 \in 1 .. m + 1
          BY <2>1
        <5> QED
          BY <1>9, <3>2, <4>2, <5>1
      <4> QED
        BY <4>1, <4>3, <4>4
    <3> HIDE DEF t, u, old, m
    <3>4. u # <<>> /\ u[Len(u)].stage = s
      BY <1>7, <2>1, <3>3
    <3>5. ASSUME NEW st
          PROVE  (\E i \in DOMAIN u : u[i].stage = st)
                   <=> (\E i \in DOMAIN t : t[i].stage = st) \/ st = s
      <4>1. \A i \in DOMAIN u : i \in 1 .. m \/ i = m + 1
        BY <2>1, <3>3
      <4>2. DOMAIN t = 1 .. m /\ 1 .. m \subseteq DOMAIN u /\ m + 1 \in DOMAIN u
        BY <2>1, <3>3
      <4> QED
        BY <1>7, <3>3, <4>1, <4>2
    <3> QED
      BY <2>5, <3>4, <3>5 DEF Recorded, LastStage, t, u
  <2> QED
    BY <2>4, <2>5
<1> QED
  BY <1>1, <1>5, <1>10

-----------------------------------------------------------------------------
(* Whatever is mined, the cycles stay in order *)

\* The trails are read from the log alone.
LEMMA TrailsUnchanged ==
  ASSUME UNCHANGED logVars
  PROVE  \A q : /\ Trail(q)' = Trail(q)
                /\ LastStage(q)' = LastStage(q)
                /\ \A s : Recorded(q, s)' <=> Recorded(q, s)
  BY DEF logVars, Trail, Log!GetEventsByRequirement, LastStage, Recorded

\* A call that writes one award, names no producer another award of its
\* requirement names, takes no name back and reopens nothing that was accepted.
LEMMA AwardWritten ==
  ASSUME CyclesInv, UNCHANGED logVars, UNCHANGED <<accepted, revertRaises>>,
         NEW id \in AwardId,
         \A other \in AwardId : other # id => contracts'[other] = contracts[other],
         AwardInv(id)',
         \/ contracts'[id].producer = contracts[id].producer
         \/ \A other \in AwardsOf(id[1]) : other # id =>
              contracts[other].producer # contracts'[id].producer,
         contracts[id].producer # Zero => contracts'[id].producer # Zero,
         id \in accepted /\ Chain!Open(id)' => Chain!Open(id)
  PROVE  CyclesInv'
<1>1. ASSUME NEW other \in AwardId
      PROVE  AwardInv(other)'
  <2>1. CASE other = id
    BY <2>1
  <2>2. CASE other # id
    <3>1. contracts'[other] = contracts[other] /\ AwardInv(other)
      BY <2>2 DEF CyclesInv
    <3> QED
      BY <3>1 DEF AwardInv, StatusOf
  <2> QED
    BY <2>1, <2>2
<1>2. ASSUME NEW a \in AwardId, NEW b \in AwardId
      PROVE  PairInv(a, b)'
  <2> SUFFICES ASSUME a[1] = b[1], a # b
               PROVE  /\ ~(a \in accepted' /\ b \in accepted')
                      /\ contracts'[a].producer = contracts'[b].producer =>
                           contracts'[a].producer = Zero
    BY DEF PairInv
  <2>1. /\ ~(a \in accepted /\ b \in accepted)
        /\ contracts[a].producer = contracts[b].producer =>
             contracts[a].producer = Zero
    BY DEF CyclesInv, PairInv
  <2>2. a \in AwardsOf(b[1]) /\ b \in AwardsOf(a[1])
    BY DEF AwardsOf
  <2>3. \/ contracts'[a].producer = contracts[a].producer
           /\ contracts'[b].producer = contracts[b].producer
        \/ contracts'[a].producer # contracts'[b].producer
    <3>1. CASE a = id
      BY <2>2, <3>1
    <3>2. CASE b = id
      BY <2>2, <3>2
    <3>3. CASE a # id /\ b # id
      BY <3>3
    <3> QED
      BY <3>1, <3>2, <3>3
  <2> QED
    BY <2>1, <2>3
<1>3. ASSUME NEW r \in Cycle
      PROVE  TrailInv(r)'
  <2>1. \A s : Recorded(r, s)' <=> Recorded(r, s)
    BY TrailsUnchanged
  <2>2. TrailInv(r)
    BY DEF CyclesInv
  <2>3. SomeAccepted(r)' <=> SomeAccepted(r)
    BY DEF SomeAccepted
  <2>4. SomeAwardStands(r) => SomeAwardStands(r)'
    BY DEF SomeAwardStands, AwardsOf
  <2>5. AcceptedClosed(r) => AcceptedClosed(r)'
    <3> SUFFICES ASSUME AcceptedClosed(r), NEW other \in AwardsOf(r),
                        other \in accepted
                 PROVE  ~Chain!Open(other)'
      BY DEF AcceptedClosed
    <3>1. ~Chain!Open(other) /\ other \in AwardId
      BY DEF AcceptedClosed, AwardsOf
    <3>2. CASE other = id
      BY <3>1, <3>2
    <3>3. CASE other # id
      BY <3>1, <3>3 DEF Chain!Open, Chain!Exists, Chain!Finalised
    <3> QED
      BY <3>2, <3>3
  <2> QED
    BY <2>1, <2>2, <2>3, <2>4, <2>5 DEF TrailInv
<1> QED
  BY <1>1, <1>2, <1>3 DEF CyclesInv

\* What mining a transaction leaves alone: every requirement but its own, and
\* every payment made.
Framed(tx) ==
  /\ \A id \in AwardId : id[1] # TxCycle(tx) => contracts'[id] = contracts[id]
  /\ \A q \in Cycle : q # TxCycle(tx) => Trail(q)' = Trail(q)
  /\ \A id \in AwardId : StatusOf(id) = "SETTLED" => StatusOf(id)' = "SETTLED"

LEMMA CreateKeeps ==
  ASSUME ContractsInv, CyclesInv, UNCHANGED <<accepted, revertRaises>>,
         NEW id \in AwardId, NEW price \in Nat, id \notin accepted,
         Executes(CreateTx(id, price))
  PROVE  ContractsInv' /\ CyclesInv' /\ Framed(CreateTx(id, price))
<1> DEFINE tx == CreateTx(id, price)
           d == [Chain!NoContract EXCEPT !.consumer = Wallet,
                                         !.amountUsdc = price, !.createdAt = TRUE]
<1>1. /\ ContractsInv' /\ UNCHANGED logVars
      /\ ~Chain!Exists(id)
      /\ contracts' = [contracts EXCEPT ![id] = d]
  BY CreateExecuted
<1>2. /\ contracts'[id] = d
      /\ \A other \in AwardId : other # id => contracts'[other] = contracts[other]
  BY <1>1, ContractsFacts
<1>3. d.status = "CREATED" /\ d.producer = Zero
  BY DEF Chain!NoContract
<1>4. contracts[id].producer = Zero /\ StatusOf(id) = "CREATED"
  BY <1>1, ContractsFacts DEF Chain!NoContract, StatusOf
<1>5. AwardInv(id)'
  BY <1>2, <1>3 DEF AwardInv, StatusOf
<1>6. CyclesInv'
  BY <1>1, <1>2, <1>3, <1>4, <1>5, AwardWritten
<1>7. TxCycle(tx) = id[1]
  BY DEF TxCycle, CreateTx
<1>8. Framed(tx)
  BY <1>1, <1>2, <1>4, <1>7, TrailsUnchanged DEF Framed, StatusOf
<1> QED
  BY <1>1, <1>6, <1>8

LEMMA AwardKeeps ==
  ASSUME ContractsInv, CyclesInv, UNCHANGED <<accepted, revertRaises>>,
         NEW id \in AwardId, NEW producer \in Producer,
         id \notin accepted, AwardJustified(id, producer),
         Executes(AwardTx(id, producer))
  PROVE  ContractsInv' /\ CyclesInv' /\ Framed(AwardTx(id, producer))
<1> DEFINE tx == AwardTx(id, producer)
<1>1. /\ ContractsInv' /\ UNCHANGED logVars
      /\ Chain!Exists(id) /\ StatusOf(id) = "CREATED"
      /\ contracts' = [contracts EXCEPT ![id].producer = WalletOf[producer],
                                        ![id].status = "AWARDED"]
  BY AwardExecuted
<1>2. /\ contracts'[id] = [contracts[id] EXCEPT !.producer = WalletOf[producer],
                                                !.status = "AWARDED"]
      /\ \A other \in AwardId : other # id => contracts'[other] = contracts[other]
      /\ contracts[id] \in Chain!ProcurementContract
  BY <1>1, ContractsFacts
<1>3. /\ contracts'[id].producer = WalletOf[producer]
      /\ contracts'[id].status = "AWARDED"
      /\ contracts'[id].amountUsdc = contracts[id].amountUsdc
  BY <1>2 DEF Chain!ProcurementContract
<1>4. WalletOf[producer] # Zero
  BY GraphAssumption
<1>5. AwardInv(id)'
  <2>1. PICK i \in DOMAIN Offers :
          /\ producer = Offers[i].producer
          /\ contracts[id].amountUsdc = Offers[i].price
    BY <1>1 DEF AwardJustified
  <2> QED
    BY <1>3, <2>1 DEF AwardInv, StatusOf
<1>6. \A other \in AwardsOf(id[1]) : other # id =>
        contracts[other].producer # contracts'[id].producer
  BY <1>3 DEF AwardJustified
<1>7. CyclesInv'
  BY <1>1, <1>2, <1>3, <1>4, <1>5, <1>6, AwardWritten
<1>8. TxCycle(tx) = id[1]
  BY DEF TxCycle, AwardTx
<1>9. Framed(tx)
  BY <1>1, <1>2, <1>8, TrailsUnchanged DEF Framed, StatusOf
<1> QED
  BY <1>1, <1>7, <1>9

LEMMA DeliveryKeeps ==
  ASSUME ContractsInv, CyclesInv, UNCHANGED <<accepted, revertRaises>>,
         NEW id \in AwardId, id \in accepted, Executes(DeliveryTx(id))
  PROVE  ContractsInv' /\ CyclesInv' /\ Framed(DeliveryTx(id))
<1> DEFINE tx == DeliveryTx(id)
<1>1. /\ ContractsInv' /\ UNCHANGED logVars
      /\ Chain!Exists(id) /\ StatusOf(id) = "AWARDED"
      /\ contracts' = [contracts EXCEPT ![id].deliveryHash = "evidence",
                                        ![id].status = "DELIVERED"]
  BY DeliveryExecuted
<1>2. /\ contracts'[id] = [contracts[id] EXCEPT !.deliveryHash = "evidence",
                                                !.status = "DELIVERED"]
      /\ \A other \in AwardId : other # id => contracts'[other] = contracts[other]
      /\ contracts[id] \in Chain!ProcurementContract
  BY <1>1, ContractsFacts
<1>3. /\ contracts'[id].producer = contracts[id].producer
      /\ contracts'[id].status = "DELIVERED"
      /\ contracts'[id].amountUsdc = contracts[id].amountUsdc
  BY <1>2 DEF Chain!ProcurementContract
<1>4. AwardInv(id)'
  <2>1. AwardInv(id)
    BY DEF CyclesInv
  <2> QED
    BY <1>1, <1>3, <2>1 DEF AwardInv, StatusOf
<1>5. Chain!Open(id)
  BY <1>1 DEF Chain!Open, Chain!Finalised, StatusOf
<1>6. CyclesInv'
  BY <1>1, <1>2, <1>3, <1>4, <1>5, AwardWritten
<1>7. TxCycle(tx) = id[1]
  BY DEF TxCycle, DeliveryTx
<1>8. Framed(tx)
  BY <1>1, <1>2, <1>7, TrailsUnchanged DEF Framed, StatusOf
<1> QED
  BY <1>1, <1>6, <1>8

LEMMA SettleKeeps ==
  ASSUME ContractsInv, CyclesInv, UNCHANGED <<accepted, revertRaises>>,
         NEW id \in AwardId, id \in accepted, Executes(SettleTx(id))
  PROVE  ContractsInv' /\ CyclesInv' /\ Framed(SettleTx(id))
<1> DEFINE tx == SettleTx(id)
<1>1. /\ ContractsInv' /\ UNCHANGED logVars
      /\ Chain!Exists(id) /\ StatusOf(id) = "DELIVERED"
      /\ contracts' = [contracts EXCEPT ![id].status = "SETTLED",
                                        ![id].settledAt = TRUE]
  BY SettleExecuted
<1>2. /\ contracts'[id] = [contracts[id] EXCEPT !.status = "SETTLED",
                                                !.settledAt = TRUE]
      /\ \A other \in AwardId : other # id => contracts'[other] = contracts[other]
      /\ contracts[id] \in Chain!ProcurementContract
  BY <1>1, ContractsFacts
<1>3. /\ contracts'[id].producer = contracts[id].producer
      /\ contracts'[id].status = "SETTLED"
      /\ contracts'[id].amountUsdc = contracts[id].amountUsdc
  BY <1>2 DEF Chain!ProcurementContract
<1>4. AwardInv(id)'
  <2>1. AwardInv(id)
    BY DEF CyclesInv
  <2> QED
    BY <1>1, <1>3, <2>1 DEF AwardInv, StatusOf
<1>5. Chain!Open(id)
  BY <1>1 DEF Chain!Open, Chain!Finalised, StatusOf
<1>6. CyclesInv'
  BY <1>1, <1>2, <1>3, <1>4, <1>5, AwardWritten
<1>7. TxCycle(tx) = id[1]
  BY DEF TxCycle, SettleTx
<1>8. Framed(tx)
  BY <1>1, <1>2, <1>7, TrailsUnchanged DEF Framed, StatusOf
<1> QED
  BY <1>1, <1>6, <1>8

LEMMA LogKeeps ==
  ASSUME ContractsInv, CyclesInv, UNCHANGED <<accepted, revertRaises>>,
         NEW r \in Cycle, NEW s \in Log!Stage, NEW tx, IsLogTx(tx, r, s),
         LogJustified(r, s), Executes(tx)
  PROVE  ContractsInv' /\ CyclesInv' /\ Framed(tx)
<1>1. /\ ContractsInv' /\ UNCHANGED chainVars
      /\ \A q \in Cycle : q # r => Trail(q)' = Trail(q)
      /\ \A q \in Cycle : \A st :
           Recorded(q, st)' <=> Recorded(q, st) \/ (q = r /\ st = s)
  BY LogExecuted
<1>2. contracts' = contracts
  BY <1>1 DEF chainVars
<1>3. ASSUME NEW id \in AwardId
      PROVE  AwardInv(id)'
  BY <1>2 DEF CyclesInv, AwardInv, StatusOf
<1>4. ASSUME NEW a \in AwardId, NEW b \in AwardId
      PROVE  PairInv(a, b)'
  BY <1>2 DEF CyclesInv, PairInv
<1>5. ASSUME NEW q \in Cycle
      PROVE  TrailInv(q)'
  <2>1. /\ SomeAccepted(q)' <=> SomeAccepted(q)
        /\ SomeAwardStands(q)' <=> SomeAwardStands(q)
        /\ AcceptedClosed(q)' <=> AcceptedClosed(q)
    BY <1>2 DEF SomeAccepted, SomeAwardStands, AcceptedClosed,
                Chain!Open, Chain!Exists, Chain!Finalised
  <2>2. TrailInv(q)
    BY DEF CyclesInv
  <2>3. \A st : Recorded(q, st)' => Recorded(q, st) \/ (q = r /\ st = s)
    BY <1>1
  <2> QED
    BY <2>1, <2>2, <2>3 DEF TrailInv, LogJustified
<1>6. TxCycle(tx) = r
  BY DEF TxCycle, IsLogTx
<1>7. Framed(tx)
  BY <1>1, <1>2, <1>6 DEF Framed, StatusOf
<1> QED
  BY <1>1, <1>3, <1>4, <1>5, <1>7 DEF CyclesInv

\* A justified transaction may be mined at any time.
LEMMA ExecutedKeeps ==
  ASSUME ContractsInv, CyclesInv, UNCHANGED <<accepted, revertRaises>>,
         NEW tx, Justified(tx), Executes(tx)
  PROVE  ContractsInv' /\ CyclesInv' /\ Framed(tx)
<1>1. ASSUME NEW r \in Cycle, NEW s \in Log!Stage, IsLogTx(tx, r, s),
             LogJustified(r, s)
      PROVE  ContractsInv' /\ CyclesInv' /\ Framed(tx)
  BY <1>1, LogKeeps
<1>2. ASSUME NEW id \in AwardId, NEW i \in DOMAIN Offers,
             tx = CreateTx(id, Offers[i].price), id \notin accepted
      PROVE  ContractsInv' /\ CyclesInv' /\ Framed(tx)
  BY <1>2, CreateKeeps, OffersType
<1>3. ASSUME NEW id \in AwardId, NEW producer \in Producer,
             tx = AwardTx(id, producer), id \notin accepted,
             AwardJustified(id, producer)
      PROVE  ContractsInv' /\ CyclesInv' /\ Framed(tx)
  BY <1>3, AwardKeeps
<1>4. ASSUME NEW id \in AwardId, tx = DeliveryTx(id), id \in accepted
      PROVE  ContractsInv' /\ CyclesInv' /\ Framed(tx)
  BY <1>4, DeliveryKeeps
<1>5. ASSUME NEW id \in AwardId, tx = SettleTx(id), id \in accepted
      PROVE  ContractsInv' /\ CyclesInv' /\ Framed(tx)
  BY <1>5, SettleKeeps
<1> QED
  BY <1>1, <1>2, <1>3, <1>4, <1>5 DEF Justified

-----------------------------------------------------------------------------
(* One call of a node: it returns, or the cycle is lost *)

\* The invariant but for the broker process itself.
OuterInv == ContractsInv /\ CyclesInv /\ MempoolInv /\ NotifiedInv /\ FutureInv

\* The reason a transaction was sent for lasts while its requirement rests.
LEMMA JustifiedLasts ==
  ASSUME NEW tx, Justified(tx), UNCHANGED <<contracts, logVars, revertRaises>>,
         \A id \in AwardId :
           id[1] = TxCycle(tx) => (id \in accepted' <=> id \in accepted)
  PROVE  Justified(tx)'
<1>1. ASSUME NEW r \in Cycle, NEW s \in Log!Stage, IsLogTx(tx, r, s),
             LogJustified(r, s)
      PROVE  LogJustified(r, s)'
  <2>1. TxCycle(tx) = r
    BY <1>1 DEF TxCycle, IsLogTx
  <2>2. LastStage(r)' = LastStage(r)
    BY TrailsUnchanged
  <2>3. /\ SomeAwardStands(r)' <=> SomeAwardStands(r)
        /\ SomePaid(r)' <=> SomePaid(r)
    BY DEF SomeAwardStands, SomePaid, StatusOf
  <2>4. SomeAccepted(r)' <=> SomeAccepted(r)
    BY <2>1 DEF SomeAccepted, AwardsOf
  <2>5. AcceptedClosed(r)' <=> AcceptedClosed(r)
    BY <2>1 DEF AcceptedClosed, AwardsOf, Chain!Open, Chain!Exists, Chain!Finalised
  <2> QED
    BY <1>1, <2>2, <2>3, <2>4, <2>5 DEF LogJustified
<1>2. ASSUME NEW id \in AwardId, NEW i \in DOMAIN Offers,
             tx = CreateTx(id, Offers[i].price), id \notin accepted
      PROVE  id \notin accepted'
  BY <1>2 DEF TxCycle, CreateTx
<1>3. ASSUME NEW id \in AwardId, NEW producer \in Producer,
             tx = AwardTx(id, producer), id \notin accepted,
             AwardJustified(id, producer)
      PROVE  id \notin accepted' /\ AwardJustified(id, producer)'
  BY <1>3 DEF TxCycle, AwardTx, AwardJustified, Chain!Exists
<1>4. ASSUME NEW id \in AwardId, tx = DeliveryTx(id), id \in accepted
      PROVE  id \in accepted'
  BY <1>4 DEF TxCycle, DeliveryTx
<1>5. ASSUME NEW id \in AwardId, tx = SettleTx(id), id \in accepted,
             LastStage(id[1]) = "EXECUTING"
      PROVE  id \in accepted' /\ LastStage(id[1])' = "EXECUTING"
  BY <1>5, TrailsUnchanged DEF TxCycle, SettleTx
<1> QED
  BY <1>1, <1>2, <1>3, <1>4, <1>5 DEF Justified

LEMMA ContractsUnchanged ==
  ASSUME ContractsInv, UNCHANGED <<chainVars, logVars>>
  PROVE  ContractsInv'
<1>1. EP!EscrowInv' /\ EP!Solvent'
  BY EP!NextEscrowInv, EP!SolventStep, ContractAssumptions
     DEF ContractsInv, chainVars, EP!vars, EP!tokenVars, EP!escrowVars
<1>2. LP!LogInv'
  BY DEF ContractsInv, LP!LogInv, LP!LogTypeOK, LP!IndexExact, logVars
<1> QED
  BY <1>1, <1>2 DEF ContractsInv, chainVars, logVars

LEMMA CyclesUnchanged ==
  ASSUME CyclesInv, UNCHANGED <<chainVars, logVars, accepted, revertRaises>>
  PROVE  CyclesInv'
<1>1. contracts' = contracts
  BY DEF chainVars
<1>2. ASSUME NEW id \in AwardId
      PROVE  AwardInv(id)'
  BY <1>1 DEF CyclesInv, AwardInv, StatusOf
<1>3. ASSUME NEW a \in AwardId, NEW b \in AwardId
      PROVE  PairInv(a, b)'
  BY <1>1 DEF CyclesInv, PairInv
<1>4. ASSUME NEW q \in Cycle
      PROVE  TrailInv(q)'
  <2>1. /\ SomeAccepted(q)' <=> SomeAccepted(q)
        /\ SomeAwardStands(q)' <=> SomeAwardStands(q)
        /\ AcceptedClosed(q)' <=> AcceptedClosed(q)
    BY <1>1 DEF SomeAccepted, SomeAwardStands, AcceptedClosed,
                Chain!Open, Chain!Exists, Chain!Finalised
  <2>2. TrailInv(q)
    BY DEF CyclesInv
  <2> QED
    BY <2>1, <2>2, TrailsUnchanged DEF TrailInv
<1> QED
  BY <1>2, <1>3, <1>4 DEF CyclesInv

\* A step of the broker process alone.
LEMMA QuietStep ==
  ASSUME OuterInv, StateInv, cycle' \in Cycle,
         UNCHANGED <<chainVars, logVars, mempool, accepted, notified,
                     revertRaises>>,
         \/ cycle' = cycle /\ (node = "raised" => node' = "raised")
         \/ cycle' > cycle
  PROVE  OuterInv'
<1>1. ContractsInv' /\ CyclesInv'
  BY ContractsUnchanged, CyclesUnchanged DEF OuterInv
<1>2. contracts' = contracts
  BY DEF chainVars
<1>3. cycle \in Int /\ cycle' \in Int
  BY GraphAssumption DEF StateInv, Cycle
<1>4. MempoolInv'
  <2> SUFFICES ASSUME NEW tx \in {mempool} \ {NoTx}
               PROVE  /\ Justified(tx)'
                      /\ \/ TxCycle(tx) < cycle'
                         \/ TxCycle(tx) = cycle' /\ node' = "raised"
    BY DEF MempoolInv
  <2>1. /\ Justified(tx)
        /\ \/ TxCycle(tx) < cycle
           \/ TxCycle(tx) = cycle /\ node = "raised"
    BY DEF OuterInv, MempoolInv
  <2>2. Justified(tx)'
    BY <1>2, <2>1, JustifiedLasts
  <2>3. TxCycle(tx) \in Int
    BY <2>1, GraphAssumption
       DEF Justified, TxCycle, IsLogTx, CreateTx, AwardTx, DeliveryTx,
           SettleTx, Cycle, AwardId
  <2> QED
    BY <1>3, <2>1, <2>2, <2>3
<1>5. NotifiedInv'
  BY <1>2 DEF OuterInv, NotifiedInv, SettlementBacked, SettlementConfirmed, StatusOf
<1>6. FutureInv'
  <2>1. \A id \in AwardId : id[1] > cycle' => id[1] > cycle
    BY <1>3, GraphAssumption DEF AwardId, Cycle
  <2>2. \A r \in Cycle : r > cycle' => r > cycle
    BY <1>3, GraphAssumption DEF Cycle
  <2> QED
    BY <1>2, <2>1, <2>2, TrailsUnchanged DEF OuterInv, FutureInv, Chain!Exists
<1> QED
  BY <1>1, <1>4, <1>5, <1>6 DEF OuterInv

\* The call does not return: the cycle is over, and what was sent may still
\* be mined.
LEMMA LostStep ==
  ASSUME GraphInv, node \notin Over, NEW tx, Justified(tx),
         TxCycle(tx) = cycle, Refused(tx) \/ TimesOut(tx), Raises,
         UNCHANGED revertRaises
  PROVE  GraphInv'
<1>1. /\ UNCHANGED <<chainVars, logVars>>
      /\ UNCHANGED <<cycle, bids, chosen, reEvals>>
      /\ UNCHANGED <<mission, accepted, notified>>
      /\ node' = "raised" /\ node # "raised"
      /\ mempool' = mempool \/ mempool' = tx
  BY DEF Refused, TimesOut, Raises, stateVars, worldVars, Over
<1>2. contracts' = contracts
  BY <1>1 DEF chainVars
<1>3. OuterInv /\ StateInv
  BY DEF GraphInv, OuterInv
<1>4. StateInv'
  BY <1>1, <1>3 DEF StateInv, Nodes, Over
<1>5. MempoolInv'
  <2> SUFFICES ASSUME NEW t \in {mempool'} \ {NoTx}
               PROVE  /\ Justified(t)'
                      /\ \/ TxCycle(t) < cycle'
                         \/ TxCycle(t) = cycle' /\ node' = "raised"
    BY DEF MempoolInv
  <2>1. /\ Justified(t)
        /\ TxCycle(t) < cycle \/ TxCycle(t) = cycle
    BY <1>1, <1>3 DEF OuterInv, MempoolInv
  <2>2. Justified(t)'
    BY <1>1, <1>2, <2>1, JustifiedLasts
  <2> QED
    BY <1>1, <2>1, <2>2
<1>6. ContractsInv' /\ CyclesInv'
  BY <1>1, <1>3, ContractsUnchanged, CyclesUnchanged DEF OuterInv
<1>7. NotifiedInv'
  BY <1>1, <1>2, <1>3
     DEF OuterInv, NotifiedInv, SettlementBacked, SettlementConfirmed, StatusOf
<1>8. FutureInv'
  BY <1>1, <1>2, <1>3, TrailsUnchanged DEF OuterInv, FutureInv, Chain!Exists
<1> QED
  BY <1>1, <1>4, <1>5, <1>6, <1>7, <1>8 DEF GraphInv, Over

\* The call returns, executed or reverted unnoticed.
ReturnedInv ==
  /\ ContractsInv'
  /\ CyclesInv'
  /\ MempoolInv'
  /\ FutureInv'
  /\ revertRaises =>
       \A id \in notified : StatusOf(id)' = "SETTLED" /\ id \in accepted'

LEMMA ReturnedStep ==
  ASSUME GraphInv, NEW tx, Justified(tx), TxCycle(tx) = cycle, Returns(tx),
         UNCHANGED <<cycle, accepted, revertRaises>>
  PROVE  ReturnedInv
<1>1. OuterInv /\ StateInv
  BY DEF GraphInv, OuterInv
<1>2. MempoolInv'
  BY DEF Returns, MempoolInv
<1>3. CASE Executes(tx)
  <2>1. ContractsInv' /\ CyclesInv' /\ Framed(tx)
    BY <1>1, <1>3, ExecutedKeeps DEF OuterInv
  <2>2. \A id \in AwardId : id[1] > cycle => contracts'[id] = contracts[id]
    BY <1>1, <2>1, GraphAssumption DEF Framed, StateInv, Cycle, AwardId
  <2>3. \A r \in Cycle : r > cycle => Trail(r)' = Trail(r)
    <3>1. \A r \in Cycle : r > cycle => r # TxCycle(tx)
      BY <1>1, GraphAssumption DEF StateInv, Cycle
    <3> QED
      BY <2>1, <3>1, Zenon DEF Framed
  <2>4. FutureInv'
    BY <1>1, <2>2, <2>3 DEF OuterInv, FutureInv, Chain!Exists
  <2>5. revertRaises =>
          \A id \in notified : StatusOf(id)' = "SETTLED" /\ id \in accepted'
    BY <1>1, <2>1 DEF OuterInv, NotifiedInv, SettlementBacked,
                      SettlementConfirmed, Framed, StateInv
  <2> QED
    BY <1>2, <2>1, <2>4, <2>5 DEF ReturnedInv
<1>4. CASE UNCHANGED <<chainVars, logVars>>
  <2>1. contracts' = contracts
    BY <1>4 DEF chainVars
  <2>2. ContractsInv' /\ CyclesInv'
    BY <1>1, <1>4, ContractsUnchanged, CyclesUnchanged DEF OuterInv
  <2>3. FutureInv'
    BY <1>1, <1>4, <2>1, TrailsUnchanged DEF OuterInv, FutureInv, Chain!Exists
  <2>4. revertRaises =>
          \A id \in notified : StatusOf(id)' = "SETTLED" /\ id \in accepted'
    BY <1>1, <2>1 DEF OuterInv, NotifiedInv, SettlementBacked,
                      SettlementConfirmed, StatusOf
  <2> QED
    BY <1>2, <2>2, <2>3, <2>4 DEF ReturnedInv
<1> QED
  BY <1>3, <1>4 DEF Returns

-----------------------------------------------------------------------------
(* The current award *)

LEMMA AwardIdParts ==
  /\ \A id \in AwardId : id[1] \in Cycle /\ id[2] \in 0 .. MAX_RE_EVALS
                         /\ id[1] \in Nat /\ id[2] \in Nat
  /\ \A a, b \in AwardId : a[1] = b[1] /\ a[2] = b[2] => a = b
  BY GraphAssumption DEF AwardId, Cycle

\* A running cycle has a current award.
LEMMA CurrentExists ==
  ASSUME GraphInv, node \notin Over
  PROVE  \E id \in AwardId : /\ id = CurrentAward /\ ActiveInv(id)
                             /\ id[1] = cycle /\ id[2] = reEvals
<1>1. CurrentAward \in AwardId
  BY DEF CurrentAward, AwardId, GraphInv, StateInv
<1>2. PICK id \in AwardId : id = CurrentAward
  BY <1>1
<1>3. ActiveInv(id)
  BY <1>2 DEF GraphInv
<1> QED
  BY <1>2, <1>3 DEF CurrentAward

\* The graph's invariant is kept by a call that returned, if the process is
\* where it should be.
LEMMA Reassembled ==
  ASSUME ReturnedInv, UNCHANGED <<notified, revertRaises>>, StateInv',
         NEW id \in AwardId, id = CurrentAward',
         node' \in Over \/ ActiveInv(id)'
  PROVE  GraphInv'
<1>1. NotifiedInv'
  BY DEF ReturnedInv, NotifiedInv, SettlementBacked, SettlementConfirmed
<1>2. node' \notin Over => \A other \in AwardId :
        other = CurrentAward' => ActiveInv(other)'
  OBVIOUS
<1> QED
  BY <1>1, <1>2 DEF ReturnedInv, GraphInv

\* Nothing of a requirement is accepted while its current award is not.
LEMMA NoneAccepted ==
  ASSUME NEW id \in AwardId, AttemptsInv(id), id \notin accepted
  PROVE  ~SomeAccepted(id[1])
<1> SUFFICES ASSUME NEW other \in AwardsOf(id[1])
             PROVE  other \notin accepted
  BY DEF SomeAccepted
<1>1. other \in AwardId /\ other[1] = id[1]
  BY DEF AwardsOf
<1>2. other[2] < id[2] \/ other[2] > id[2] \/ other = id
  BY <1>1, AwardIdParts
<1> QED
  BY <1>2 DEF AttemptsInv

\* The attempts before and after the current one are not touched.
LEMMA AttemptsKept ==
  ASSUME NEW id \in AwardId, AttemptsInv(id), UNCHANGED bids,
         \A other \in AwardId : other # id => contracts'[other] = contracts[other],
         accepted' \subseteq accepted \cup {id}
  PROVE  AttemptsInv(id)'
<1> SUFFICES ASSUME NEW other \in AwardsOf(id[1])
             PROVE  /\ other[2] > id[2] => ~Chain!Exists(other)'
                                           /\ other \notin accepted'
                    /\ other[2] < id[2] =>
                         /\ other \notin accepted'
                         /\ \A i \in DOMAIN bids' :
                              contracts'[other].producer
                                # WalletOf[bids'[i].producer]
  BY DEF AttemptsInv, AwardsOf
<1>1. other \in AwardId
  BY DEF AwardsOf
<1>2. CASE other = id
  BY <1>2, AwardIdParts
<1>3. CASE other # id
  <2>1. contracts'[other] = contracts[other]
    BY <1>1, <1>3
  <2> QED
    BY <1>3, <2>1 DEF AttemptsInv, Chain!Exists
<1> QED
  BY <1>2, <1>3

\* A logEvent() of the current requirement ...
LEMMA LogSent ==
  ASSUME NEW id \in AwardId, id[1] = cycle, NEW s \in Log!Stage,
         LogJustified(id[1], s), NEW tx, tx = LogTx(s)
  PROVE  IsLogTx(tx, id[1], s) /\ Justified(tx) /\ TxCycle(tx) = cycle
<1>1. IsLogTx(tx, id[1], s)
  BY DEF LogTx, IsLogTx
<1> QED
  BY <1>1, AwardIdParts DEF Justified, TxCycle, IsLogTx

\* ... always succeeds if it returns: the wallet stays authorised.
LEMMA LogReturned ==
  ASSUME GraphInv, NEW id \in AwardId, id[1] = cycle, NEW s \in Log!Stage,
         LogJustified(id[1], s), NEW tx, tx = LogTx(s), Returns(tx),
         UNCHANGED <<cycle, accepted, revertRaises>>
  PROVE  /\ ReturnedInv
         /\ contracts' = contracts
         /\ LastStage(id[1])' = s
         /\ \A st : Recorded(id[1], st)' <=> Recorded(id[1], st) \/ st = s
<1>1. IsLogTx(tx, id[1], s) /\ Justified(tx) /\ TxCycle(tx) = cycle
  BY LogSent
<1>2. ReturnedInv
  BY <1>1, ReturnedStep
<1>3. Accepts(tx)
  BY <1>1 DEF GraphInv, ContractsInv, Accepts, IsLogTx, Log!CanLog
<1>4. Executes(tx)
  BY <1>3 DEF Returns
<1>5. /\ UNCHANGED chainVars
      /\ \A q \in Cycle : \A st :
           Recorded(q, st)' <=> Recorded(q, st) \/ (q = id[1] /\ st = s)
      /\ \A q \in Cycle : LastStage(q)' = IF q = id[1] THEN s ELSE LastStage(q)
  BY <1>1, <1>4, LogExecuted, AwardIdParts DEF GraphInv
<1> QED
  BY <1>2, <1>5, AwardIdParts DEF chainVars


-----------------------------------------------------------------------------
(* The choice of a bid *)

\* A finite set has an element at which an integer function is greatest.
LEMMA SomeMaximum ==
  ASSUME NEW S, EP!IsFiniteSet(S), S # {}, NEW f, \A i \in S : f[i] \in Int
  PROVE  \E i \in S : \A j \in S : f[j] <= f[i]
<1> DEFINE above(i) == {j \in S : f[j] > f[i]}
           C == {above(i) : i \in S}
<1>1. PICK T \in C : \A U \in C : ~(U \subseteq T /\ U # T)
  <2>1. C \subseteq SUBSET S /\ C # {}
    OBVIOUS
  <2> HIDE DEF C
  <2> QED
    BY <2>1, EP!SmallestSubset, ContractAssumptions
<1>2. PICK i \in S : T = above(i)
  OBVIOUS
<1>3. ASSUME NEW j \in S, f[j] > f[i]
      PROVE  FALSE
  <2>1. above(j) \subseteq above(i)
    BY <1>3
  <2>2. j \in above(i) /\ j \notin above(j)
    BY <1>3
  <2>3. above(j) \in C
    OBVIOUS
  <2> QED
    BY <1>1, <1>2, <2>1, <2>2, <2>3, Zenon
<1> QED
  BY <1>3

\* Every bid held is an offer, so its price is a number ...
LEMMA BidsType ==
  ASSUME StateInv
  PROVE  /\ EP!IsFiniteSet(DOMAIN bids)
         /\ \A i \in DOMAIN bids :
              /\ i \in DOMAIN Offers /\ i \in Nat
              /\ bids[i] = Offers[i]
              /\ bids[i].price \in Nat /\ bids[i].performance \in Nat
              /\ bids[i].producer \in Producer
<1>1. /\ DOMAIN bids \subseteq DOMAIN Offers
      /\ \A i \in DOMAIN bids : bids[i] = Offers[i]
  BY DEF StateInv
<1>2. \A i \in DOMAIN Offers : /\ i \in Nat
                               /\ Offers[i].price \in Nat
                               /\ Offers[i].performance \in Nat
                               /\ Offers[i].producer \in Producer
  BY OffersType
<1>3. IsFiniteSet(DOMAIN bids)
  <2>1. IsFiniteSet(DOMAIN Offers)
    BY FS_Interval, OffersType
  <2> QED
    BY <1>1, <2>1, FS_Subset
<1>4. EP!IsFiniteSet(DOMAIN bids)
  BY <1>3, Zenon DEF IsFiniteSet, EP!IsFiniteSet
<1> QED
  BY <1>1, <1>2, <1>4

\* ... and so is its weighted total.
LEMMA TotalType ==
  ASSUME StateInv, NEW i \in DOMAIN bids
  PROVE  WeightedTotal(bids[i], bids, Criteria) \in Int
<1> DEFINE P == Prices(bids)
<1>1. Max(P) \in Int /\ Min(P) \in Int
  <2> DEFINE up == [j \in DOMAIN bids |-> bids[j].price]
             down == [j \in DOMAIN bids |-> -bids[j].price]
  <2>1. /\ EP!IsFiniteSet(DOMAIN bids) /\ DOMAIN bids # {}
        /\ \A j \in DOMAIN bids : bids[j].price \in Int
    BY BidsType
  <2>2. \A j \in DOMAIN bids : up[j] \in Int /\ down[j] \in Int
    BY <2>1
  <2>3. \A j \in DOMAIN bids : up[j] = bids[j].price /\ down[j] = -bids[j].price
    OBVIOUS
  <2> HIDE DEF up, down
  <2>4. PICK a \in DOMAIN bids : \A j \in DOMAIN bids : up[j] <= up[a]
    BY <2>1, <2>2, SomeMaximum
  <2>5. PICK b \in DOMAIN bids : \A j \in DOMAIN bids : down[j] <= down[b]
    BY <2>1, <2>2, SomeMaximum
  <2>6. \E x \in P : \A y \in P : x >= y
    BY <2>1, <2>3, <2>4 DEF Prices
  <2>7. \E x \in P : \A y \in P : x <= y
    <3>1. \A j \in DOMAIN bids : bids[b].price <= bids[j].price
      BY <2>1, <2>3, <2>5
    <3> QED
      BY <3>1 DEF Prices
  <2>8. P \subseteq Int
    BY <2>1 DEF Prices
  <2> HIDE DEF P
  <2>9. Max(P) \in P
    BY <2>6, Zenon DEF Max
  <2>10. Min(P) \in P
    BY <2>7, Zenon DEF Min
  <2> QED
    BY <2>8, <2>9, <2>10
<1>2. PICK range : range = PriceRange(bids)
  OBVIOUS
<1>3. range \in Int
  BY <1>1, <1>2 DEF PriceRange
<1>4. PICK low : low = Min(P)
  OBVIOUS
<1>5. PICK b : b = bids[i]
  OBVIOUS
<1>6. /\ b.price \in Int /\ b.performance \in Int /\ low \in Int
      /\ Criteria.price \in Int /\ Criteria.availability \in Int
      /\ Criteria.performance \in Int
  <2>1. /\ Criteria.price \in 0..100 /\ Criteria.availability \in 0..100
        /\ Criteria.performance \in 0..100
    BY GraphAssumption DEF EvaluationCriteria
  <2>2. b.price \in Nat /\ b.performance \in Nat
    BY <1>5, BidsType
  <2>3. low \in Int
    BY <1>1, <1>4
  <2> QED
    BY <2>1, <2>2, <2>3
<1>7. PICK cp, ca, cf : /\ cp = Criteria.price /\ ca = Criteria.availability
                        /\ cf = Criteria.performance
  OBVIOUS
<1>8. PICK p, q : p = b.price /\ q = b.performance
  OBVIOUS
<1>9. /\ p \in Int /\ q \in Int /\ cp \in Int /\ ca \in Int /\ cf \in Int
  BY <1>6, <1>7, <1>8
<1>10. 100 * cp * (range - (p - low)) \in Int
  <2>1. 100 * cp \in Int /\ range - (p - low) \in Int
    BY <1>3, <1>6, <1>9
  <2>2. \A x, y \in Int : x * y \in Int
    OBVIOUS
  <2> QED
    BY <2>1, <2>2
<1>11. 100 * ca * range \in Int /\ cf * q * range \in Int
  <2>1. 100 * ca \in Int /\ cf * q \in Int
    BY <1>9
  <2>2. \A x, y \in Int : x * y \in Int
    OBVIOUS
  <2> QED
    BY <1>3, <2>1, <2>2
<1>12. PICK x, y, z : /\ x = 100 * cp * (range - (p - low))
                      /\ y = 100 * ca * range
                      /\ z = cf * q * range
  OBVIOUS
<1>13. x + (IF b.available THEN y ELSE 0) + z \in Int
  BY <1>10, <1>11, <1>12
<1>14. WeightedTotal(b, bids, Criteria)
         = x + (IF b.available THEN y ELSE 0) + z
  BY <1>2, <1>4, <1>7, <1>8, <1>12, Zenon DEF WeightedTotal
<1> QED
  BY <1>5, <1>13, <1>14

\* The winner is one of the bids held.
LEMMA WinnerIn ==
  ASSUME StateInv, DOMAIN bids # {}
  PROVE  \E i \in DOMAIN bids : Winner(bids, Criteria) = bids[i]
<1> DEFINE D == DOMAIN bids
           total == [i \in D |-> WeightedTotal(bids[i], bids, Criteria)]
           best == {i \in D : \A j \in D : total[j] <= total[i]}
           first == [i \in best |-> -i]
<1>1. \A i \in D : total[i] \in Int /\ i \in Nat
  BY TotalType, BidsType
<1>2. EP!IsFiniteSet(D) /\ IsFiniteSet(D)
  <2>1. EP!IsFiniteSet(D)
    BY BidsType
  <2> QED
    BY <2>1, Zenon DEF IsFiniteSet, EP!IsFiniteSet
<1>3. \A i \in D : total[i] = WeightedTotal(bids[i], bids, Criteria)
  OBVIOUS
<1> HIDE DEF total
<1>4. \E i \in D : \A j \in D : total[j] <= total[i]
  BY <1>1, <1>2, SomeMaximum
<1>5. best # {} /\ best \subseteq D
  BY <1>4
<1>6. EP!IsFiniteSet(best)
  <2>1. IsFiniteSet(best)
    BY <1>2, <1>5, FS_Subset
  <2> QED
    BY <2>1, Zenon DEF IsFiniteSet, EP!IsFiniteSet
<1>7. \A i \in best : i \in Nat /\ first[i] \in Int /\ first[i] = -i
  BY <1>1, <1>5
<1>8. Winner(bids, Criteria) = bids[Min(best)]
  <2>1. best = {i \in D : \A j \in D :
          WeightedTotal(bids[j], bids, Criteria)
            <= WeightedTotal(bids[i], bids, Criteria)}
    BY <1>3
  <2> QED
    BY <2>1, Zenon DEF Winner
<1> HIDE DEF best, first
<1>9. PICK i \in best : \A j \in best : first[j] <= first[i]
  BY <1>5, <1>6, <1>7, SomeMaximum
<1>10. \A j \in best : i <= j
  BY <1>7, <1>9
<1>11. Min(best) \in best
  BY <1>9, <1>10, Zenon DEF Min
<1> QED
  BY <1>5, <1>8, <1>11

-----------------------------------------------------------------------------
(* The calls of the nodes, and what sends them *)

\* Once the payment has returned, delivery and settlement may be recorded.
LEMMA PaidBeforeRecorded ==
  ASSUME GraphInv, node \in {"log_delivered", "log_settled"},
         NEW id \in AwardId, ActiveInv(id)
  PROVE  /\ id \in accepted
         /\ revertRaises => StatusOf(id) = "SETTLED"
         /\ AcceptedClosed(id[1])
         /\ revertRaises => SomePaid(id[1])
<1>1. /\ id \in accepted /\ id \in AwardsOf(id[1])
      /\ revertRaises => Chain!Exists(id)
      /\ Chain!Exists(id) => StatusOf(id) = "SETTLED"
  BY DEF ActiveInv, CurrentInv, Unplaced, Executing, StatusAt, AwardsOf
<1>2. AcceptedClosed(id[1])
  <2> SUFFICES ASSUME NEW other \in AwardsOf(id[1]), other \in accepted
               PROVE  ~Chain!Open(other)
    BY DEF AcceptedClosed
  <2>1. other \in AwardId /\ other[1] = id[1]
    BY DEF AwardsOf
  <2>2. ~(other[2] < id[2]) /\ ~(other[2] > id[2])
    BY DEF ActiveInv, AttemptsInv
  <2>3. other = id
    BY <2>1, <2>2, AwardIdParts
  <2> QED
    BY <1>1, <2>3 DEF Chain!Open, Chain!Finalised, StatusOf
<1> QED
  BY <1>1, <1>2 DEF SomePaid

\* What each node sends it sends with good reason.
LogReasons(r) ==
  /\ node = "announce_task" => LogJustified(r, "ANNOUNCED")
  /\ node = "collect_bids" => LogJustified(r, "BIDDING")
  /\ node = "evaluate_bids" => LogJustified(r, "EVALUATING")
  /\ node = "log_award" => LogJustified(r, "AWARDED")
  /\ node = "monitor_execution" => LogJustified(r, "EXECUTING")
  /\ node = "log_delivered" => LogJustified(r, "DELIVERED")
  /\ node = "log_settled" => LogJustified(r, "SETTLED")
  /\ node = "handle_failure" => LogJustified(r, "FAILED")

LEMMA LogsJustified ==
  ASSUME GraphInv, NEW id \in AwardId, ActiveInv(id), node \notin Over
  PROVE  LogReasons(id[1])
<1> DEFINE r == id[1]
<1>1. LastStage(r) \in StagesAt(node) /\ id \in AwardsOf(r)
  BY DEF ActiveInv, TrailAt, AwardsOf
<1>2. node = "log_award" /\ revertRaises => SomeAwardStands(r)
  <2> SUFFICES ASSUME node = "log_award", revertRaises
               PROVE  SomeAwardStands(r)
    OBVIOUS
  <2>1. PICK k \in DOMAIN bids : chosen = bids[k]
    BY DEF ActiveInv, Choosing
  <2>2. chosen.producer \in Producer
    BY <2>1, BidsType DEF GraphInv
  <2>3. contracts[id].producer = WalletOf[chosen.producer]
    BY DEF ActiveInv, CurrentInv, Unplaced
  <2> QED
    BY <1>1, <2>2, <2>3, GraphAssumption DEF SomeAwardStands
<1>3. node = "monitor_execution" => SomeAccepted(r)
  BY <1>1 DEF ActiveInv, CurrentInv, Executing, SomeAccepted
<1>4. node \in {"log_delivered", "log_settled"} =>
        AcceptedClosed(r) /\ (revertRaises => SomePaid(r))
  BY PaidBeforeRecorded
<1>5. node = "handle_failure" => ~SomeAccepted(r)
  BY NoneAccepted DEF ActiveInv, CurrentInv, Unplaced
<1> HIDE DEF r
<1> QED
  BY <1>1, <1>2, <1>3, <1>4, <1>5
     DEF LogReasons, LogJustified, StagesAt, Net!Succession, r

LEMMA CallsJustified ==
  ASSUME GraphInv, NEW id \in AwardId, ActiveInv(id),
         id[1] = cycle, id[2] = reEvals, NEW tx,
         \/ node = "award_contract" /\ tx = CreateTx(id, chosen.price)
         \/ node = "record_award" /\ tx = AwardTx(id, chosen.producer)
         \/ node = "confirm_delivery" /\ tx = DeliveryTx(id)
         \/ node = "settle_payment" /\ tx = SettleTx(id)
  PROVE  Justified(tx) /\ TxCycle(tx) = cycle
<1>1. node \in Choosing => \E i \in DOMAIN Offers :
                             chosen = Offers[i] /\ i \in DOMAIN bids
                             /\ chosen = bids[i]
  BY BidsType DEF ActiveInv, GraphInv
<1>2. CASE node = "award_contract" /\ tx = CreateTx(id, chosen.price)
  <2>1. PICK i \in DOMAIN Offers : chosen = Offers[i]
    BY <1>1, <1>2 DEF Choosing
  <2>2. id \notin accepted
    BY <1>2 DEF ActiveInv, CurrentInv, Unplaced
  <2> QED
    BY <1>2, <2>1, <2>2 DEF Justified, TxCycle, CreateTx
<1>3. CASE node = "record_award" /\ tx = AwardTx(id, chosen.producer)
  <2>1. PICK i \in DOMAIN Offers :
          i \in DOMAIN bids /\ chosen = Offers[i] /\ chosen = bids[i]
    BY <1>1, <1>3 DEF Choosing
  <2>2. PICK p : p = chosen.producer
    OBVIOUS
  <2>3. /\ p \in Producer /\ p = Offers[i].producer /\ p = bids[i].producer
        /\ WalletOf[p] # Zero
    BY <2>1, <2>2, OffersType, GraphAssumption
  <2>4. /\ id \notin accepted
        /\ Chain!Exists(id) => contracts[id].amountUsdc = chosen.price
    BY <1>3 DEF ActiveInv, CurrentInv, Unplaced
  <2>5. ASSUME NEW other \in AwardsOf(id[1]), other # id
        PROVE  contracts[other].producer # WalletOf[p]
    <3>1. other \in AwardId /\ other[1] = id[1]
      BY DEF AwardsOf
    <3>2. other[2] < id[2] \/ other[2] > id[2]
      BY <2>5, <3>1, AwardIdParts
    <3>3. CASE other[2] < id[2]
      BY <2>1, <2>3, <3>3 DEF ActiveInv, AttemptsInv
    <3>4. CASE other[2] > id[2]
      <4>1. ~Chain!Exists(other)
        BY <3>4 DEF ActiveInv, AttemptsInv
      <4>2. contracts[other].producer = Zero
        BY <3>1, <4>1, ContractsFacts DEF GraphInv, Chain!NoContract
      <4> QED
        BY <2>3, <4>2
    <3> QED
      BY <3>2, <3>3, <3>4
  <2>6. AwardJustified(id, p)
    BY <2>1, <2>3, <2>4, <2>5 DEF AwardJustified
  <2> QED
    BY <1>3, <2>2, <2>3, <2>4, <2>6 DEF Justified, TxCycle, AwardTx
<1>4. CASE node = "confirm_delivery" /\ tx = DeliveryTx(id)
  <2>1. id \in accepted
    BY <1>4 DEF ActiveInv, CurrentInv, Executing
  <2> QED
    BY <1>4, <2>1 DEF Justified, TxCycle, DeliveryTx
<1>5. CASE node = "settle_payment" /\ tx = SettleTx(id)
  <2>1. id \in accepted /\ LastStage(id[1]) = "EXECUTING"
    BY <1>5 DEF ActiveInv, CurrentInv, Executing, TrailAt, StagesAt
  <2> QED
    BY <1>5, <2>1 DEF Justified, TxCycle, SettleTx
<1> QED
  BY <1>2, <1>3, <1>4, <1>5

-----------------------------------------------------------------------------
(* The nodes of the graph *)

LEMMA AnnounceTaskKeeps ==
  ASSUME GraphInv, AnnounceTask, UNCHANGED revertRaises
  PROVE  GraphInv'
<1>1. node = "announce_task" /\ node \notin Over
  BY DEF AnnounceTask, Over
<1>2. PICK id \in AwardId : /\ id = CurrentAward /\ ActiveInv(id)
                            /\ id[1] = cycle /\ id[2] = reEvals
  BY <1>1, CurrentExists
<1>3. PICK tx : tx = LogTx("ANNOUNCED")
  OBVIOUS
<1>4. LogJustified(id[1], "ANNOUNCED") /\ "ANNOUNCED" \in Log!Stage
  BY <1>1, <1>2, LogsJustified DEF LogReasons, Log!Stage
<1>5. Justified(tx) /\ TxCycle(tx) = cycle
  BY <1>2, <1>3, <1>4, LogSent
<1>6. CASE Returns(tx) /\ GoTo("collect_bids")
  <2>1. /\ node' = "collect_bids"
        /\ UNCHANGED <<cycle, bids, chosen, reEvals>>
        /\ UNCHANGED <<mission, accepted, notified>>
    BY <1>6 DEF GoTo, stateVars, worldVars
  <2>2. /\ ReturnedInv /\ contracts' = contracts
        /\ LastStage(id[1])' = "ANNOUNCED"
        /\ \A st : Recorded(id[1], st)' <=>
                     Recorded(id[1], st) \/ st = "ANNOUNCED"
    BY <1>2, <1>3, <1>4, <1>6, <2>1, LogReturned
  <2>3. StateInv'
    BY <2>1 DEF GraphInv, StateInv, Nodes
  <2>4. CurrentInv(id)'
    BY <1>1, <1>2, <2>1, <2>2
       DEF ActiveInv, CurrentInv, Unplaced, Executing, Chain!Exists
  <2>5. AttemptsInv(id)'
    BY <1>2, <2>1, <2>2, AttemptsKept DEF ActiveInv
  <2>6. TrailAt(id[1])'
    BY <1>2, <2>1, <2>2 DEF ActiveInv, TrailAt, StagesAt
  <2>7. ActiveInv(id)'
    BY <1>1, <1>2, <2>1, <2>4, <2>5, <2>6 DEF ActiveInv, Choosing
  <2> QED
    BY <1>2, <2>1, <2>2, <2>3, <2>7, Reassembled DEF CurrentAward
<1>7. CASE (Refused(tx) \/ TimesOut(tx)) /\ Raises
  BY <1>1, <1>5, <1>7, LostStep
<1> QED
  BY <1>3, <1>6, <1>7 DEF AnnounceTask, Call

\* An exception between two calls ends the cycle and nothing else.
LEMMA RaisesKeeps ==
  ASSUME GraphInv, node \notin Over, Raises,
         UNCHANGED <<chainVars, logVars, mempool, revertRaises>>
  PROVE  GraphInv'
<1>1. /\ UNCHANGED <<cycle, bids, chosen, reEvals>>
      /\ UNCHANGED <<mission, accepted, notified>>
      /\ node' = "raised"
  BY DEF Raises, stateVars, worldVars
<1>2. OuterInv /\ StateInv
  BY DEF GraphInv, OuterInv
<1>3. OuterInv'
  BY <1>1, <1>2, QuietStep DEF StateInv
<1>4. StateInv'
  BY <1>1, <1>2 DEF StateInv, Nodes, Over
<1> QED
  BY <1>1, <1>3, <1>4 DEF GraphInv, OuterInv, Over

LEMMA CollectBidsKeeps ==
  ASSUME GraphInv, CollectBids, UNCHANGED revertRaises
  PROVE  GraphInv'
<1>1. node = "collect_bids" /\ node \notin Over
  BY DEF CollectBids, Over
<1>2. PICK id \in AwardId : /\ id = CurrentAward /\ ActiveInv(id)
                            /\ id[1] = cycle /\ id[2] = reEvals
  BY <1>1, CurrentExists
<1>3. PICK tx : tx = LogTx("BIDDING")
  OBVIOUS
<1>4. LogJustified(id[1], "BIDDING") /\ "BIDDING" \in Log!Stage
  BY <1>1, <1>2, LogsJustified DEF LogReasons, Log!Stage
<1>5. Justified(tx) /\ TxCycle(tx) = cycle
  BY <1>2, <1>3, <1>4, LogSent
<1>6. PICK willing \in SUBSET DOMAIN Offers :
        Call(LogTx("BIDDING"),
             /\ bids' = Restrict(Offers, willing)
             /\ node' = IF willing = {} THEN "handle_failure"
                                        ELSE "evaluate_bids"
             /\ UNCHANGED <<cycle, chosen, reEvals, worldVars>>)
  BY DEF CollectBids
<1>7. CASE /\ Returns(tx)
           /\ bids' = Restrict(Offers, willing)
           /\ node' = IF willing = {} THEN "handle_failure"
                                      ELSE "evaluate_bids"
           /\ UNCHANGED <<cycle, chosen, reEvals, worldVars>>
  <2>1. /\ node' \in {"evaluate_bids", "handle_failure"}
        /\ UNCHANGED <<cycle, chosen, reEvals>>
        /\ UNCHANGED <<mission, accepted, notified>>
        /\ DOMAIN bids' = willing
        /\ \A i \in willing : bids'[i] = Offers[i]
    BY <1>7 DEF worldVars, Restrict
  <2>2. /\ ReturnedInv /\ contracts' = contracts
        /\ LastStage(id[1])' = "BIDDING"
        /\ \A st : Recorded(id[1], st)' <=>
                     Recorded(id[1], st) \/ st = "BIDDING"
    BY <1>2, <1>3, <1>4, <1>7, <2>1, LogReturned
  <2>3. StateInv'
    BY <2>1 DEF GraphInv, StateInv, Nodes
  <2>4. CurrentInv(id)'
    BY <1>1, <1>2, <2>1, <2>2
       DEF ActiveInv, CurrentInv, Unplaced, Executing, Chain!Exists
  <2>5. AttemptsInv(id)'
    <3>1. id[2] = 0
      BY <1>1, <1>2 DEF ActiveInv
    <3>2. \A other \in AwardsOf(id[1]) : other[2] \in Nat
      BY AwardIdParts DEF AwardsOf
    <3>3. \A other \in AwardsOf(id[1]) : other[2] > id[2] =>
            ~Chain!Exists(other) /\ other \notin accepted
      BY <1>2 DEF ActiveInv, AttemptsInv
    <3>4. \A other \in AwardsOf(id[1]) : ~(other[2] < id[2])
      BY <3>1, <3>2
    <3> QED
      BY <2>1, <2>2, <3>3, <3>4 DEF AttemptsInv, AwardsOf, Chain!Exists
  <2>6. TrailAt(id[1])'
    BY <1>2, <2>1, <2>2 DEF ActiveInv, TrailAt, StagesAt
  <2>7. ActiveInv(id)'
    <3>1. reEvals' = 0 /\ 0 < MAX_RE_EVALS
      BY <1>1, <1>2, <2>1, GraphAssumption DEF ActiveInv
    <3> QED
      BY <2>1, <2>4, <2>5, <2>6, <3>1 DEF ActiveInv, Choosing
  <2> QED
    BY <1>2, <2>1, <2>2, <2>3, <2>7, Reassembled DEF CurrentAward
<1>8. CASE (Refused(tx) \/ TimesOut(tx)) /\ Raises
  BY <1>1, <1>5, <1>8, LostStep
<1> QED
  BY <1>3, <1>6, <1>7, <1>8 DEF Call

LEMMA EvaluateBidsKeeps ==
  ASSUME GraphInv, EvaluateBids, UNCHANGED revertRaises
  PROVE  GraphInv'
<1>1. node = "evaluate_bids" /\ node \notin Over
  BY DEF EvaluateBids, Over
<1>2. PICK id \in AwardId : /\ id = CurrentAward /\ ActiveInv(id)
                            /\ id[1] = cycle /\ id[2] = reEvals
  BY <1>1, CurrentExists
<1>3. PICK tx : tx = LogTx("EVALUATING")
  OBVIOUS
<1>4. LogJustified(id[1], "EVALUATING") /\ "EVALUATING" \in Log!Stage
  BY <1>1, <1>2, LogsJustified DEF LogReasons, Log!Stage
<1>5. Justified(tx) /\ TxCycle(tx) = cycle
  BY <1>2, <1>3, <1>4, LogSent
<1>6. CASE DOMAIN bids = {}
  BY <1>1, <1>6, RaisesKeeps DEF EvaluateBids
<1>7. CASE /\ DOMAIN bids # {}
           /\ Returns(tx)
           /\ chosen' = Winner(bids, Criteria)
           /\ node' = "award_contract"
           /\ UNCHANGED <<cycle, bids, reEvals, worldVars>>
  <2>1. /\ node' = "award_contract"
        /\ UNCHANGED <<cycle, bids, reEvals>>
        /\ UNCHANGED <<mission, accepted, notified>>
    BY <1>7 DEF worldVars
  <2>2. /\ ReturnedInv /\ contracts' = contracts
        /\ LastStage(id[1])' = "EVALUATING"
        /\ \A st : Recorded(id[1], st)' <=>
                     Recorded(id[1], st) \/ st = "EVALUATING"
    BY <1>2, <1>3, <1>4, <1>7, <2>1, LogReturned
  <2>3. PICK i \in DOMAIN bids : chosen' = bids[i]
    BY <1>7, WinnerIn DEF GraphInv
  <2>4. StateInv'
    BY <2>1, <2>3 DEF GraphInv, StateInv, Nodes
  <2>5. CurrentInv(id)'
    BY <1>1, <1>2, <2>1, <2>2
       DEF ActiveInv, CurrentInv, Unplaced, Executing, Chain!Exists
  <2>6. AttemptsInv(id)'
    BY <1>2, <2>1, <2>2, AttemptsKept DEF ActiveInv
  <2>7. TrailAt(id[1])'
    BY <1>2, <2>1, <2>2 DEF ActiveInv, TrailAt, StagesAt
  <2>8. ActiveInv(id)'
    BY <1>1, <1>2, <2>1, <2>3, <2>5, <2>6, <2>7 DEF ActiveInv
  <2> QED
    BY <1>2, <2>1, <2>2, <2>4, <2>8, Reassembled DEF CurrentAward
<1>8. CASE (Refused(tx) \/ TimesOut(tx)) /\ Raises
  BY <1>1, <1>5, <1>8, LostStep
<1> QED
  BY <1>3, <1>6, <1>7, <1>8 DEF EvaluateBids, Call

\* What a call on the current award leaves alone, whether it is executed or
\* reverted unnoticed: every other award, and the trails.
OthersKept(id) ==
  /\ \A other \in AwardId : other # id => contracts'[other] = contracts[other]
  /\ LastStage(id[1])' = LastStage(id[1])
  /\ \A s : Recorded(id[1], s)' <=> Recorded(id[1], s)

LEMMA AwardContractKeeps ==
  ASSUME GraphInv, AwardContract, UNCHANGED revertRaises
  PROVE  GraphInv'
<1>1. node = "award_contract" /\ node \notin Over
  BY DEF AwardContract, Over
<1>2. PICK id \in AwardId : /\ id = CurrentAward /\ ActiveInv(id)
                            /\ id[1] = cycle /\ id[2] = reEvals
  BY <1>1, CurrentExists
<1>3. PICK i \in DOMAIN Offers : i \in DOMAIN bids /\ chosen = Offers[i]
  <2>1. PICK i \in DOMAIN bids : chosen = bids[i]
    BY <1>1, <1>2 DEF ActiveInv, Choosing
  <2> QED
    BY <2>1, BidsType DEF GraphInv
<1>4. PICK price : price = chosen.price
  OBVIOUS
<1>5. PICK tx : tx = CreateTx(id, price)
  OBVIOUS
<1>6. price \in Nat /\ price = Offers[i].price
  BY <1>3, <1>4, OffersType
<1>7. ~Chain!Exists(id) /\ id \notin accepted
  BY <1>1, <1>2 DEF ActiveInv, CurrentInv, Unplaced
<1>8. Justified(tx) /\ TxCycle(tx) = cycle
  BY <1>1, <1>2, <1>4, <1>5, CallsJustified
<1>9. CASE Returns(tx) /\ GoTo("record_award")
  <2>1. /\ node' = "record_award"
        /\ UNCHANGED <<cycle, bids, chosen, reEvals>>
        /\ UNCHANGED <<mission, accepted, notified>>
    BY <1>9 DEF GoTo, stateVars, worldVars
  <2>2. ReturnedInv
    BY <1>8, <1>9, <2>1, ReturnedStep
  <2>3. /\ OthersKept(id)
        /\ revertRaises => Chain!Exists(id)'
        /\ Chain!Exists(id)' => /\ StatusOf(id)' = "CREATED"
                                /\ contracts'[id].amountUsdc = price
    <3>1. CASE Executes(tx)
      <4>1. /\ UNCHANGED logVars /\ Chain!Exists(id)'
            /\ contracts' = [contracts EXCEPT ![id] =
                 [Chain!NoContract EXCEPT !.consumer = Wallet,
                    !.amountUsdc = price, !.createdAt = TRUE]]
        BY <1>5, <1>6, <3>1, CreateExecuted DEF GraphInv
      <4>2. contracts'[id] = [Chain!NoContract EXCEPT !.consumer = Wallet,
                                !.amountUsdc = price, !.createdAt = TRUE]
        BY <4>1, ContractsFacts DEF GraphInv
      <4>3. \A other \in AwardId : other # id =>
              contracts'[other] = contracts[other]
        BY <4>1, ContractsFacts DEF GraphInv
      <4>4. OthersKept(id)
        BY <4>1, <4>3, TrailsUnchanged DEF OthersKept
      <4> QED
        <5>1. contracts'[id].status = Chain!NoContract.status
              /\ contracts'[id].amountUsdc = price
          BY <4>2 DEF Chain!NoContract
        <5>2. Chain!NoContract.status = "CREATED"
          BY DEF Chain!NoContract
        <5> QED
          BY <4>1, <4>4, <5>1, <5>2 DEF StatusOf
    <3>2. CASE ~revertRaises /\ UNCHANGED <<chainVars, logVars>>
      <4>1. contracts' = contracts /\ UNCHANGED logVars
        BY <3>2 DEF chainVars
      <4> QED
        BY <1>7, <3>2, <4>1, TrailsUnchanged DEF OthersKept, Chain!Exists
    <3> QED
      BY <1>9, <3>1, <3>2 DEF Returns
  <2>4. StateInv'
    BY <2>1 DEF GraphInv, StateInv, Nodes
  <2>5. CurrentInv(id)'
    BY <1>4, <1>7, <2>1, <2>3
       DEF CurrentInv, Unplaced, Executing, StatusAt
  <2>6. AttemptsInv(id)'
    BY <1>2, <2>1, <2>3, AttemptsKept DEF ActiveInv, OthersKept
  <2>7. TrailAt(id[1])'
    BY <1>1, <1>2, <2>1, <2>3 DEF ActiveInv, TrailAt, StagesAt, OthersKept
  <2>8. ActiveInv(id)'
    BY <1>1, <1>2, <2>1, <2>5, <2>6, <2>7 DEF ActiveInv, Choosing
  <2> QED
    BY <1>2, <2>1, <2>2, <2>4, <2>8, Reassembled DEF CurrentAward
<1>10. CASE (Refused(tx) \/ TimesOut(tx)) /\ Raises
  BY <1>1, <1>8, <1>10, LostStep
<1> QED
  BY <1>2, <1>4, <1>5, <1>9, <1>10 DEF AwardContract, Call

LEMMA RecordAwardKeeps ==
  ASSUME GraphInv, RecordAward, UNCHANGED revertRaises
  PROVE  GraphInv'
<1>1. node = "record_award" /\ node \notin Over
  BY DEF RecordAward, Over
<1>2. PICK id \in AwardId : /\ id = CurrentAward /\ ActiveInv(id)
                            /\ id[1] = cycle /\ id[2] = reEvals
  BY <1>1, CurrentExists
<1>3. PICK i \in DOMAIN bids : /\ chosen = bids[i] /\ chosen = Offers[i]
                               /\ i \in DOMAIN Offers
  <2>1. PICK i \in DOMAIN bids : chosen = bids[i]
    BY <1>1, <1>2 DEF ActiveInv, Choosing
  <2> QED
    BY <2>1, BidsType DEF GraphInv
<1>4. PICK p : p = chosen.producer
  OBVIOUS
<1>5. PICK tx : tx = AwardTx(id, p)
  OBVIOUS
<1>6. p \in Producer /\ p = Offers[i].producer /\ p = bids[i].producer
        /\ WalletOf[p] # Zero
  BY <1>3, <1>4, OffersType, GraphAssumption
<1>7. /\ id \notin accepted
      /\ revertRaises => Chain!Exists(id)
      /\ Chain!Exists(id) => /\ StatusOf(id) = "CREATED"
                             /\ contracts[id].amountUsdc = chosen.price
  BY <1>1, <1>2 DEF ActiveInv, CurrentInv, Unplaced, StatusAt
<1>8. Justified(tx) /\ TxCycle(tx) = cycle
  BY <1>1, <1>2, <1>4, <1>5, CallsJustified
<1>9. CASE Returns(tx) /\ GoTo("accept_award")
  <2>1. /\ node' = "accept_award"
        /\ UNCHANGED <<cycle, bids, chosen, reEvals>>
        /\ UNCHANGED <<mission, accepted, notified>>
    BY <1>9 DEF GoTo, stateVars, worldVars
  <2>2. ReturnedInv
    BY <1>8, <1>9, <2>1, ReturnedStep
  <2>3. /\ OthersKept(id)
        /\ revertRaises => Chain!Exists(id)'
        /\ Chain!Exists(id)' => /\ StatusOf(id)' = "AWARDED"
                                /\ contracts'[id].producer = WalletOf[p]
    <3>1. CASE Executes(tx)
      <4>1. /\ UNCHANGED logVars /\ Chain!Exists(id)
            /\ contracts' = [contracts EXCEPT ![id].producer = WalletOf[p],
                                              ![id].status = "AWARDED"]
        BY <1>5, <1>6, <3>1, AwardExecuted DEF GraphInv
      <4>2. /\ contracts'[id] = [contracts[id] EXCEPT !.producer = WalletOf[p],
                                                      !.status = "AWARDED"]
            /\ contracts[id] \in Chain!ProcurementContract
            /\ \A other \in AwardId : other # id =>
                 contracts'[other] = contracts[other]
        BY <4>1, ContractsFacts DEF GraphInv
      <4>3. /\ contracts'[id].producer = WalletOf[p]
            /\ contracts'[id].status = "AWARDED"
            /\ contracts'[id].createdAt = contracts[id].createdAt
        BY <4>2 DEF Chain!ProcurementContract
      <4>4. OthersKept(id)
        BY <4>1, <4>2, TrailsUnchanged DEF OthersKept
      <4> QED
        BY <4>1, <4>3, <4>4 DEF StatusOf, Chain!Exists
    <3>2. CASE /\ ~Accepts(tx) /\ ~revertRaises
               /\ UNCHANGED <<chainVars, logVars>>
      <4>1. contracts' = contracts /\ UNCHANGED logVars
        BY <3>2 DEF chainVars
      <4>2. ~Chain!Exists(id)
        BY <1>5, <1>7, <3>2, ContractsFacts
           DEF GraphInv, Accepts, AwardTx, Chain!CanRecordAward,
               Chain!OnlyBroker, StatusOf
      <4> QED
        BY <3>2, <4>1, <4>2, TrailsUnchanged DEF OthersKept, Chain!Exists
    <3> QED
      BY <1>9, <3>1, <3>2 DEF Returns
  <2>4. StateInv'
    BY <2>1 DEF GraphInv, StateInv, Nodes
  <2>5. CurrentInv(id)'
    BY <1>4, <1>7, <2>1, <2>3
       DEF CurrentInv, Unplaced, Executing, StatusAt
  <2>6. AttemptsInv(id)'
    BY <1>2, <2>1, <2>3, AttemptsKept DEF ActiveInv, OthersKept
  <2>7. TrailAt(id[1])'
    BY <1>1, <1>2, <2>1, <2>3 DEF ActiveInv, TrailAt, StagesAt, OthersKept
  <2>8. ActiveInv(id)'
    BY <1>1, <1>2, <2>1, <2>5, <2>6, <2>7 DEF ActiveInv, Choosing
  <2> QED
    BY <1>2, <2>1, <2>2, <2>4, <2>8, Reassembled DEF CurrentAward
<1>10. CASE (Refused(tx) \/ TimesOut(tx)) /\ Raises
  BY <1>1, <1>8, <1>10, LostStep
<1> QED
  BY <1>2, <1>4, <1>5, <1>9, <1>10 DEF RecordAward, Call

\* The producer takes the current award on: nobody else of this requirement
\* has, and nothing of its end is on record.
LEMMA AcceptAwardKeeps ==
  ASSUME GraphInv, AcceptAward, UNCHANGED revertRaises
  PROVE  GraphInv'
<1>1. node = "accept_award" /\ node \notin Over
  BY DEF AcceptAward, Over
<1>2. PICK id \in AwardId : /\ id = CurrentAward /\ ActiveInv(id)
                            /\ id[1] = cycle /\ id[2] = reEvals
  BY <1>1, CurrentExists
<1>3. /\ accepted' = accepted \cup {id}
      /\ node' = "log_award" /\ mission' = "working"
      /\ UNCHANGED <<cycle, bids, chosen, reEvals, mempool, notified>>
      /\ UNCHANGED <<chainVars, logVars>>
      /\ contracts' = contracts
  BY <1>2 DEF AcceptAward, stateVars, chainVars
<1>4. OuterInv /\ StateInv
  BY DEF GraphInv, OuterInv
<1>5. /\ ~SomeAccepted(id[1]) /\ TrailAt(id[1]) /\ AttemptsInv(id)
  BY <1>1, <1>2, NoneAccepted DEF ActiveInv, CurrentInv
<1>6. ContractsInv'
  BY <1>3, <1>4, ContractsUnchanged DEF OuterInv
<1>7. CyclesInv'
  <2>1. ASSUME NEW other \in AwardId
        PROVE  AwardInv(other)'
    BY <1>3, <1>4 DEF OuterInv, CyclesInv, AwardInv, StatusOf
  <2>2. ASSUME NEW a \in AwardId, NEW b \in AwardId
        PROVE  PairInv(a, b)'
    <3>1. PairInv(a, b)
      BY <1>4 DEF OuterInv, CyclesInv
    <3>2. a[1] = id[1] => a \notin accepted
      BY <1>5 DEF SomeAccepted, AwardsOf
    <3>3. b[1] = id[1] => b \notin accepted
      BY <1>5 DEF SomeAccepted, AwardsOf
    <3> QED
      BY <1>3, <3>1, <3>2, <3>3 DEF PairInv
  <2>3. ASSUME NEW r \in Cycle
        PROVE  TrailInv(r)'
    <3>1. TrailInv(r)
      BY <1>4 DEF OuterInv, CyclesInv
    <3>2. /\ SomeAccepted(r) => SomeAccepted(r)'
          /\ SomeAwardStands(r)' <=> SomeAwardStands(r)
          /\ \A s : Recorded(r, s)' <=> Recorded(r, s)
      BY <1>3, TrailsUnchanged DEF SomeAccepted, SomeAwardStands
    <3>3. CASE r = id[1]
      BY <1>5, <3>1, <3>2, <3>3 DEF TrailInv, TrailAt
    <3>4. CASE r # id[1]
      <4>1. \A other \in AwardsOf(r) : other \in accepted' <=> other \in accepted
        BY <1>3, <3>4 DEF AwardsOf
      <4>2. /\ SomeAccepted(r)' <=> SomeAccepted(r)
            /\ AcceptedClosed(r)' <=> AcceptedClosed(r)
        BY <1>3, <4>1 DEF SomeAccepted, AcceptedClosed, AwardsOf, Chain!Open,
                          Chain!Exists, Chain!Finalised
      <4> QED
        BY <3>1, <3>2, <4>2 DEF TrailInv
    <3> QED
      BY <3>3, <3>4
  <2> QED
    BY <2>1, <2>2, <2>3 DEF CyclesInv
<1>8. MempoolInv'
  <2> SUFFICES ASSUME NEW t \in {mempool} \ {NoTx}
               PROVE  Justified(t)' /\ TxCycle(t) < cycle
    BY <1>3 DEF MempoolInv
  <2>1. Justified(t) /\ TxCycle(t) < cycle
    BY <1>1, <1>4 DEF OuterInv, MempoolInv
  <2>2. cycle \in Int
    BY <1>4, GraphAssumption DEF StateInv, Cycle
  <2>3. \A other \in AwardId :
          other[1] = TxCycle(t) => (other \in accepted' <=> other \in accepted)
    BY <1>2, <1>3, <2>1, <2>2
  <2>4. Justified(t)'
    BY <1>3, <2>1, <2>3, JustifiedLasts
  <2> QED
    BY <2>1, <2>4
<1>9. NotifiedInv'
  BY <1>3, <1>4
     DEF OuterInv, NotifiedInv, SettlementBacked, SettlementConfirmed, StatusOf
<1>10. FutureInv'
  <2>1. ~(id[1] > cycle)
    BY <1>2, <1>4, GraphAssumption DEF StateInv, Cycle
  <2> QED
    BY <1>3, <1>4, <2>1, TrailsUnchanged DEF OuterInv, FutureInv, Chain!Exists
<1>11. StateInv'
  BY <1>3, <1>4 DEF StateInv, Nodes, ExecutionUpdate
<1>12. ActiveInv(id)'
  <2>1. CurrentInv(id)'
    BY <1>1, <1>2, <1>3
       DEF ActiveInv, CurrentInv, Unplaced, Executing, StatusAt,
           Chain!Exists, StatusOf
  <2>2. AttemptsInv(id)'
    BY <1>3, <1>5, AttemptsKept
  <2>3. TrailAt(id[1])'
    BY <1>1, <1>3, <1>5, TrailsUnchanged DEF TrailAt, StagesAt
  <2> QED
    BY <1>1, <1>2, <1>3, <2>1, <2>2, <2>3 DEF ActiveInv, Choosing
<1> QED
  BY <1>2, <1>3, <1>6, <1>7, <1>8, <1>9, <1>10, <1>11, <1>12
     DEF GraphInv, CurrentAward

LEMMA RejectAwardKeeps ==
  ASSUME GraphInv, RejectAward, UNCHANGED revertRaises
  PROVE  GraphInv'
<1>1. node = "accept_award" /\ node \notin Over
  BY DEF RejectAward, Over
<1>2. PICK id \in AwardId : /\ id = CurrentAward /\ ActiveInv(id)
                            /\ id[1] = cycle /\ id[2] = reEvals
  BY <1>1, CurrentExists
<1>3. /\ node' = "log_award"
      /\ UNCHANGED <<cycle, bids, chosen, reEvals, mempool>>
      /\ UNCHANGED <<mission, accepted, notified>>
      /\ UNCHANGED <<chainVars, logVars>>
      /\ contracts' = contracts
  BY DEF RejectAward, stateVars, worldVars, chainVars
<1>4. OuterInv /\ StateInv
  BY DEF GraphInv, OuterInv
<1>5. OuterInv'
  BY <1>1, <1>3, <1>4, QuietStep DEF StateInv
<1>6. StateInv'
  BY <1>3, <1>4 DEF StateInv, Nodes
<1>7. ActiveInv(id)'
  <2>1. CurrentInv(id)'
    BY <1>1, <1>2, <1>3
       DEF ActiveInv, CurrentInv, Unplaced, Executing, StatusAt,
           Chain!Exists, StatusOf
  <2>2. AttemptsInv(id)'
    BY <1>2, <1>3, AttemptsKept DEF ActiveInv
  <2>3. TrailAt(id[1])'
    BY <1>1, <1>2, <1>3, TrailsUnchanged DEF ActiveInv, TrailAt, StagesAt
  <2> QED
    BY <1>1, <1>2, <1>3, <2>1, <2>2, <2>3 DEF ActiveInv, Choosing
<1> QED
  BY <1>2, <1>3, <1>5, <1>6, <1>7 DEF GraphInv, OuterInv, CurrentAward

LEMMA InterruptedKeeps ==
  ASSUME GraphInv, Interrupted, UNCHANGED revertRaises
  PROVE  GraphInv'
BY RaisesKeeps DEF Interrupted, AcceptRaises, MonitorRaises, Over

\* After a rejection the next attempt starts, and no bid still held is that
\* of a producer an earlier award names.
LEMMA RejectedStep ==
  ASSUME GraphInv, node = "log_award",
         NEW id \in AwardId, id = CurrentAward, ActiveInv(id),
         id[1] = cycle, id[2] = reEvals, id \notin accepted,
         ReturnedInv, contracts' = contracts,
         LastStage(id[1])' = "AWARDED",
         \A st : Recorded(id[1], st)' <=> Recorded(id[1], st) \/ st = "AWARDED",
         bids' = Without(bids, chosen.producer),
         reEvals' = reEvals + 1,
         node' = IF reEvals' < MAX_RE_EVALS THEN "evaluate_bids"
                                            ELSE "handle_failure",
         UNCHANGED <<cycle, chosen, mission, accepted, notified, revertRaises>>
  PROVE  GraphInv'
<1>1. /\ reEvals \in Nat /\ reEvals < MAX_RE_EVALS /\ MAX_RE_EVALS \in Nat
      /\ StateInv
  BY GraphAssumption DEF ActiveInv, GraphInv, StateInv
<1>2. PICK id2 \in AwardId : id2 = <<cycle, reEvals + 1>>
  <2>1. cycle \in Cycle /\ reEvals + 1 \in 0 .. MAX_RE_EVALS
    BY <1>1 DEF StateInv
  <2> QED
    BY <2>1 DEF AwardId
<1>3. /\ id2 = CurrentAward' /\ id2[1] = id[1] /\ id2[2] = id[2] + 1
      /\ AwardsOf(id2[1]) = AwardsOf(id[1]) /\ id2 \in AwardsOf(id[1])
      /\ id2[2] > id[2] /\ id[2] \in Nat
  BY <1>1, <1>2 DEF CurrentAward, AwardsOf
<1>4. /\ DOMAIN bids' \subseteq DOMAIN bids
      /\ \A i \in DOMAIN bids' : bids'[i] = bids[i]
                                   /\ bids[i].producer # chosen.producer
  BY DEF Without, Restrict
<1>5. PICK k \in DOMAIN bids : /\ chosen = bids[k]
                               /\ chosen.producer \in Producer
  <2>1. PICK k \in DOMAIN bids : chosen = bids[k]
    BY DEF ActiveInv, Choosing
  <2> QED
    BY <1>1, <2>1, BidsType
<1>6. \A i \in DOMAIN bids' : bids[i].producer \in Producer
  BY <1>1, <1>4, BidsType
<1>7. node' \in {"evaluate_bids", "handle_failure"}
  OBVIOUS
<1>8. StateInv'
  BY <1>1, <1>4, <1>7 DEF StateInv, Nodes
<1>9. AttemptsInv(id) /\ CurrentInv(id) /\ TrailAt(id[1])
  BY DEF ActiveInv
<1>10. CurrentInv(id2)'
  <2>1. ~Chain!Exists(id2) /\ id2 \notin accepted
    BY <1>3, <1>9 DEF AttemptsInv
  <2> QED
    BY <1>7, <2>1 DEF CurrentInv, Unplaced, Executing, Chain!Exists
<1>11. AttemptsInv(id2)'
  <2> SUFFICES ASSUME NEW other \in AwardsOf(id[1])
               PROVE  /\ other[2] > id2[2] => ~Chain!Exists(other)'
                                              /\ other \notin accepted'
                      /\ other[2] < id2[2] =>
                           /\ other \notin accepted'
                           /\ \A i \in DOMAIN bids' :
                                contracts'[other].producer
                                  # WalletOf[bids'[i].producer]
    BY <1>3 DEF AttemptsInv, AwardsOf
  <2>1. other \in AwardId /\ other[1] = id[1] /\ other[2] \in Nat
    BY AwardIdParts DEF AwardsOf
  <2>2. CASE other[2] > id2[2]
    <3>1. other[2] > id[2] /\ ~(other[2] < id2[2])
      BY <1>3, <2>1, <2>2
    <3> QED
      BY <1>9, <3>1 DEF AttemptsInv, Chain!Exists
  <2>3. CASE other[2] < id[2]
    <3>1. ~(other[2] > id2[2])
      BY <1>3, <2>1, <2>3
    <3> QED
      BY <1>4, <1>9, <2>3, <3>1 DEF AttemptsInv
  <2>4. CASE other = id
    <3>1. ~(other[2] > id2[2])
      BY <1>3, <2>1, <2>4
    <3>2. contracts[id].producer \in {Zero, WalletOf[chosen.producer]}
      <4>1. CASE Chain!Exists(id)
        BY <1>9, <4>1 DEF CurrentInv
      <4>2. CASE ~Chain!Exists(id)
        BY <4>2, ContractsFacts DEF GraphInv, Chain!NoContract
      <4> QED
        BY <4>1, <4>2
    <3>3. ASSUME NEW i \in DOMAIN bids'
          PROVE  contracts[id].producer # WalletOf[bids'[i].producer]
      <4>1. PICK p \in Producer : p = bids'[i].producer /\ p # chosen.producer
        BY <1>4, <1>6
      <4>2. WalletOf[p] # WalletOf[chosen.producer] /\ WalletOf[p] # Zero
        BY <1>5, <4>1, GraphAssumption
      <4> QED
        BY <3>2, <4>1, <4>2
    <3> QED
      BY <2>4, <3>1, <3>3
  <2>5. CASE other[2] = id2[2]
    BY <1>3, <2>1, <2>5
  <2> QED
    BY <1>3, <2>1, <2>2, <2>3, <2>4, <2>5, AwardIdParts
<1>12. TrailAt(id2[1])'
  BY <1>3, <1>7, <1>9 DEF TrailAt, StagesAt
<1>13. ActiveInv(id2)'
  <2>1. node' # "handle_failure" => reEvals' < MAX_RE_EVALS
    OBVIOUS
  <2> QED
    BY <1>7, <1>10, <1>11, <1>12, <2>1 DEF ActiveInv, Choosing
<1> QED
  BY <1>3, <1>8, <1>13, Reassembled

LEMMA LogAwardKeeps ==
  ASSUME GraphInv, LogAward, UNCHANGED revertRaises
  PROVE  GraphInv'
<1>1. node = "log_award" /\ node \notin Over
  BY DEF LogAward, Over
<1>2. PICK id \in AwardId : /\ id = CurrentAward /\ ActiveInv(id)
                            /\ id[1] = cycle /\ id[2] = reEvals
  BY <1>1, CurrentExists
<1>3. PICK tx : tx = LogTx("AWARDED")
  OBVIOUS
<1>4. LogJustified(id[1], "AWARDED") /\ "AWARDED" \in Log!Stage
  BY <1>1, <1>2, LogsJustified DEF LogReasons, Log!Stage
<1>5. Justified(tx) /\ TxCycle(tx) = cycle
  BY <1>2, <1>3, <1>4, LogSent
<1>6. CASE Returns(tx) /\ id \in accepted /\ GoTo("monitor_execution")
  <2>1. /\ node' = "monitor_execution"
        /\ UNCHANGED <<cycle, bids, chosen, reEvals>>
        /\ UNCHANGED <<mission, accepted, notified>>
    BY <1>6 DEF GoTo, stateVars, worldVars
  <2>2. /\ ReturnedInv /\ contracts' = contracts
        /\ LastStage(id[1])' = "AWARDED"
        /\ \A st : Recorded(id[1], st)' <=>
                     Recorded(id[1], st) \/ st = "AWARDED"
    BY <1>2, <1>3, <1>4, <1>6, <2>1, LogReturned
  <2>3. StateInv'
    BY <2>1 DEF GraphInv, StateInv, Nodes
  <2>4. CurrentInv(id)'
    BY <1>1, <1>2, <1>6, <2>1, <2>2
       DEF ActiveInv, CurrentInv, Unplaced, Executing, StatusAt,
           Chain!Exists, StatusOf
  <2>5. AttemptsInv(id)'
    BY <1>2, <2>1, <2>2, AttemptsKept DEF ActiveInv
  <2>6. TrailAt(id[1])'
    BY <1>2, <2>1, <2>2 DEF ActiveInv, TrailAt, StagesAt
  <2>7. ActiveInv(id)'
    BY <1>1, <1>2, <2>1, <2>4, <2>5, <2>6 DEF ActiveInv, Choosing
  <2> QED
    BY <1>2, <2>1, <2>2, <2>3, <2>7, Reassembled DEF CurrentAward
<1>7. CASE /\ Returns(tx) /\ id \notin accepted
           /\ bids' = Without(bids, chosen.producer)
           /\ reEvals' = reEvals + 1
           /\ node' = IF reEvals' < MAX_RE_EVALS THEN "evaluate_bids"
                                                 ELSE "handle_failure"
           /\ UNCHANGED <<cycle, chosen, worldVars>>
  <2>1. UNCHANGED <<cycle, chosen, mission, accepted, notified>>
    BY <1>7 DEF worldVars
  <2>2. /\ ReturnedInv /\ contracts' = contracts
        /\ LastStage(id[1])' = "AWARDED"
        /\ \A st : Recorded(id[1], st)' <=>
                     Recorded(id[1], st) \/ st = "AWARDED"
    BY <1>2, <1>3, <1>4, <1>7, <2>1, LogReturned
  <2> QED
    BY <1>1, <1>2, <1>7, <2>1, <2>2, RejectedStep
<1>8. CASE (Refused(tx) \/ TimesOut(tx)) /\ Raises
  BY <1>1, <1>5, <1>8, LostStep
<1> QED
  BY <1>2, <1>3, <1>6, <1>7, <1>8 DEF LogAward, Call

LEMMA MonitorExecutionKeeps ==
  ASSUME GraphInv, MonitorExecution, UNCHANGED revertRaises
  PROVE  GraphInv'
<1>1. node = "monitor_execution" /\ node \notin Over
  BY DEF MonitorExecution, Over
<1>2. PICK id \in AwardId : /\ id = CurrentAward /\ ActiveInv(id)
                            /\ id[1] = cycle /\ id[2] = reEvals
  BY <1>1, CurrentExists
<1>3. PICK tx : tx = LogTx("EXECUTING")
  OBVIOUS
<1>4. LogJustified(id[1], "EXECUTING") /\ "EXECUTING" \in Log!Stage
  BY <1>1, <1>2, LogsJustified DEF LogReasons, Log!Stage
<1>5. Justified(tx) /\ TxCycle(tx) = cycle
  BY <1>2, <1>3, <1>4, LogSent
<1>6. CASE Returns(tx) /\ GoTo("confirm_delivery")
  <2>1. /\ node' = "confirm_delivery"
        /\ UNCHANGED <<cycle, bids, chosen, reEvals>>
        /\ UNCHANGED <<mission, accepted, notified>>
    BY <1>6 DEF GoTo, stateVars, worldVars
  <2>2. /\ ReturnedInv /\ contracts' = contracts
        /\ LastStage(id[1])' = "EXECUTING"
        /\ \A st : Recorded(id[1], st)' <=>
                     Recorded(id[1], st) \/ st = "EXECUTING"
    BY <1>2, <1>3, <1>4, <1>6, <2>1, LogReturned
  <2>3. StateInv'
    BY <2>1 DEF GraphInv, StateInv, Nodes
  <2>4. CurrentInv(id)'
    BY <1>1, <1>2, <2>1, <2>2
       DEF ActiveInv, CurrentInv, Unplaced, Executing, StatusAt,
           Chain!Exists, StatusOf
  <2>5. AttemptsInv(id)'
    BY <1>2, <2>1, <2>2, AttemptsKept DEF ActiveInv
  <2>6. TrailAt(id[1])'
    BY <1>2, <2>1, <2>2 DEF ActiveInv, TrailAt, StagesAt
  <2>7. ActiveInv(id)'
    BY <1>1, <1>2, <2>1, <2>4, <2>5, <2>6 DEF ActiveInv, Choosing
  <2> QED
    BY <1>2, <2>1, <2>2, <2>3, <2>7, Reassembled DEF CurrentAward
<1>7. CASE (Refused(tx) \/ TimesOut(tx)) /\ Raises
  BY <1>1, <1>5, <1>7, LostStep
<1> QED
  BY <1>3, <1>6, <1>7 DEF MonitorExecution, Call

LEMMA ConfirmDeliveryKeeps ==
  ASSUME GraphInv, ConfirmDelivery, UNCHANGED revertRaises
  PROVE  GraphInv'
<1>1. node = "confirm_delivery" /\ node \notin Over
  BY DEF ConfirmDelivery, Over
<1>2. PICK id \in AwardId : /\ id = CurrentAward /\ ActiveInv(id)
                            /\ id[1] = cycle /\ id[2] = reEvals
  BY <1>1, CurrentExists
<1>3. PICK tx : tx = DeliveryTx(id)
  OBVIOUS
<1>4. /\ id \in accepted
      /\ revertRaises => Chain!Exists(id)
      /\ Chain!Exists(id) => StatusOf(id) = "AWARDED"
  BY <1>1, <1>2 DEF ActiveInv, CurrentInv, Unplaced, Executing, StatusAt
<1>5. Justified(tx) /\ TxCycle(tx) = cycle
  BY <1>1, <1>2, <1>3, CallsJustified
<1>6. CASE Returns(tx) /\ GoTo("settle_payment")
  <2>1. /\ node' = "settle_payment"
        /\ UNCHANGED <<cycle, bids, chosen, reEvals>>
        /\ UNCHANGED <<mission, accepted, notified>>
    BY <1>6 DEF GoTo, stateVars, worldVars
  <2>2. ReturnedInv
    BY <1>5, <1>6, <2>1, ReturnedStep
  <2>3. /\ OthersKept(id)
        /\ revertRaises => Chain!Exists(id)'
        /\ Chain!Exists(id)' => StatusOf(id)' = "DELIVERED"
    <3>1. CASE Executes(tx)
      <4>1. /\ UNCHANGED logVars /\ Chain!Exists(id)
            /\ contracts' = [contracts EXCEPT ![id].deliveryHash = "evidence",
                                              ![id].status = "DELIVERED"]
        BY <1>3, <3>1, DeliveryExecuted DEF GraphInv
      <4>2. /\ contracts'[id] = [contracts[id] EXCEPT
                   !.deliveryHash = "evidence", !.status = "DELIVERED"]
            /\ contracts[id] \in Chain!ProcurementContract
            /\ \A other \in AwardId : other # id =>
                 contracts'[other] = contracts[other]
        BY <4>1, ContractsFacts DEF GraphInv
      <4>3. /\ contracts'[id].status = "DELIVERED"
            /\ contracts'[id].createdAt = contracts[id].createdAt
        BY <4>2 DEF Chain!ProcurementContract
      <4>4. OthersKept(id)
        BY <4>1, <4>2, TrailsUnchanged DEF OthersKept
      <4> QED
        BY <4>1, <4>3, <4>4 DEF StatusOf, Chain!Exists
    <3>2. CASE /\ ~Accepts(tx) /\ ~revertRaises
               /\ UNCHANGED <<chainVars, logVars>>
      <4>1. contracts' = contracts /\ UNCHANGED logVars
        BY <3>2 DEF chainVars
      <4>2. ~Chain!Exists(id)
        BY <1>3, <1>4, <3>2, ContractsFacts
           DEF GraphInv, Accepts, DeliveryTx, Chain!CanConfirmDelivery,
               Chain!OnlyBroker, StatusOf
      <4> QED
        BY <3>2, <4>1, <4>2, TrailsUnchanged DEF OthersKept, Chain!Exists
    <3> QED
      BY <1>6, <3>1, <3>2 DEF Returns
  <2>4. StateInv'
    BY <2>1 DEF GraphInv, StateInv, Nodes
  <2>5. CurrentInv(id)'
    BY <1>4, <2>1, <2>3 DEF CurrentInv, Unplaced, Executing, StatusAt
  <2>6. AttemptsInv(id)'
    BY <1>2, <2>1, <2>3, AttemptsKept DEF ActiveInv, OthersKept
  <2>7. TrailAt(id[1])'
    BY <1>1, <1>2, <2>1, <2>3 DEF ActiveInv, TrailAt, StagesAt, OthersKept
  <2>8. ActiveInv(id)'
    BY <1>1, <1>2, <2>1, <2>5, <2>6, <2>7 DEF ActiveInv, Choosing
  <2> QED
    BY <1>2, <2>1, <2>2, <2>4, <2>8, Reassembled DEF CurrentAward
<1>7. CASE (Refused(tx) \/ TimesOut(tx)) /\ Raises
  BY <1>1, <1>5, <1>7, LostStep
<1> QED
  BY <1>2, <1>3, <1>6, <1>7 DEF ConfirmDelivery, Call

\* A delivered award can be paid: it names a producer, and the escrow holds
\* its price.
LEMMA DeliveredCanSettle ==
  ASSUME GraphInv, NEW id \in AwardId,
         Chain!Exists(id), StatusOf(id) = "DELIVERED"
  PROVE  Chain!CanSettle(Wallet, id)
<1>1. PICK i \in DOMAIN Offers :
        contracts[id].producer = WalletOf[Offers[i].producer]
  BY DEF GraphInv, CyclesInv, AwardInv
<1>2. contracts[id].producer # Zero /\ Escrow # Zero
  BY <1>1, OffersType, GraphAssumption
<1>3. EP!Open(id)
  BY DEF EP!Open, EP!Exists, EP!Finalised, Chain!Exists, StatusOf
<1>4. contracts[id].amountUsdc <= balance[Escrow]
  BY <1>3, EP!OpenPayable, ContractAssumptions DEF GraphInv, ContractsInv
<1> QED
  BY <1>2, <1>4, ContractsFacts
     DEF GraphInv, Chain!CanSettle, Chain!CanMove, Chain!OnlyBroker, StatusOf

LEMMA SettlePaymentKeeps ==
  ASSUME GraphInv, SettlePayment, UNCHANGED revertRaises
  PROVE  GraphInv'
<1>1. node = "settle_payment" /\ node \notin Over
  BY DEF SettlePayment, Over
<1>2. PICK id \in AwardId : /\ id = CurrentAward /\ ActiveInv(id)
                            /\ id[1] = cycle /\ id[2] = reEvals
  BY <1>1, CurrentExists
<1>3. PICK tx : tx = SettleTx(id)
  OBVIOUS
<1>4. /\ id \in accepted
      /\ revertRaises => Chain!Exists(id)
      /\ Chain!Exists(id) => StatusOf(id) = "DELIVERED"
  BY <1>1, <1>2 DEF ActiveInv, CurrentInv, Unplaced, Executing, StatusAt
<1>5. Justified(tx) /\ TxCycle(tx) = cycle
  BY <1>1, <1>2, <1>3, CallsJustified
<1>6. CASE Returns(tx) /\ GoTo("log_delivered")
  <2>1. /\ node' = "log_delivered"
        /\ UNCHANGED <<cycle, bids, chosen, reEvals>>
        /\ UNCHANGED <<mission, accepted, notified>>
    BY <1>6 DEF GoTo, stateVars, worldVars
  <2>2. ReturnedInv
    BY <1>5, <1>6, <2>1, ReturnedStep
  <2>3. /\ OthersKept(id)
        /\ revertRaises => Chain!Exists(id)'
        /\ Chain!Exists(id)' => StatusOf(id)' = "SETTLED"
    <3>1. CASE Executes(tx)
      <4>1. /\ UNCHANGED logVars /\ Chain!Exists(id)
            /\ contracts' = [contracts EXCEPT ![id].status = "SETTLED",
                                              ![id].settledAt = TRUE]
        BY <1>3, <3>1, SettleExecuted DEF GraphInv
      <4>2. /\ contracts'[id] = [contracts[id] EXCEPT
                   !.status = "SETTLED", !.settledAt = TRUE]
            /\ contracts[id] \in Chain!ProcurementContract
            /\ \A other \in AwardId : other # id =>
                 contracts'[other] = contracts[other]
        BY <4>1, ContractsFacts DEF GraphInv
      <4>3. /\ contracts'[id].status = "SETTLED"
            /\ contracts'[id].createdAt = contracts[id].createdAt
        BY <4>2 DEF Chain!ProcurementContract
      <4>4. OthersKept(id)
        BY <4>1, <4>2, TrailsUnchanged DEF OthersKept
      <4> QED
        BY <4>1, <4>3, <4>4 DEF StatusOf, Chain!Exists
    <3>2. CASE /\ ~Accepts(tx) /\ ~revertRaises
               /\ UNCHANGED <<chainVars, logVars>>
      <4>1. contracts' = contracts /\ UNCHANGED logVars
        BY <3>2 DEF chainVars
      <4>2. ~Chain!Exists(id)
        <5>1. tx.fn = "settlePayment" /\ tx.award = id
          BY <1>3 DEF SettleTx
        <5>2. ~Chain!CanSettle(Wallet, id)
          BY <3>2, <5>1 DEF Accepts
        <5> QED
          BY <1>4, <5>2, DeliveredCanSettle
      <4> QED
        BY <3>2, <4>1, <4>2, TrailsUnchanged DEF OthersKept, Chain!Exists
    <3> QED
      BY <1>6, <3>1, <3>2 DEF Returns
  <2>4. StateInv'
    BY <2>1 DEF GraphInv, StateInv, Nodes
  <2>5. CurrentInv(id)'
    BY <1>4, <2>1, <2>3 DEF CurrentInv, Unplaced, Executing, StatusAt
  <2>6. AttemptsInv(id)'
    BY <1>2, <2>1, <2>3, AttemptsKept DEF ActiveInv, OthersKept
  <2>7. TrailAt(id[1])'
    BY <1>1, <1>2, <2>1, <2>3 DEF ActiveInv, TrailAt, StagesAt, OthersKept
  <2>8. ActiveInv(id)'
    BY <1>1, <1>2, <2>1, <2>5, <2>6, <2>7 DEF ActiveInv, Choosing
  <2> QED
    BY <1>2, <2>1, <2>2, <2>4, <2>8, Reassembled DEF CurrentAward
<1>7. CASE (Refused(tx) \/ TimesOut(tx)) /\ Raises
  BY <1>1, <1>5, <1>7, LostStep
<1> QED
  BY <1>2, <1>3, <1>6, <1>7 DEF SettlePayment, Call

LEMMA LogDeliveredKeeps ==
  ASSUME GraphInv, LogDelivered, UNCHANGED revertRaises
  PROVE  GraphInv'
<1>1. node = "log_delivered" /\ node \notin Over
  BY DEF LogDelivered, Over
<1>2. PICK id \in AwardId : /\ id = CurrentAward /\ ActiveInv(id)
                            /\ id[1] = cycle /\ id[2] = reEvals
  BY <1>1, CurrentExists
<1>3. PICK tx : tx = LogTx("DELIVERED")
  OBVIOUS
<1>4. LogJustified(id[1], "DELIVERED") /\ "DELIVERED" \in Log!Stage
  BY <1>1, <1>2, LogsJustified DEF LogReasons, Log!Stage
<1>5. Justified(tx) /\ TxCycle(tx) = cycle
  BY <1>2, <1>3, <1>4, LogSent
<1>6. CASE Returns(tx) /\ GoTo("log_settled")
  <2>1. /\ node' = "log_settled"
        /\ UNCHANGED <<cycle, bids, chosen, reEvals>>
        /\ UNCHANGED <<mission, accepted, notified>>
    BY <1>6 DEF GoTo, stateVars, worldVars
  <2>2. /\ ReturnedInv /\ contracts' = contracts
        /\ LastStage(id[1])' = "DELIVERED"
        /\ \A st : Recorded(id[1], st)' <=>
                     Recorded(id[1], st) \/ st = "DELIVERED"
    BY <1>2, <1>3, <1>4, <1>6, <2>1, LogReturned
  <2>3. StateInv'
    BY <2>1 DEF GraphInv, StateInv, Nodes
  <2>4. CurrentInv(id)'
    BY <1>1, <1>2, <2>1, <2>2
       DEF ActiveInv, CurrentInv, Unplaced, Executing, StatusAt,
           Chain!Exists, StatusOf
  <2>5. AttemptsInv(id)'
    BY <1>2, <2>1, <2>2, AttemptsKept DEF ActiveInv
  <2>6. TrailAt(id[1])'
    BY <1>2, <2>1, <2>2 DEF ActiveInv, TrailAt, StagesAt
  <2>7. ActiveInv(id)'
    BY <1>1, <1>2, <2>1, <2>4, <2>5, <2>6 DEF ActiveInv, Choosing
  <2> QED
    BY <1>2, <2>1, <2>2, <2>3, <2>7, Reassembled DEF CurrentAward
<1>7. CASE (Refused(tx) \/ TimesOut(tx)) /\ Raises
  BY <1>1, <1>5, <1>7, LostStep
<1> QED
  BY <1>3, <1>6, <1>7 DEF LogDelivered, Call

LEMMA LogSettledKeeps ==
  ASSUME GraphInv, LogSettled, UNCHANGED revertRaises
  PROVE  GraphInv'
<1>1. node = "log_settled" /\ node \notin Over
  BY DEF LogSettled, Over
<1>2. PICK id \in AwardId : /\ id = CurrentAward /\ ActiveInv(id)
                            /\ id[1] = cycle /\ id[2] = reEvals
  BY <1>1, CurrentExists
<1>3. PICK tx : tx = LogTx("SETTLED")
  OBVIOUS
<1>4. LogJustified(id[1], "SETTLED") /\ "SETTLED" \in Log!Stage
  BY <1>1, <1>2, LogsJustified DEF LogReasons, Log!Stage
<1>5. Justified(tx) /\ TxCycle(tx) = cycle
  BY <1>2, <1>3, <1>4, LogSent
<1>6. CASE /\ Returns(tx)
           /\ notified' = notified \cup {CurrentAward}
           /\ node' = "settled"
           /\ UNCHANGED <<stateVars, mission, accepted>>
  <2>1. /\ node' = "settled"
        /\ UNCHANGED <<cycle, bids, chosen, reEvals>>
        /\ UNCHANGED <<mission, accepted>>
        /\ notified' = notified \cup {id}
    BY <1>2, <1>6 DEF stateVars
  <2>2. ReturnedInv /\ contracts' = contracts
    BY <1>2, <1>3, <1>4, <1>6, <2>1, LogReturned
  <2>3. StateInv'
    BY <2>1 DEF GraphInv, StateInv, Nodes, Over
  <2>4. NotifiedInv'
    <3>1. id \in accepted /\ (revertRaises => StatusOf(id) = "SETTLED")
      BY <1>1, <1>2, PaidBeforeRecorded
    <3> QED
      BY <2>1, <2>2, <3>1 DEF ReturnedInv, NotifiedInv, SettlementBacked,
                              SettlementConfirmed, StatusOf
  <2> QED
    BY <2>1, <2>2, <2>3, <2>4 DEF ReturnedInv, GraphInv, Over
<1>7. CASE Returns(tx) /\ Raises
  <2>1. /\ node' = "raised"
        /\ UNCHANGED <<cycle, bids, chosen, reEvals>>
        /\ UNCHANGED <<mission, accepted, notified>>
    BY <1>7 DEF Raises, stateVars, worldVars
  <2>2. ReturnedInv
    BY <1>2, <1>3, <1>4, <1>7, <2>1, LogReturned
  <2>3. StateInv'
    BY <2>1 DEF GraphInv, StateInv, Nodes, Over
  <2> QED
    BY <1>2, <2>1, <2>2, <2>3, Reassembled DEF CurrentAward, Over
<1>8. CASE (Refused(tx) \/ TimesOut(tx)) /\ Raises
  BY <1>1, <1>5, <1>8, LostStep
<1> QED
  BY <1>3, <1>6, <1>7, <1>8 DEF LogSettled, Call, ConsumerRaises

LEMMA HandleFailureKeeps ==
  ASSUME GraphInv, HandleFailure, UNCHANGED revertRaises
  PROVE  GraphInv'
<1>1. node = "handle_failure" /\ node \notin Over
  BY DEF HandleFailure, Over
<1>2. PICK id \in AwardId : /\ id = CurrentAward /\ ActiveInv(id)
                            /\ id[1] = cycle /\ id[2] = reEvals
  BY <1>1, CurrentExists
<1>3. PICK tx : tx = LogTx("FAILED")
  OBVIOUS
<1>4. LogJustified(id[1], "FAILED") /\ "FAILED" \in Log!Stage
  BY <1>1, <1>2, LogsJustified DEF LogReasons, Log!Stage
<1>5. Justified(tx) /\ TxCycle(tx) = cycle
  BY <1>2, <1>3, <1>4, LogSent
<1>6. CASE Returns(tx) /\ (GoTo("failed") \/ Raises)
  <2>1. /\ node' \in {"failed", "raised"}
        /\ UNCHANGED <<cycle, bids, chosen, reEvals>>
        /\ UNCHANGED <<mission, accepted, notified>>
    BY <1>6 DEF GoTo, Raises, stateVars, worldVars
  <2>2. ReturnedInv
    BY <1>2, <1>3, <1>4, <1>6, <2>1, LogReturned
  <2>3. StateInv'
    BY <2>1 DEF GraphInv, StateInv, Nodes, Over
  <2> QED
    BY <1>2, <2>1, <2>2, <2>3, Reassembled DEF CurrentAward, Over
<1>7. CASE (Refused(tx) \/ TimesOut(tx)) /\ Raises
  BY <1>1, <1>5, <1>7, LostStep
<1> QED
  BY <1>3, <1>6, <1>7 DEF HandleFailure, Call, ConsumerRaises

-----------------------------------------------------------------------------
(* Between the cycles and around them *)

\* A running cycle stays where it is while its own awards and trail do.
LEMMA ActiveFramed ==
  ASSUME NEW id \in AwardId, ActiveInv(id),
         UNCHANGED <<node, bids, chosen, reEvals, accepted, revertRaises>>,
         \A other \in AwardsOf(id[1]) : contracts'[other] = contracts[other],
         Trail(id[1])' = Trail(id[1])
  PROVE  ActiveInv(id)'
<1>1. id \in AwardsOf(id[1]) /\ contracts'[id] = contracts[id]
  BY DEF AwardsOf
<1>2. CurrentInv(id)'
  BY <1>1 DEF ActiveInv, CurrentInv, Chain!Exists, StatusOf
<1>3. AttemptsInv(id)'
  BY DEF ActiveInv, AttemptsInv, AwardsOf, Chain!Exists
<1>4. TrailAt(id[1])'
  BY DEF ActiveInv, TrailAt, LastStage, Recorded
<1> QED
  BY <1>2, <1>3, <1>4 DEF ActiveInv

\* A step that changes nothing but what the partner has done.
LEMMA IdleKeeps ==
  ASSUME GraphInv,
         UNCHANGED <<chainVars, logVars, node, cycle, bids, chosen, reEvals>>,
         UNCHANGED <<mempool, accepted, notified, revertRaises>>,
         mission' \in {"none", "working", "complete", "failed"}
  PROVE  GraphInv'
<1>1. OuterInv /\ StateInv
  BY DEF GraphInv, OuterInv
<1>2. OuterInv'
  BY <1>1, QuietStep DEF StateInv
<1>3. StateInv'
  BY <1>1 DEF StateInv, ExecutionUpdate
<1>4. ASSUME node \notin Over
      PROVE  \A id \in AwardId : id = CurrentAward' => ActiveInv(id)'
  <2>1. PICK id \in AwardId : /\ id = CurrentAward /\ ActiveInv(id)
                              /\ id[1] = cycle /\ id[2] = reEvals
    BY <1>4, CurrentExists
  <2>2. contracts' = contracts /\ id = CurrentAward'
    BY <2>1 DEF chainVars, CurrentAward
  <2>3. ActiveInv(id)'
    BY <2>1, <2>2, TrailsUnchanged, ActiveFramed
  <2> QED
    BY <2>2, <2>3
<1> QED
  BY <1>2, <1>3, <1>4 DEF GraphInv, OuterInv

LEMMA StutterKeeps == GraphInv /\ UNCHANGED vars => GraphInv'
<1> SUFFICES ASSUME GraphInv, UNCHANGED vars PROVE GraphInv'
  OBVIOUS
<1>1. /\ UNCHANGED <<chainVars, logVars, node, cycle, bids, chosen, reEvals>>
      /\ UNCHANGED <<mempool, accepted, notified, revertRaises, mission>>
  BY DEF vars, stateVars, worldVars
<1> QED
  BY <1>1, IdleKeeps DEF GraphInv, StateInv, ExecutionUpdate

LEMMA PartnerReportsKeeps ==
  ASSUME GraphInv, PartnerReports
  PROVE  GraphInv'
BY IdleKeeps DEF PartnerReports, stateVars, MissionCompletes, MissionFails, ExecutionUpdate

\* A forgotten transaction is that of an earlier cycle, or of one that raised.
LEMMA MinedLateKeeps ==
  ASSUME GraphInv, MinedLate, UNCHANGED revertRaises
  PROVE  GraphInv'
<1>1. PICK tx : tx = mempool
  OBVIOUS
<1>2. /\ tx # NoTx /\ mempool' = NoTx
      /\ Executes(tx) \/ UNCHANGED <<chainVars, logVars>>
      /\ UNCHANGED <<node, cycle, bids, chosen, reEvals>>
      /\ UNCHANGED <<mission, accepted, notified>>
  BY <1>1 DEF MinedLate, stateVars, worldVars
<1>3. OuterInv /\ StateInv
  BY DEF GraphInv, OuterInv
<1>4. /\ Justified(tx)
      /\ TxCycle(tx) < cycle \/ (TxCycle(tx) = cycle /\ node = "raised")
  BY <1>1, <1>2, <1>3 DEF OuterInv, MempoolInv
<1>5. cycle \in Int
  BY <1>3, GraphAssumption DEF StateInv, Cycle
<1>6. TxCycle(tx) \in Int
  BY <1>4, GraphAssumption
     DEF Justified, TxCycle, IsLogTx, CreateTx, AwardTx, DeliveryTx,
         SettleTx, Cycle, AwardId
<1>7. /\ ContractsInv' /\ CyclesInv' /\ Framed(tx)
  <2>1. CASE Executes(tx)
    BY <1>2, <1>3, <1>4, <2>1, ExecutedKeeps DEF OuterInv
  <2>2. CASE UNCHANGED <<chainVars, logVars>>
    <3>1. contracts' = contracts /\ UNCHANGED logVars
      BY <2>2 DEF chainVars
    <3>2. Framed(tx)
      BY <3>1, TrailsUnchanged DEF Framed, StatusOf
    <3> QED
      BY <1>2, <1>3, <2>2, <3>2, ContractsUnchanged, CyclesUnchanged
         DEF OuterInv
  <2> QED
    BY <1>2, <2>1, <2>2
<1>8. MempoolInv'
  BY <1>2 DEF MempoolInv
<1>9. NotifiedInv'
  BY <1>2, <1>3, <1>7 DEF OuterInv, NotifiedInv, SettlementBacked,
                          SettlementConfirmed, Framed, StateInv
<1>10. FutureInv'
  <2>1. \A id \in AwardId : id[1] > cycle => contracts'[id] = contracts[id]
    BY <1>4, <1>5, <1>6, <1>7, AwardIdParts DEF Framed
  <2>2. \A r \in Cycle : r > cycle => Trail(r)' = Trail(r)
    <3>1. \A r \in Cycle : r > cycle => r # TxCycle(tx)
      BY <1>4, <1>5, <1>6, GraphAssumption DEF Cycle
    <3> QED
      BY <1>7, <3>1, Zenon DEF Framed
  <2> QED
    BY <1>2, <1>3, <2>1, <2>2 DEF OuterInv, FutureInv, Chain!Exists
<1>11. StateInv'
  BY <1>2, <1>3 DEF StateInv
<1>12. ASSUME node \notin Over
       PROVE  \A id \in AwardId : id = CurrentAward' => ActiveInv(id)'
  <2>1. PICK id \in AwardId : /\ id = CurrentAward /\ ActiveInv(id)
                              /\ id[1] = cycle /\ id[2] = reEvals
    BY <1>12, CurrentExists
  <2>2. TxCycle(tx) # id[1] /\ id[1] \in Cycle
    BY <1>4, <1>5, <1>6, <1>12, <2>1, AwardIdParts DEF Over
  <2>3. /\ \A other \in AwardsOf(id[1]) : contracts'[other] = contracts[other]
        /\ Trail(id[1])' = Trail(id[1])
    <3>1. \A other \in AwardsOf(id[1]) : other \in AwardId
                                         /\ other[1] # TxCycle(tx)
      BY <2>2 DEF AwardsOf
    <3> QED
      BY <1>7, <2>2, <3>1, Zenon DEF Framed
  <2>4. id = CurrentAward'
    BY <1>2, <2>1 DEF CurrentAward
  <2> QED
    BY <1>2, <2>1, <2>3, <2>4, ActiveFramed
<1> QED
  BY <1>2, <1>7, <1>8, <1>9, <1>10, <1>11, <1>12 DEF GraphInv

\* A requirement starts from nothing.
LEMMA NextRequirementKeeps ==
  ASSUME GraphInv, NextRequirement, UNCHANGED revertRaises
  PROVE  GraphInv'
<1>1. /\ cycle < Cycles /\ cycle' = cycle + 1
      /\ node' = "announce_task" /\ bids' = <<>> /\ chosen' = NoBid
      /\ reEvals' = 0 /\ mission' = "none"
      /\ UNCHANGED <<chainVars, logVars, mempool, accepted, notified>>
      /\ contracts' = contracts
  BY DEF NextRequirement, chainVars
<1>2. OuterInv /\ StateInv
  BY DEF GraphInv, OuterInv
<1>3. /\ cycle \in Int /\ cycle' \in Cycle /\ cycle' > cycle
      /\ 0 \in 0 .. MAX_RE_EVALS /\ 0 < MAX_RE_EVALS
  BY <1>1, <1>2, GraphAssumption DEF StateInv, Cycle
<1>4. OuterInv'
  BY <1>1, <1>2, <1>3, QuietStep
<1>5. StateInv'
  <2>1. DOMAIN bids' = {}
    BY <1>1
  <2> QED
    BY <1>1, <1>2, <1>3, <2>1 DEF StateInv, Nodes, ExecutionUpdate
<1>6. PICK id \in AwardId : id = <<cycle', 0>>
  BY <1>3 DEF AwardId
<1>7. id = CurrentAward' /\ id[1] = cycle' /\ id[2] = 0
  BY <1>1, <1>6 DEF CurrentAward
<1>8. \A other \in AwardsOf(id[1]) :
        ~Chain!Exists(other) /\ other \notin accepted /\ other[2] \in Nat
  BY <1>2, <1>3, <1>7, AwardIdParts DEF AwardsOf, OuterInv, FutureInv
<1>9. CurrentInv(id)'
  <2>1. id \in AwardsOf(id[1])
    BY DEF AwardsOf
  <2> QED
    BY <1>1, <1>8, <2>1 DEF CurrentInv, Unplaced, Executing, Chain!Exists
<1>10. AttemptsInv(id)'
  <2>1. \A other \in AwardsOf(id[1]) : ~(other[2] < id[2])
    BY <1>7, <1>8
  <2> QED
    BY <1>1, <1>8, <2>1 DEF AttemptsInv, AwardsOf, Chain!Exists
<1>11. TrailAt(id[1])'
  <2>1. Trail(id[1]) = <<>> /\ id[1] \in Cycle
    BY <1>2, <1>3, <1>7 DEF OuterInv, FutureInv
  <2>2. LastStage(id[1]) = "NONE" /\ \A s : ~Recorded(id[1], s)
    BY <1>2, <2>1, TrailFacts DEF OuterInv
  <2> QED
    BY <1>1, <2>2, TrailsUnchanged DEF TrailAt, StagesAt
<1>12. ActiveInv(id)'
  BY <1>1, <1>3, <1>9, <1>10, <1>11 DEF ActiveInv, Choosing
<1> QED
  BY <1>4, <1>5, <1>7, <1>12 DEF GraphInv, OuterInv

-----------------------------------------------------------------------------
(* The invariant holds *)

LEMMA InitGraphInv == Init => GraphInv
<1> SUFFICES ASSUME Init PROVE GraphInv
  OBVIOUS
<1>1. /\ balance = [a \in Address |-> IF a = Wallet THEN Funds ELSE 0]
      /\ allowance = [a \in Address |-> [b \in Address |->
                        IF a = Wallet /\ b = Escrow THEN Funds ELSE 0]]
      /\ totalSupply = Funds /\ tokenOwner = Wallet
      /\ contracts = [id \in AwardId |-> Chain!NoContract]
      /\ broker = Wallet /\ owner = Wallet
  BY DEF Init, Chain!EscrowInit
<1>2. /\ events = <<>> /\ byRequirement = [r \in Cycle |-> <<>>]
      /\ authorised = {Wallet} /\ logOwner = Wallet
  BY DEF Init, Log!LogInit
<1>3. /\ node = "announce_task" /\ cycle = 1 /\ bids = <<>>
      /\ chosen = NoBid /\ reEvals = 0 /\ mempool = NoTx /\ mission = "none"
      /\ accepted = {} /\ notified = {} /\ revertRaises \in BOOLEAN
  BY GraphAssumption DEF Init
<1>4. /\ Funds \in Nat /\ Wallet \in Address /\ Escrow \in Address
      /\ Zero \in Address /\ Escrow # Wallet
      /\ 1 \in Cycle /\ 0 \in 0 .. MAX_RE_EVALS /\ 0 < MAX_RE_EVALS
  BY GraphAssumption, ContractAssumptions DEF Cycle
<1>5. \A id \in AwardId : contracts[id] = Chain!NoContract
  BY <1>1
<1>6. EP!EscrowInv
  <2>1. EP!TokenTypeOK
    <3>1. Funds \in EP!Amount /\ 0 \in EP!Amount
      BY <1>4 DEF EP!Amount
    <3>2. balance \in [Address -> Nat]
      BY <1>1, <1>4
    <3>3. allowance \in [Address -> [Address -> EP!Amount]]
      BY <1>1, <3>1
    <3> QED
      BY <1>1, <1>4, <3>1, <3>2, <3>3 DEF EP!TokenTypeOK
  <2>2. EP!EscrowTypeOK
    <3>1. Chain!NoContract \in EP!ProcurementContract
      BY <1>4 DEF Chain!NoContract, EP!ProcurementContract, EP!Status, EP!Amount
    <3> QED
      BY <1>1, <1>4, <3>1 DEF EP!EscrowTypeOK
  <2>3. EP!RecordCoherent
    <3>1. PICK c : c = Chain!NoContract
      OBVIOUS
    <3>2. /\ c.createdAt = FALSE /\ c.settledAt = FALSE
          /\ c.status = "CREATED" /\ c.producer = Zero
          /\ c.deliveryHash = "zero" /\ c = EP!NoContract
      BY <3>1 DEF Chain!NoContract, EP!NoContract
    <3>3. \A id \in AwardId : contracts[id] = c
      BY <1>5, <3>1
    <3> QED
      BY <3>2, <3>3 DEF EP!RecordCoherent
  <2>4. EP!EscrowApprovesNobody
    BY <1>1, <1>4 DEF EP!EscrowApprovesNobody
  <2> QED
    BY <2>1, <2>2, <2>3, <2>4 DEF EP!EscrowInv, EP!TypeOK
<1>7. EP!Solvent
  <2>1. {id \in AwardId : EP!Open(id)} = {}
    BY <1>5 DEF EP!Open, EP!Exists, Chain!NoContract
  <2>2. EP!Liability = 0
    BY <2>1, EP!SumEmpty, ContractAssumptions DEF EP!Liability
  <2>3. balance[Escrow] = 0
    BY <1>1, <1>4
  <2> QED
    BY <2>2, <2>3 DEF EP!Solvent
<1>8. LP!LogInv
  <2>1. LP!LogTypeOK
    BY <1>2 DEF LP!LogTypeOK
  <2>2. LP!IndexExact
    BY <1>2 DEF LP!IndexExact
  <2> QED
    BY <2>1, <2>2 DEF LP!LogInv
<1>9. ContractsInv
  BY <1>1, <1>2, <1>6, <1>7, <1>8 DEF ContractsInv
<1>10. \A r \in Cycle : /\ Trail(r) = <<>>
                        /\ LastStage(r) = "NONE"
                        /\ \A s : ~Recorded(r, s)
  <2>1. \A r \in Cycle : Len(byRequirement[r]) = 0
    BY <1>2
  <2> QED
    BY <1>9, <2>1, TrailFacts
<1>11. \A id \in AwardId : ~Chain!Exists(id) /\ id \notin accepted
  BY <1>3, <1>5 DEF Chain!Exists, Chain!NoContract
<1>12. CyclesInv
  <2>1. \A id \in AwardId : AwardInv(id)
    BY <1>5 DEF AwardInv, StatusOf, Chain!NoContract
  <2>2. \A a, b \in AwardId : PairInv(a, b)
    BY <1>3, <1>5 DEF PairInv, Chain!NoContract
  <2>3. \A r \in Cycle : TrailInv(r)
    BY <1>10 DEF TrailInv
  <2> QED
    BY <2>1, <2>2, <2>3 DEF CyclesInv
<1>13. MempoolInv /\ NotifiedInv
  BY <1>3 DEF MempoolInv, NotifiedInv, SettlementBacked, SettlementConfirmed
<1>14. FutureInv
  BY <1>10, <1>11 DEF FutureInv
<1>15. StateInv
  <2>1. DOMAIN bids = {}
    BY <1>3
  <2> QED
    BY <1>3, <1>4, <2>1 DEF StateInv, Nodes, ExecutionUpdate
<1>16. ASSUME NEW id \in AwardId, id = CurrentAward
       PROVE  ActiveInv(id)
  <2>1. id[1] = 1 /\ id[2] = 0
    BY <1>3, <1>16 DEF CurrentAward
  <2>2. CurrentInv(id)
    BY <1>3, <1>11 DEF CurrentInv, Unplaced, Executing
  <2>3. AttemptsInv(id)
    <3>1. \A other \in AwardsOf(id[1]) : other \in AwardId /\ other[2] \in Nat
      BY AwardIdParts DEF AwardsOf
    <3>2. \A other \in AwardsOf(id[1]) : ~(other[2] < id[2])
      BY <2>1, <3>1
    <3> QED
      BY <1>11, <3>1, <3>2 DEF AttemptsInv
  <2>4. TrailAt(id[1])
    BY <1>3, <1>4, <1>10, <2>1 DEF TrailAt, StagesAt
  <2> QED
    BY <1>3, <1>4, <2>2, <2>3, <2>4 DEF ActiveInv, Choosing
<1> QED
  BY <1>9, <1>12, <1>13, <1>14, <1>15, <1>16 DEF GraphInv

LEMMA NextGraphInv == GraphInv /\ [Next]_vars => GraphInv'
<1> SUFFICES ASSUME GraphInv, [Next]_vars PROVE GraphInv'
  OBVIOUS
<1>1. CASE CycleStep
  <2>1. MonitorSleep => GraphInv'
    BY StutterKeeps DEF MonitorSleep
  <2> QED
    BY <1>1, <2>1, AnnounceTaskKeeps, CollectBidsKeeps, EvaluateBidsKeeps,
       AwardContractKeeps, RecordAwardKeeps, AcceptAwardKeeps,
       RejectAwardKeeps, LogAwardKeeps, MonitorExecutionKeeps,
       ConfirmDeliveryKeeps, SettlePaymentKeeps, LogDeliveredKeeps,
       LogSettledKeeps, HandleFailureKeeps
       DEF CycleStep
<1>2. CASE PartnerReports
  BY <1>2, PartnerReportsKeeps
<1>3. CASE (Interrupted \/ NextRequirement \/ MinedLate) /\ UNCHANGED revertRaises
  BY <1>3, InterruptedKeeps, NextRequirementKeeps, MinedLateKeeps
<1>4. CASE Finished \/ UNCHANGED vars
  BY <1>4, StutterKeeps DEF Finished
<1> QED
  BY <1>1, <1>2, <1>3, <1>4 DEF Next

-----------------------------------------------------------------------------
(* The properties *)

\* The contracts keep their types under the broker's calls, and the process
\* keeps to its declared state, for every list of offers.
THEOREM GraphTypeCorrect == Spec => []TypeOK
<1>1. GraphInv => TypeOK
  <2> SUFFICES ASSUME GraphInv PROVE TypeOK
    OBVIOUS
  <2>1. Chain!TypeOK
    <3>1. EP!TypeOK
      BY DEF GraphInv, ContractsInv, EP!EscrowInv
    <3>2. Chain!Amount = EP!Amount /\ Chain!Status = EP!Status
      BY DEF Chain!Amount, EP!Amount, Chain!Status, EP!Status
    <3>3. Chain!ProcurementContract = EP!ProcurementContract
      BY <3>2 DEF Chain!ProcurementContract, EP!ProcurementContract
    <3> QED
      BY <3>1, <3>2, <3>3
         DEF EP!TypeOK, EP!TokenTypeOK, EP!EscrowTypeOK,
             Chain!TypeOK, Chain!TokenTypeOK, Chain!EscrowTypeOK
  <2>2. Log!LogTypeOK
    <3>1. LP!LogTypeOK
      BY DEF GraphInv, ContractsInv, LP!LogInv
    <3>2. LP!AuditEvent = Log!AuditEvent
      BY DEF LP!AuditEvent, Log!AuditEvent, LP!Stage, Log!Stage
    <3> QED
      BY <3>1, <3>2 DEF LP!LogTypeOK, Log!LogTypeOK
  <2>3. \A i \in DOMAIN bids : bids[i] \in ProducerBid(Producer)
    BY BidsType, OffersType DEF GraphInv
  <2>4. chosen \in ProducerBid(Producer) \cup {NoBid}
    BY OffersType DEF GraphInv, StateInv
  <2>5. mempool \in Transaction \cup {NoTx}
    <3> SUFFICES ASSUME mempool # NoTx PROVE mempool \in Transaction
      OBVIOUS
    <3>1. PICK tx : tx = mempool /\ Justified(tx)
      BY DEF GraphInv, MempoolInv
    <3>2. CASE \E r \in Cycle, s \in Log!Stage : IsLogTx(tx, r, s)
      BY <3>1, <3>2 DEF IsLogTx, Transaction, AuditEvent
    <3>3. CASE \E id \in AwardId, i \in DOMAIN Offers :
                 tx = CreateTx(id, Offers[i].price)
      BY <3>1, <3>3, OffersType DEF CreateTx, Transaction, ContractAward
    <3>4. CASE \E id \in AwardId, p \in Producer : tx = AwardTx(id, p)
      BY <3>1, <3>4 DEF AwardTx, Transaction, ContractAward, Address
    <3>5. CASE \E id \in AwardId : tx = DeliveryTx(id)
      BY <3>1, <3>5 DEF DeliveryTx, Transaction, DeliveryConfirmation
    <3>6. CASE \E id \in AwardId : tx = SettleTx(id)
      BY <3>1, <3>6 DEF SettleTx, Transaction, PaymentSettlement
    <3> QED
      BY <3>1, <3>2, <3>3, <3>4, <3>5, <3>6, Zenon DEF Justified
  <2> QED
    BY <2>1, <2>2, <2>3, <2>4, <2>5
       DEF GraphInv, StateInv, TypeOK, PaymentSettlement
<1> QED
  BY <1>1, InitGraphInv, NextGraphInv, PTL DEF Spec

\* A settlement that is reported has been paid, on a node that raises on a
\* revert, to the producer that took the award on.
THEOREM SettlementsBacked == Spec => []SettlementBacked
<1>1. GraphInv => SettlementBacked
  BY DEF GraphInv, NotifiedInv
<1> QED
  BY <1>1, InitGraphInv, NextGraphInv, PTL DEF Spec

\* A set without two different elements has at most one.
LEMMA AtMostOne ==
  ASSUME NEW S, \A a, b \in S : a = b
  PROVE  Cardinality(S) <= 1
<1>1. CASE S = {}
  BY <1>1, FS_EmptySet
<1>2. CASE S # {}
  <2>1. PICK a : S = {a}
    BY <1>2
  <2> QED
    BY <2>1, FS_Singleton
<1> QED
  BY <1>1, <1>2

\* An award is paid only after its producer took it on, and of the awards of
\* one requirement at most one is accepted, and so at most one is paid.
THEOREM PaidAtMostOnce == Spec => []PaidOnce
<1>1. GraphInv => PaidOnce
  <2> SUFFICES ASSUME GraphInv, NEW r \in Cycle
               PROVE  /\ \A id \in AwardsOf(r) :
                           StatusOf(id) \in {"DELIVERED", "SETTLED"} =>
                             id \in accepted
                      /\ Cardinality({id \in AwardsOf(r) :
                                        StatusOf(id) = "SETTLED"}) <= 1
                      /\ Cardinality(AwardsOf(r) \cap accepted) <= 1
    BY DEF PaidOnce
  <2>1. \A id \in AwardsOf(r) :
          StatusOf(id) \in {"DELIVERED", "SETTLED"} => id \in accepted
    BY DEF GraphInv, CyclesInv, AwardInv, AwardsOf
  <2>2. \A a, b \in AwardsOf(r) : a \in accepted /\ b \in accepted => a = b
    BY DEF GraphInv, CyclesInv, PairInv, AwardsOf
  <2>3. Cardinality(AwardsOf(r) \cap accepted) <= 1
    BY <2>2, AtMostOne
  <2>4. Cardinality({id \in AwardsOf(r) : StatusOf(id) = "SETTLED"}) <= 1
    <3> DEFINE S == {id \in AwardsOf(r) : StatusOf(id) = "SETTLED"}
    <3>1. \A a, b \in S : a = b
      BY <2>1, <2>2
    <3> HIDE DEF S
    <3>2. Cardinality(S) <= 1
      BY <3>1, AtMostOne
    <3> QED
      BY <3>2 DEF S
  <2> QED
    BY <2>1, <2>3, <2>4
<1> QED
  BY <1>1, InitGraphInv, NextGraphInv, PTL DEF Spec

\* However often a requirement is re-evaluated, no producer is named twice.
THEOREM NeverReawarded == Spec => []NoReaward
<1>1. GraphInv => NoReaward
  BY DEF GraphInv, CyclesInv, PairInv, NoReaward, AwardsOf
<1> QED
  BY <1>1, InitGraphInv, NextGraphInv, PTL DEF Spec

\* The public trail claims no award, execution or failure that the escrow and
\* the producers do not bear out.
THEOREM TrailsTruthful == Spec => []TrailTruthful
<1>1. GraphInv => TrailTruthful
  <2> SUFFICES ASSUME GraphInv, NEW r \in Cycle
               PROVE  /\ Recorded(r, "FAILED") => \A id \in AwardsOf(r) :
                           id \notin accepted /\ StatusOf(id) # "SETTLED"
                      /\ Recorded(r, "AWARDED") /\ revertRaises =>
                           \E id \in AwardsOf(r) : contracts[id].producer # Zero
                      /\ Recorded(r, "EXECUTING") =>
                           AwardsOf(r) \cap accepted # {}
    BY DEF TrailTruthful
  <2>1. TrailInv(r) /\ \A id \in AwardsOf(r) : AwardInv(id)
    BY DEF GraphInv, CyclesInv, AwardsOf
  <2> QED
    BY <2>1 DEF TrailInv, AwardInv, SomeAccepted, SomeAwardStands
<1> QED
  BY <1>1, InitGraphInv, NextGraphInv, PTL DEF Spec

\* A cycle that ended on the record strands no award its producer accepted.
THEOREM StrandingExplained == Spec => []StrandedExplained
<1>1. GraphInv => StrandedExplained
  <2> SUFFICES ASSUME GraphInv, NEW id \in AwardId, Chain!Open(id),
                      id \in accepted
               PROVE  ~Recorded(id[1], "FAILED") /\ ~Recorded(id[1], "SETTLED")
    BY DEF StrandedExplained
  <2>1. TrailInv(id[1]) /\ id \in AwardsOf(id[1])
    BY AwardIdParts DEF GraphInv, CyclesInv, AwardsOf
  <2> QED
    BY <2>1 DEF TrailInv, SomeAccepted, AcceptedClosed
<1> QED
  BY <1>1, InitGraphInv, NextGraphInv, PTL DEF Spec

-----------------------------------------------------------------------------
(* The broker implements the contract net protocol *)

\* What a step does to the contracts: nothing, or one justified transaction.
ChainStep ==
  /\ revertRaises' = revertRaises
  /\ \/ UNCHANGED <<contracts, balance, logVars>>
     \/ \E tx : Justified(tx) /\ Executes(tx)

LEMMA CallOnChain ==
  ASSUME NEW tx, Justified(tx), UNCHANGED revertRaises,
         Returns(tx) \/ Refused(tx) \/ TimesOut(tx)
  PROVE  ChainStep
BY DEF ChainStep, Returns, Refused, TimesOut, chainVars

LEMMA EveryChainStep == GraphInv /\ [Next]_vars => ChainStep
<1> SUFFICES ASSUME GraphInv, [Next]_vars PROVE ChainStep
  OBVIOUS
<1>1. CASE CycleStep
  <2> DEFINE Sent(tx) == Returns(tx) \/ Refused(tx) \/ TimesOut(tx)
  <2>1. revertRaises' = revertRaises
    BY <1>1 DEF CycleStep
  <2>2. ASSUME AcceptAward \/ RejectAward \/ MonitorSleep
               \/ (EvaluateBids /\ DOMAIN bids = {})
        PROVE  ChainStep
    BY <2>1, <2>2 DEF ChainStep, AcceptAward, RejectAward, MonitorSleep,
                      EvaluateBids, vars, chainVars
  <2>3. ASSUME NEW s \in Log!Stage, node \notin Over, Sent(LogTx(s)),
               \A r \in Cycle : LogReasons(r) => LogJustified(r, s)
        PROVE  ChainStep
    <3>1. PICK id \in AwardId : /\ id = CurrentAward /\ ActiveInv(id)
                                /\ id[1] = cycle /\ id[2] = reEvals
      BY <2>3, CurrentExists
    <3>2. PICK tx : tx = LogTx(s)
      OBVIOUS
    <3>3. LogJustified(id[1], s)
      BY <2>3, <3>1, LogsJustified, AwardIdParts
    <3>4. Justified(tx)
      BY <3>1, <3>2, <3>3, LogSent
    <3> QED
      BY <2>1, <2>3, <3>2, <3>4, CallOnChain
  <2>4. CASE AnnounceTask
    BY <2>3, <2>4 DEF AnnounceTask, Call, LogReasons, Over, Log!Stage
  <2>5. CASE CollectBids
    BY <2>3, <2>5 DEF CollectBids, Call, LogReasons, Over, Log!Stage
  <2>6. CASE EvaluateBids /\ DOMAIN bids # {}
    BY <2>3, <2>6 DEF EvaluateBids, Call, LogReasons, Over, Log!Stage
  <2>7. CASE LogAward
    BY <2>3, <2>7 DEF LogAward, Call, LogReasons, Over, Log!Stage
  <2>8. CASE MonitorExecution
    BY <2>3, <2>8 DEF MonitorExecution, Call, LogReasons, Over, Log!Stage
  <2>9. CASE LogDelivered
    BY <2>3, <2>9 DEF LogDelivered, Call, LogReasons, Over, Log!Stage
  <2>10. CASE LogSettled
    BY <2>3, <2>10 DEF LogSettled, Call, LogReasons, Over, Log!Stage
  <2>11. CASE HandleFailure
    BY <2>3, <2>11 DEF HandleFailure, Call, LogReasons, Over, Log!Stage
  <2>12. CASE AwardContract \/ RecordAward \/ ConfirmDelivery \/ SettlePayment
    <3>1. PICK id \in AwardId : /\ id = CurrentAward /\ ActiveInv(id)
                                /\ id[1] = cycle /\ id[2] = reEvals
      BY <2>12, CurrentExists
         DEF AwardContract, RecordAward, ConfirmDelivery, SettlePayment, Over
    <3>2. PICK price, p : price = chosen.price /\ p = chosen.producer
      OBVIOUS
    <3>3. \E tx : /\ Sent(tx)
                  /\ \/ node = "award_contract" /\ tx = CreateTx(id, price)
                     \/ node = "record_award" /\ tx = AwardTx(id, p)
                     \/ node = "confirm_delivery" /\ tx = DeliveryTx(id)
                     \/ node = "settle_payment" /\ tx = SettleTx(id)
      BY <2>12, <3>1, <3>2, Zenon
         DEF AwardContract, RecordAward, ConfirmDelivery, SettlePayment, Call
    <3>4. PICK tx : /\ Sent(tx)
                    /\ \/ node = "award_contract" /\ tx = CreateTx(id, price)
                       \/ node = "record_award" /\ tx = AwardTx(id, p)
                       \/ node = "confirm_delivery" /\ tx = DeliveryTx(id)
                       \/ node = "settle_payment" /\ tx = SettleTx(id)
      BY <3>3
    <3>5. Justified(tx)
      BY <3>1, <3>2, <3>4, CallsJustified
    <3> QED
      BY <2>1, <3>4, <3>5, CallOnChain
  <2> QED
    BY <1>1, <2>2, <2>4, <2>5, <2>6, <2>7, <2>8, <2>9, <2>10, <2>11, <2>12
       DEF CycleStep
<1>2. CASE PartnerReports \/ Finished \/ UNCHANGED vars
  BY <1>2 DEF ChainStep, PartnerReports, Finished, vars, chainVars
<1>3. CASE (Interrupted \/ NextRequirement) /\ UNCHANGED revertRaises
  BY <1>3 DEF ChainStep, Interrupted, AcceptRaises, MonitorRaises,
              NextRequirement, chainVars
<1>4. CASE MinedLate /\ UNCHANGED revertRaises
  <2>1. PICK tx : tx = mempool
    OBVIOUS
  <2>2. tx # NoTx /\ (Executes(tx) \/ UNCHANGED <<chainVars, logVars>>)
    BY <1>4, <2>1 DEF MinedLate
  <2>3. Justified(tx)
    BY <2>1, <2>2 DEF GraphInv, MempoolInv
  <2> QED
    BY <1>4, <2>2, <2>3 DEF ChainStep, chainVars
<1> QED
  BY <1>1, <1>2, <1>3, <1>4 DEF Next

\* No stage is on record without the one before it, FAILED apart.
TrailLinked(r) ==
  /\ Recorded(r, "SETTLED") => Recorded(r, "DELIVERED")
  /\ Recorded(r, "DELIVERED") => Recorded(r, "EXECUTING")
  /\ Recorded(r, "EXECUTING") => Recorded(r, "AWARDED")
  /\ Recorded(r, "AWARDED") => Recorded(r, "EVALUATING")
  /\ Recorded(r, "EVALUATING") => Recorded(r, "BIDDING")
  /\ Recorded(r, "BIDDING") => Recorded(r, "ANNOUNCED")

\* The inductive invariant behind SettlementOnRecord.
OnRecordInv ==
  /\ \A r \in Cycle : TrailLinked(r)
  /\ \A id \in notified : LastStage(id[1]) = "SETTLED"

\* An event that follows the last one of its trail keeps the links, and none
\* follows SETTLED.
LEMMA LinkedStep ==
  ASSUME GraphInv, OnRecordInv, ChainStep
  PROVE  /\ \A r \in Cycle : TrailLinked(r)'
         /\ \A r \in Cycle : LastStage(r) = "SETTLED" => LastStage(r)' = "SETTLED"
<1>1. ContractsInv
  BY DEF GraphInv
<1>2. CASE UNCHANGED logVars
  BY <1>2, TrailsUnchanged DEF OnRecordInv, TrailLinked
<1>3. ASSUME NEW r \in Cycle, NEW s \in Log!Stage, NEW tx,
             IsLogTx(tx, r, s), LogJustified(r, s), Executes(tx), NEW q \in Cycle
      PROVE  /\ TrailLinked(q)'
             /\ LastStage(q) = "SETTLED" => LastStage(q)' = "SETTLED"
  <2>1. /\ \A st : Recorded(q, st)' <=> Recorded(q, st) \/ (q = r /\ st = s)
        /\ LastStage(q)' = IF q = r THEN s ELSE LastStage(q)
    BY <1>1, <1>3, LogExecuted
  <2>2. TrailLinked(q)
    BY DEF OnRecordInv
  <2>3. CASE q # r
    BY <2>1, <2>2, <2>3 DEF TrailLinked
  <2>4. CASE q = r
    <3>1. <<LastStage(q), s>> \in Net!Succession
      BY <1>3, <2>4 DEF LogJustified
    <3>2. LastStage(q) = "NONE" \/ Recorded(q, LastStage(q))
      BY <1>1, TrailFacts
    <3>3. LastStage(q) # "SETTLED"
      BY <3>1 DEF Net!Succession
    <3>4. /\ s = "SETTLED" => Recorded(q, "DELIVERED")
          /\ s = "DELIVERED" => Recorded(q, "EXECUTING")
          /\ s = "EXECUTING" => Recorded(q, "AWARDED")
          /\ s = "AWARDED" => Recorded(q, "EVALUATING")
          /\ s = "EVALUATING" => Recorded(q, "BIDDING") \/ Recorded(q, "AWARDED")
          /\ s = "BIDDING" => Recorded(q, "ANNOUNCED")
      BY <3>1, <3>2 DEF Net!Succession
    <3> QED
      BY <2>1, <2>2, <2>4, <3>3, <3>4 DEF TrailLinked
  <2> QED
    BY <2>3, <2>4
<1>4. ASSUME NEW tx, Justified(tx), Executes(tx), ~UNCHANGED logVars
      PROVE  \E r \in Cycle, s \in Log!Stage : IsLogTx(tx, r, s) /\ LogJustified(r, s)
  BY <1>4 DEF Justified, Executes, CreateTx, AwardTx, DeliveryTx, SettleTx
<1> QED
  BY <1>2, <1>3, <1>4 DEF ChainStep

\* The consumer is told when the last event has been mined.
LEMMA NotifiedStep ==
  ASSUME GraphInv, [Next]_vars
  PROVE  \A id \in notified' : id \in notified \/ LastStage(id[1])' = "SETTLED"
<1>1. CASE LogSettled /\ UNCHANGED revertRaises
  <2>1. node = "log_settled" /\ node \notin Over
    BY <1>1 DEF LogSettled, Over
  <2>2. PICK id \in AwardId : /\ id = CurrentAward /\ ActiveInv(id)
                              /\ id[1] = cycle /\ id[2] = reEvals
    BY <2>1, CurrentExists
  <2>3. PICK tx : tx = LogTx("SETTLED")
    OBVIOUS
  <2>4. LogJustified(id[1], "SETTLED") /\ "SETTLED" \in Log!Stage
    BY <2>1, <2>2, LogsJustified DEF LogReasons, Log!Stage
  <2>5. CASE Returns(tx) /\ notified' = notified \cup {CurrentAward}
             /\ node' = "settled" /\ UNCHANGED <<stateVars, mission, accepted>>
    <3>1. UNCHANGED <<cycle, bids, chosen, reEvals>> /\ accepted' = accepted
      BY <2>5 DEF stateVars
    <3>2. LastStage(id[1])' = "SETTLED"
      BY <1>1, <2>2, <2>3, <2>4, <2>5, <3>1, LogReturned
    <3> QED
      BY <2>2, <2>5, <3>2
  <2>6. CASE Raises
    BY <2>6 DEF Raises, worldVars
  <2> QED
    BY <1>1, <2>3, <2>5, <2>6 DEF LogSettled, Call, ConsumerRaises
<1>2. CASE ~(LogSettled /\ UNCHANGED revertRaises)
  <2>1. notified' = notified
    BY <1>2 DEF Next, CycleStep, AnnounceTask, CollectBids, EvaluateBids,
       AwardContract, RecordAward, AcceptAward, RejectAward, LogAward,
       MonitorSleep, MonitorExecution, ConfirmDelivery, SettlePayment,
       LogDelivered, HandleFailure, PartnerReports, Finished, Interrupted,
       AcceptRaises, MonitorRaises, NextRequirement, MinedLate, Call, GoTo,
       Raises, ConsumerRaises, worldVars, vars
  <2> QED
    BY <2>1
<1> QED
  BY <1>1, <1>2

\* A settlement is reported only when its whole trail is public: on_settlement()
\* comes after the last transaction of _verify_and_settle.
THEOREM SettlementsOnRecord == Spec => []SettlementOnRecord
<1>1. Init => OnRecordInv
  <2> SUFFICES ASSUME Init PROVE OnRecordInv
    OBVIOUS
  <2>1. GraphInv /\ notified = {} /\ cycle = 1 /\ node = "announce_task"
    BY InitGraphInv DEF Init
  <2>2. ASSUME NEW r \in Cycle
        PROVE  \A s : ~Recorded(r, s)
    <3>1. byRequirement[r] = << >>
      BY DEF Init, Log!LogInit
    <3> QED
      BY <2>1, <3>1, TrailFacts DEF GraphInv
  <2> QED
    BY <2>1, <2>2 DEF OnRecordInv, TrailLinked
<1>2. GraphInv /\ GraphInv' /\ OnRecordInv /\ [Next]_vars => OnRecordInv'
  <2> SUFFICES ASSUME GraphInv, GraphInv', OnRecordInv, [Next]_vars
               PROVE  OnRecordInv'
    OBVIOUS
  <2>1. /\ \A r \in Cycle : TrailLinked(r)'
        /\ \A r \in Cycle : LastStage(r) = "SETTLED" => LastStage(r)' = "SETTLED"
    BY EveryChainStep, LinkedStep
  <2>2. \A id \in notified' : id \in notified \/ LastStage(id[1])' = "SETTLED"
    BY NotifiedStep
  <2>3. \A id \in notified : id[1] \in Cycle /\ LastStage(id[1]) = "SETTLED"
    BY AwardIdParts DEF GraphInv, StateInv, OnRecordInv
  <2> QED
    BY <2>1, <2>2, <2>3 DEF OnRecordInv
<1>3. GraphInv /\ OnRecordInv => SettlementOnRecord
  <2> SUFFICES ASSUME GraphInv, OnRecordInv, NEW id \in notified
               PROVE  /\ \A s \in {"ANNOUNCED", "BIDDING", "EVALUATING",
                                   "AWARDED", "EXECUTING", "DELIVERED",
                                   "SETTLED"} : Recorded(id[1], s)
                      /\ LastStage(id[1]) = "SETTLED"
    BY DEF SettlementOnRecord
  <2>1. id[1] \in Cycle /\ ContractsInv
    BY AwardIdParts DEF GraphInv, StateInv
  <2>2. LastStage(id[1]) = "SETTLED" /\ TrailLinked(id[1])
    BY <2>1 DEF OnRecordInv
  <2>3. Recorded(id[1], "SETTLED")
    BY <2>1, <2>2, TrailFacts
  <2> QED
    BY <2>2, <2>3 DEF TrailLinked
<1> QED
  BY <1>1, <1>2, <1>3, InitGraphInv, NextGraphInv, PTL DEF Spec

\* Of a requirement at most one award is settled, and it names its payee.
PaidFacts(r) ==
  /\ ~SomePaid(r) => PaidProducer(r) = Nobody
  /\ \A id \in AwardsOf(r), p \in Producer :
       StatusOf(id) = "SETTLED" /\ contracts[id].producer = WalletOf[p] =>
         PaidProducer(r) = p
  /\ \A id \in AwardsOf(r) : StatusOf(id) = "SETTLED" =>
       \E p \in Producer : contracts[id].producer = WalletOf[p]
  /\ \A a, b \in AwardsOf(r) :
       StatusOf(a) \in {"DELIVERED", "SETTLED"} /\ StatusOf(b) = "SETTLED" =>
         a = b

PayeesKnown == \A r \in Cycle : PaidFacts(r)

LEMMA PayeeKnown == CyclesInv => PayeesKnown
<1> SUFFICES ASSUME CyclesInv, NEW r \in Cycle PROVE PaidFacts(r)
  BY DEF PayeesKnown
<1>1. ASSUME NEW a \in AwardsOf(r), NEW b \in AwardsOf(r),
             StatusOf(a) \in {"DELIVERED", "SETTLED"}, StatusOf(b) = "SETTLED"
      PROVE  a = b
  <2>1. a \in accepted /\ b \in accepted
    BY <1>1 DEF CyclesInv, AwardInv, AwardsOf
  <2> QED
    BY <2>1 DEF CyclesInv, PairInv, AwardsOf
<1>2. ASSUME NEW id \in AwardsOf(r), StatusOf(id) = "SETTLED"
      PROVE  \E p \in Producer : contracts[id].producer = WalletOf[p]
  <2>1. PICK i \in DOMAIN Offers :
          contracts[id].producer = WalletOf[Offers[i].producer]
    BY <1>2 DEF CyclesInv, AwardInv, AwardsOf
  <2> QED
    BY <2>1, OffersType
<1>3. ASSUME NEW id \in AwardsOf(r), NEW p \in Producer,
             StatusOf(id) = "SETTLED", contracts[id].producer = WalletOf[p]
      PROVE  PaidProducer(r) = p
  <2> DEFINE c == CHOOSE x \in AwardsOf(r) : StatusOf(x) = "SETTLED"
             q == CHOOSE x \in Producer : WalletOf[x] = contracts[c].producer
  <2>1. c \in AwardsOf(r) /\ StatusOf(c) = "SETTLED"
    BY <1>3
  <2>2. c = id
    BY <1>1, <1>3, <2>1
  <2>3. q \in Producer /\ WalletOf[q] = contracts[id].producer
    <3> HIDE DEF c
    <3> QED
      BY <1>3, <2>2
  <2>4. q = p
    BY <1>3, <2>3, GraphAssumption
  <2>5. PaidProducer(r) = q
    BY <1>3, Zenon DEF PaidProducer
  <2> QED
    BY <2>4, <2>5
<1>4. ~SomePaid(r) => PaidProducer(r) = Nobody
  BY DEF SomePaid, PaidProducer
<1> QED
  BY <1>1, <1>2, <1>3, <1>4 DEF PaidFacts

\* The payee changes only when an award is settled.
LEMMA PayeeKept ==
  ASSUME CyclesInv, CyclesInv', NEW r \in Cycle,
         \A id \in AwardsOf(r) :
           /\ StatusOf(id)' = "SETTLED" <=> StatusOf(id) = "SETTLED"
           /\ StatusOf(id) = "SETTLED" =>
                contracts'[id].producer = contracts[id].producer
  PROVE  PaidProducer(r)' = PaidProducer(r)
<1>1. PaidFacts(r) /\ PaidFacts(r)'
  <2>1. CyclesInv' => PayeesKnown'
    BY PayeeKnown, PTL
  <2> QED
    BY <2>1, PayeeKnown, Zenon DEF PayeesKnown
<1>2. CASE SomePaid(r)
  <2>1. PICK id \in AwardsOf(r) : StatusOf(id) = "SETTLED"
    BY <1>2 DEF SomePaid
  <2>2. PICK p \in Producer : contracts[id].producer = WalletOf[p]
    BY <1>1, <2>1 DEF PaidFacts
  <2>3. PaidProducer(r) = p
    BY <1>1, <2>1, <2>2 DEF PaidFacts
  <2>4. id \in AwardsOf(r)' /\ StatusOf(id)' = "SETTLED"
          /\ contracts'[id].producer = WalletOf[p]
    BY <2>1, <2>2 DEF AwardsOf
  <2>5. PaidProducer(r)' = p
    BY <1>1, <2>4 DEF PaidFacts
  <2> QED
    BY <2>3, <2>5
<1>3. CASE ~SomePaid(r)
  <2>1. ~SomePaid(r)'
    BY <1>3 DEF SomePaid, AwardsOf
  <2> QED
    BY <1>1, <1>3, <2>1 DEF PaidFacts
<1> QED
  BY <1>2, <1>3

\* A call that neither logs nor settles is invisible.
LEMMA Invisible ==
  ASSUME CyclesInv, CyclesInv', UNCHANGED logVars, NEW id \in AwardId,
         \A other \in AwardId : other # id => contracts'[other] = contracts[other],
         StatusOf(id) # "SETTLED", StatusOf(id)' # "SETTLED"
  PROVE  /\ \A q \in Cycle : LastStage(q)' = LastStage(q)
         /\ \A q \in Cycle : PaidProducer(q)' = PaidProducer(q)
<1>1. ASSUME NEW q \in Cycle
      PROVE  PaidProducer(q)' = PaidProducer(q)
  <2>1. \A other \in AwardsOf(q) :
          /\ StatusOf(other)' = "SETTLED" <=> StatusOf(other) = "SETTLED"
          /\ StatusOf(other) = "SETTLED" =>
               contracts'[other].producer = contracts[other].producer
    BY DEF AwardsOf, StatusOf
  <2> QED
    BY <2>1, PayeeKept
<1> QED
  BY <1>1, TrailsUnchanged

\* Every step is one of the protocol, or none.
NetStep ==
  \/ /\ \A q \in Cycle : LastStage(q)' = LastStage(q)
     /\ \A q \in Cycle : PaidProducer(q)' = PaidProducer(q)
  \/ \E r \in Cycle, s \in Net!Stages :
       /\ <<LastStage(r), s>> \in Net!Succession
       /\ s \in {"DELIVERED", "SETTLED"} => PaidProducer(r) # Nobody
       /\ s = "FAILED" => PaidProducer(r) = Nobody
       /\ \A q \in Cycle : LastStage(q)' = IF q = r THEN s ELSE LastStage(q)
       /\ \A q \in Cycle : PaidProducer(q)' = PaidProducer(q)
  \/ \E r \in Cycle, p \in Producer :
       /\ LastStage(r) = "EXECUTING" /\ PaidProducer(r) = Nobody
       /\ \A q \in Cycle : LastStage(q)' = LastStage(q)
       /\ \A q \in Cycle : PaidProducer(q)' = IF q = r THEN p
                                              ELSE PaidProducer(q)

LEMMA ChainStepIsNetStep ==
  ASSUME GraphInv, GraphInv', revertRaises, ChainStep
  PROVE  NetStep
<1>1. /\ ContractsInv /\ CyclesInv /\ CyclesInv'
      /\ \A q \in Cycle : PaidFacts(q)
  BY PayeeKnown DEF GraphInv, PayeesKnown
<1>2. CASE UNCHANGED <<contracts, balance, logVars>>
  <2>1. \A q \in Cycle : PaidProducer(q)' = PaidProducer(q)
    BY <1>1, <1>2, PayeeKept DEF StatusOf
  <2> QED
    BY <1>2, <2>1, TrailsUnchanged DEF NetStep
<1>3. ASSUME NEW tx, Justified(tx), Executes(tx)
      PROVE  NetStep
  <2>1. ASSUME NEW r \in Cycle, NEW s \in Log!Stage, IsLogTx(tx, r, s),
               LogJustified(r, s)
        PROVE  NetStep
    <3>1. /\ UNCHANGED chainVars
          /\ \A q \in Cycle : LastStage(q)' = IF q = r THEN s ELSE LastStage(q)
      BY <1>1, <1>3, <2>1, LogExecuted
    <3>2. \A q \in Cycle : PaidProducer(q)' = PaidProducer(q)
      BY <1>1, <3>1, PayeeKept DEF StatusOf, chainVars
    <3>3. <<LastStage(r), s>> \in Net!Succession /\ s \in Net!Stages
      <4>1. <<LastStage(r), s>> \in Net!Succession
        BY <2>1 DEF LogJustified
      <4>2. s = (<<LastStage(r), s>>)[2]
        OBVIOUS
      <4> QED
        BY <4>1, <4>2, Zenon DEF Net!Stages
    <3>4. s \in {"DELIVERED", "SETTLED"} => PaidProducer(r) # Nobody
      <4> SUFFICES ASSUME SomePaid(r) PROVE PaidProducer(r) # Nobody
        BY <2>1 DEF LogJustified
      <4>1. PICK id \in AwardsOf(r) : StatusOf(id) = "SETTLED"
        BY DEF SomePaid
      <4>2. PICK p \in Producer : contracts[id].producer = WalletOf[p]
        BY <1>1, <4>1 DEF PaidFacts
      <4> QED
        BY <1>1, <4>1, <4>2, GraphAssumption DEF PaidFacts
    <3>5. s = "FAILED" => PaidProducer(r) = Nobody
      <4> SUFFICES ASSUME ~SomeAccepted(r) PROVE PaidProducer(r) = Nobody
        BY <2>1 DEF LogJustified
      <4>1. ~SomePaid(r)
        BY <1>1 DEF SomePaid, SomeAccepted, CyclesInv, AwardInv, AwardsOf
      <4> QED
        BY <1>1, <4>1 DEF PaidFacts
    <3> QED
      BY <3>1, <3>2, <3>3, <3>4, <3>5 DEF NetStep
  <2>2. ASSUME NEW id \in AwardId, NEW i \in DOMAIN Offers,
               tx = CreateTx(id, Offers[i].price)
        PROVE  NetStep
    <3>1. PICK price \in Nat : tx = CreateTx(id, price)
      BY <2>2, OffersType
    <3>2. /\ UNCHANGED logVars /\ ~Chain!Exists(id)
          /\ contracts' = [contracts EXCEPT ![id] =
               [Chain!NoContract EXCEPT !.consumer = Wallet,
                                        !.amountUsdc = price, !.createdAt = TRUE]]
      BY <1>1, <1>3, <3>1, CreateExecuted
    <3>3. /\ contracts'[id] = [Chain!NoContract EXCEPT !.consumer = Wallet,
                                 !.amountUsdc = price, !.createdAt = TRUE]
          /\ \A other \in AwardId : other # id =>
               contracts'[other] = contracts[other]
      BY <1>1, <3>2, ContractsFacts
    <3>4. StatusOf(id) # "SETTLED" /\ StatusOf(id)' # "SETTLED"
      BY <1>1, <3>2, <3>3, ContractsFacts DEF StatusOf, Chain!NoContract
    <3> QED
      BY <1>1, <3>2, <3>3, <3>4, Invisible DEF NetStep
  <2>3. ASSUME NEW id \in AwardId, NEW producer \in Producer,
               tx = AwardTx(id, producer)
        PROVE  NetStep
    <3>1. /\ UNCHANGED logVars /\ StatusOf(id) = "CREATED"
          /\ contracts' = [contracts EXCEPT ![id].producer = WalletOf[producer],
                                            ![id].status = "AWARDED"]
      BY <1>1, <1>3, <2>3, AwardExecuted
    <3>2. /\ contracts'[id] = [contracts[id] EXCEPT
                                 !.producer = WalletOf[producer],
                                 !.status = "AWARDED"]
          /\ contracts[id] \in Chain!ProcurementContract
          /\ \A other \in AwardId : other # id =>
               contracts'[other] = contracts[other]
      BY <1>1, <3>1, ContractsFacts
    <3>3. StatusOf(id)' = "AWARDED"
      BY <3>2 DEF Chain!ProcurementContract, StatusOf
    <3> QED
      BY <1>1, <3>1, <3>2, <3>3, Invisible DEF NetStep
  <2>4. ASSUME NEW id \in AwardId, tx = DeliveryTx(id)
        PROVE  NetStep
    <3>1. /\ UNCHANGED logVars /\ StatusOf(id) = "AWARDED"
          /\ contracts' = [contracts EXCEPT ![id].deliveryHash = "evidence",
                                            ![id].status = "DELIVERED"]
      BY <1>1, <1>3, <2>4, DeliveryExecuted
    <3>2. /\ contracts'[id] = [contracts[id] EXCEPT !.deliveryHash = "evidence",
                                                    !.status = "DELIVERED"]
          /\ contracts[id] \in Chain!ProcurementContract
          /\ \A other \in AwardId : other # id =>
               contracts'[other] = contracts[other]
      BY <1>1, <3>1, ContractsFacts
    <3>3. StatusOf(id)' = "DELIVERED"
      BY <3>2 DEF Chain!ProcurementContract, StatusOf
    <3> QED
      BY <1>1, <3>1, <3>2, <3>3, Invisible DEF NetStep
  <2>5. ASSUME NEW id \in AwardId, tx = SettleTx(id),
               LastStage(id[1]) = "EXECUTING"
        PROVE  NetStep
    <3> DEFINE r == id[1]
    <3>1. /\ UNCHANGED logVars /\ StatusOf(id) = "DELIVERED"
          /\ contracts' = [contracts EXCEPT ![id].status = "SETTLED",
                                            ![id].settledAt = TRUE]
      BY <1>1, <1>3, <2>5, SettleExecuted
    <3>2. /\ contracts'[id] = [contracts[id] EXCEPT !.status = "SETTLED",
                                                    !.settledAt = TRUE]
          /\ contracts[id] \in Chain!ProcurementContract
          /\ \A other \in AwardId : other # id =>
               contracts'[other] = contracts[other]
      BY <1>1, <3>1, ContractsFacts
    <3>3. /\ StatusOf(id)' = "SETTLED"
          /\ contracts'[id].producer = contracts[id].producer
      BY <3>2 DEF Chain!ProcurementContract, StatusOf
    <3>4. r \in Cycle /\ id \in AwardsOf(r)
      BY AwardIdParts DEF AwardsOf
    <3>5. PICK p \in Producer : contracts[id].producer = WalletOf[p]
      <4>1. PICK i \in DOMAIN Offers :
              contracts[id].producer = WalletOf[Offers[i].producer]
        BY <1>1, <3>1 DEF CyclesInv, AwardInv
      <4> QED
        BY <4>1, OffersType
    <3>6. PaidProducer(r) = Nobody
      <4>1. ~SomePaid(r)
        BY <1>1, <3>1, <3>4 DEF PaidFacts, SomePaid
      <4> QED
        BY <1>1, <3>4, <4>1 DEF PaidFacts
    <3>7. PaidProducer(r)' = p
      <4>1. CyclesInv' => PayeesKnown'
        BY PayeeKnown, PTL
      <4>2. PaidFacts(r)'
        BY <1>1, <3>4, <4>1, Zenon DEF PayeesKnown
      <4>3. id \in AwardsOf(r)'
        BY <3>4 DEF AwardsOf
      <4> QED
        BY <3>3, <3>5, <4>2, <4>3 DEF PaidFacts
    <3>8. \A q \in Cycle : q # r => PaidProducer(q)' = PaidProducer(q)
      <4> SUFFICES ASSUME NEW q \in Cycle, q # r
                   PROVE  PaidProducer(q)' = PaidProducer(q)
        OBVIOUS
      <4>1. \A other \in AwardsOf(q) : contracts'[other] = contracts[other]
        BY <3>2 DEF AwardsOf
      <4>2. \A other \in AwardsOf(q) :
              /\ StatusOf(other)' = "SETTLED" <=> StatusOf(other) = "SETTLED"
              /\ contracts'[other].producer = contracts[other].producer
        BY <4>1 DEF StatusOf
      <4> QED
        BY <1>1, <4>2, PayeeKept
    <3>9. \A q \in Cycle : LastStage(q)' = LastStage(q)
      BY <3>1, TrailsUnchanged
    <3> HIDE DEF r
    <3>10. LastStage(r) = "EXECUTING"
      BY <2>5 DEF r
    <3> QED
      BY <3>4, <3>6, <3>7, <3>8, <3>9, <3>10 DEF NetStep
  <2> QED
    BY <1>3, <2>1, <2>2, <2>3, <2>4, <2>5 DEF Justified
<1> QED
  BY <1>2, <1>3 DEF ChainStep

\* Seen from the chain, on a node that raises on a revert, every behaviour of
\* the broker is one of the contract net protocol: no stage out of order, no
\* delivery or settlement on record that is not paid, no failure that is, and
\* no requirement paid twice.
THEOREM GraphImplementsContractNet == Spec => ImplementsContractNet
<1> DEFINE st == [r \in Cycle |-> IF revertRaises THEN LastStage(r) ELSE "NONE"]
           py == [r \in Cycle |-> IF revertRaises THEN PaidProducer(r)
                                                  ELSE Nobody]
<1>1. Init => Net!NetInit
  <2> SUFFICES ASSUME Init PROVE Net!NetInit
    OBVIOUS
  <2>1. \A r \in Cycle : LastStage(r) = "NONE" /\ PaidProducer(r) = Nobody
    <3>1. ContractsInv /\ \A r \in Cycle : PaidFacts(r)
      BY InitGraphInv, PayeeKnown DEF GraphInv, PayeesKnown
    <3>2. \A r \in Cycle : Len(byRequirement[r]) = 0
      BY DEF Init, Log!LogInit
    <3>3. \A r \in Cycle : ~SomePaid(r)
      BY DEF Init, Chain!EscrowInit, SomePaid, StatusOf, AwardsOf,
             Chain!NoContract
    <3> QED
      BY <3>1, <3>2, <3>3, TrailFacts DEF PaidFacts
  <2> QED
    BY <2>1 DEF Net!NetInit
<1>2. GraphInv /\ GraphInv' /\ [Next]_vars => [Net!NetNext]_Net!netVars
  <2> SUFFICES ASSUME GraphInv, GraphInv', [Next]_vars
               PROVE  [Net!NetNext]_Net!netVars
    OBVIOUS
  <2>1. ChainStep
    BY EveryChainStep
  <2>2. CASE ~revertRaises
    <3>1. st' = st /\ py' = py
      BY <2>1, <2>2 DEF ChainStep
    <3> QED
      BY <3>1 DEF Net!netVars
  <2>3. CASE revertRaises
    <3>1. /\ revertRaises'
          /\ NetStep
      BY <2>1, <2>3, ChainStepIsNetStep DEF ChainStep
    <3>2. /\ st = [r \in Cycle |-> LastStage(r)]
          /\ py = [r \in Cycle |-> PaidProducer(r)]
          /\ st' = [r \in Cycle |-> LastStage(r)']
          /\ py' = [r \in Cycle |-> PaidProducer(r)']
      BY <2>3, <3>1
    <3>3. CASE /\ \A q \in Cycle : LastStage(q)' = LastStage(q)
               /\ \A q \in Cycle : PaidProducer(q)' = PaidProducer(q)
      <4>1. st' = st /\ py' = py
        BY <3>2, <3>3
      <4> QED
        BY <4>1 DEF Net!netVars
    <3>4. ASSUME NEW r \in Cycle, NEW s \in Net!Stages,
                 <<LastStage(r), s>> \in Net!Succession,
                 s \in {"DELIVERED", "SETTLED"} => PaidProducer(r) # Nobody,
                 s = "FAILED" => PaidProducer(r) = Nobody,
                 \A q \in Cycle : LastStage(q)' = IF q = r THEN s
                                                  ELSE LastStage(q),
                 \A q \in Cycle : PaidProducer(q)' = PaidProducer(q)
          PROVE  Net!NetNext
      <4>1. st' = [st EXCEPT ![r] = s] /\ py' = py
        <5>1. st' = [q \in Cycle |-> IF q = r THEN s ELSE LastStage(q)]
          BY <3>2, <3>4
        <5>2. [st EXCEPT ![r] = s]
                = [q \in Cycle |-> IF q = r THEN s ELSE LastStage(q)]
          BY <3>2
        <5>3. py' = py
          BY <3>2, <3>4
        <5> QED
          BY <5>1, <5>2, <5>3
      <4>2. st[r] = LastStage(r) /\ py[r] = PaidProducer(r)
        BY <3>2
      <4> HIDE DEF st, py
      <4>3. Net!Record(r, s)
        BY <3>4, <4>1, <4>2 DEF Net!Record, st, py
      <4> QED
        BY <4>3 DEF Net!NetNext
    <3>5. ASSUME NEW r \in Cycle, NEW p \in Producer,
                 LastStage(r) = "EXECUTING", PaidProducer(r) = Nobody,
                 \A q \in Cycle : LastStage(q)' = LastStage(q),
                 \A q \in Cycle : PaidProducer(q)' = IF q = r THEN p
                                                     ELSE PaidProducer(q)
          PROVE  Net!NetNext
      <4>1. st' = st /\ py' = [py EXCEPT ![r] = p]
        BY <3>2, <3>5
      <4>2. st[r] = LastStage(r) /\ py[r] = PaidProducer(r)
        BY <3>2
      <4>3. Net!Pay(r, p)
        BY <3>5, <4>1, <4>2 DEF Net!Pay
      <4> QED
        BY <4>3 DEF Net!NetNext
    <3> QED
      BY <3>1, <3>3, <3>4, <3>5 DEF NetStep
  <2> QED
    BY <2>2, <2>3
<1> QED
  BY <1>1, <1>2, InitGraphInv, NextGraphInv, PTL
     DEF Spec, ImplementsContractNet, Net!NetSpec

-----------------------------------------------------------------------------
(* The books of the cycles *)

\* Sums over awards: what the escrow's proofs say of sums, in the graph's
\* words.
LEMMA AwardSums ==
  /\ EP!IsFiniteSet(AwardId)
  /\ \A f, T : EP!SumFunctionOnSet(f, T) = SumFunctionOnSet(f, T)
<1>1. \A f, T : EP!SumFunctionOnSet(f, T) = SumFunctionOnSet(f, T)
  BY Zenon DEF SumFunctionOnSet, FoldFunctionOnSet, MapThenFoldSet,
               EP!SumFunctionOnSet, EP!FoldFunctionOnSet, EP!MapThenFoldSet
<1> QED
  BY <1>1, ContractAssumptions

\* The sum of nothing is zero, and a sum of amounts is an amount.
LEMMA AmountsType ==
  ASSUME NEW f, \A x \in AwardId : f[x] \in Nat
  PROVE  /\ SumFunctionOnSet(f, {}) = 0
         /\ \A T \in SUBSET AwardId : SumFunctionOnSet(f, T) \in Nat
<1>1. \A T \in SUBSET AwardId : EP!SumFunctionOnSet(f, T) \in Nat
  BY AwardSums, ContractAssumptions, EP!SumType
<1>2. EP!SumFunctionOnSet(f, {}) = 0
  BY ContractAssumptions, EP!SumEmpty
<1> QED
  BY <1>1, <1>2, AwardSums

\* A total depends on the amounts summed alone.
LEMMA TotalSame ==
  ASSUME NEW T \in SUBSET AwardId, NEW f, NEW h, \A x \in T : f[x] = h[x]
  PROVE  SumFunctionOnSet(f, T) = SumFunctionOnSet(h, T)
<1>1. EP!IsFiniteSet(T)
  <2>1. \A S : IsFiniteSet(S) <=> EP!IsFiniteSet(S)
    BY Zenon DEF IsFiniteSet, EP!IsFiniteSet
  <2> QED
    BY <2>1, FiniteAddresses, FS_Subset
<1>2. EP!SumFunctionOnSet(f, T) = EP!SumFunctionOnSet(h, T)
  BY <1>1, ContractAssumptions, EP!SumSame
<1> QED
  BY <1>2, AwardSums

\* One award more adds its amount, whatever the others count for elsewhere.
LEMMA TotalMore ==
  ASSUME NEW f, NEW h, \A x \in AwardId : h[x] \in Nat,
         NEW T \in SUBSET AwardId, NEW x \in AwardId, x \notin T,
         \A y \in T : f[y] = h[y]
  PROVE  SumFunctionOnSet(h, T \cup {x}) = h[x] + SumFunctionOnSet(f, T)
<1>1. EP!SumFunctionOnSet(h, T \cup {x})
        = h[x] + EP!SumFunctionOnSet(h, (T \cup {x}) \ {x})
  <2>1. T \cup {x} \in SUBSET AwardId /\ x \in T \cup {x}
    OBVIOUS
  <2> QED
    BY <2>1, AwardSums, ContractAssumptions, EP!SumExtract
<1>2. (T \cup {x}) \ {x} = T
  OBVIOUS
<1>3. SumFunctionOnSet(f, T) = SumFunctionOnSet(h, T)
  BY TotalSame
<1> QED
  BY <1>1, <1>2, <1>3, AwardSums

Amounts == [id \in AwardId |-> contracts[id].amountUsdc]
Created == {id \in AwardId : contracts[id].createdAt}
Unpaid == {id \in Created : StatusOf(id) # "SETTLED"}
PaidTo(w) ==
  {id \in Created : StatusOf(id) = "SETTLED" /\ contracts[id].producer = w}

\* The sums of Books, with the payees as wallets.
BooksInv ==
  /\ balance[Escrow] = SumFunctionOnSet(Amounts, Unpaid)
  /\ \A p \in Producer :
       balance[WalletOf[p]] = SumFunctionOnSet(Amounts, PaidTo(WalletOf[p]))
  /\ balance[Wallet] + SumFunctionOnSet(Amounts, Created) = Funds

\* The accounts of the cycle are different, and a transfer between two moves
\* its amount.
LEMMA TransferBetween ==
  ASSUME balance \in [Address -> Nat], NEW a \in Address, NEW b \in Address,
         a # b, NEW n \in Nat, Chain!CanMove(a, b, n)
  PROVE  LET moved == Chain!Moved(a, b, n) IN
           /\ moved[a] = balance[a] - n /\ moved[b] = balance[b] + n
           /\ \A c \in Address \ {a, b} : moved[c] = balance[c]
BY DEF Chain!Moved, Chain!CanMove

LEMMA InitBooksInv == Init => BooksInv
<1> SUFFICES ASSUME Init PROVE BooksInv
  OBVIOUS
<1>1. /\ Created = {} /\ Unpaid = {}
      /\ \A w : PaidTo(w) = {}
  BY DEF Init, Chain!EscrowInit, Chain!NoContract, Created, Unpaid, PaidTo
<1>2. \A x \in AwardId : Amounts[x] \in Nat
  BY InitGraphInv, ContractsFacts DEF GraphInv, Amounts
<1>3. SumFunctionOnSet(Amounts, {}) = 0
  BY <1>2, AmountsType
<1>4. /\ balance[Escrow] = 0 /\ balance[Wallet] = Funds
      /\ \A p \in Producer : balance[WalletOf[p]] = 0
  BY GraphAssumption DEF Init, Address
<1>5. \A p \in Producer :
        balance[WalletOf[p]] = SumFunctionOnSet(Amounts, PaidTo(WalletOf[p]))
  BY <1>1, <1>3, <1>4
<1>6. balance[Escrow] = SumFunctionOnSet(Amounts, Unpaid)
  BY <1>1, <1>3, <1>4
<1>7. SumFunctionOnSet(Amounts, Created) = 0
  BY <1>1, <1>3
<1> QED
  BY <1>4, <1>5, <1>6, <1>7, GraphAssumption DEF BooksInv

\* Amounts and statuses stay: so do the sums.
LEMMA BooksStay ==
  ASSUME GraphInv, GraphInv', BooksInv, UNCHANGED balance,
         \A id \in AwardId :
           /\ contracts'[id].amountUsdc = contracts[id].amountUsdc
           /\ contracts'[id].createdAt = contracts[id].createdAt
           /\ StatusOf(id)' = "SETTLED" <=> StatusOf(id) = "SETTLED"
           /\ StatusOf(id) = "SETTLED" =>
                contracts'[id].producer = contracts[id].producer
  PROVE  BooksInv'
<1>1. Amounts' = Amounts /\ Created' = Created /\ Unpaid' = Unpaid
  BY DEF Amounts, Created, Unpaid
<1>2. \A w : PaidTo(w)' = PaidTo(w)
  BY <1>1 DEF PaidTo, Created
<1>3. \A p \in Producer : PaidTo(WalletOf[p])' = PaidTo(WalletOf[p])
  BY <1>2
<1> QED
  BY <1>1, <1>3, Zenon DEF BooksInv

\* createContract(): the wallet's tokens become the escrow's.
LEMMA BooksCreate ==
  ASSUME GraphInv, GraphInv', BooksInv, NEW id \in AwardId, NEW price \in Nat,
         Executes(CreateTx(id, price))
  PROVE  BooksInv'
<1>1. /\ ContractsInv /\ ContractsInv'
      /\ ~contracts[id].createdAt
      /\ contracts' = [contracts EXCEPT ![id] =
           [Chain!NoContract EXCEPT !.consumer = Wallet,
                                    !.amountUsdc = price, !.createdAt = TRUE]]
      /\ balance' = Chain!Moved(Wallet, Escrow, price)
      /\ Chain!CanMove(Wallet, Escrow, price)
  BY CreateExecuted DEF GraphInv, Chain!Exists
<1>2. /\ contracts \in [AwardId -> Chain!ProcurementContract]
      /\ balance \in [Address -> Nat]
      /\ \A x \in AwardId : Amounts[x] \in Nat /\ Amounts'[x] \in Nat
  <2>1. \A x \in AwardId : contracts[x].amountUsdc \in Nat
                           /\ contracts'[x].amountUsdc \in Nat
    <3>1. contracts'[id].amountUsdc = price
      BY <1>1, ContractsFacts DEF Chain!NoContract
    <3>2. \A x \in AwardId \ {id} : contracts'[x] = contracts[x]
      BY <1>1, ContractsFacts
    <3> QED
      BY <1>1, <3>1, <3>2, ContractsFacts
  <2> QED
    BY <1>1, <2>1, ContractsFacts DEF Amounts
<1>3. /\ contracts'[id].amountUsdc = price /\ contracts'[id].createdAt
      /\ contracts'[id].status = "CREATED"
      /\ \A x \in AwardId \ {id} : contracts'[x] = contracts[x]
  BY <1>1, <1>2 DEF Chain!NoContract
<1>4. /\ Created' = Created \cup {id} /\ id \notin Created
      /\ Unpaid' = Unpaid \cup {id} /\ id \notin Unpaid
      /\ Created \in SUBSET AwardId /\ Unpaid \in SUBSET AwardId
  BY <1>1, <1>3 DEF Created, Unpaid, StatusOf
<1>5. \A p \in Producer :
        /\ PaidTo(WalletOf[p])' = PaidTo(WalletOf[p])
        /\ PaidTo(WalletOf[p]) \in SUBSET AwardId
        /\ id \notin PaidTo(WalletOf[p])
  BY <1>1, <1>3 DEF PaidTo, Created, StatusOf
<1>6. /\ \A x \in AwardId \ {id} : Amounts[x] = Amounts'[x]
      /\ Amounts'[id] = price
  BY <1>3 DEF Amounts
<1>7. /\ SumFunctionOnSet(Amounts', Created')
           = price + SumFunctionOnSet(Amounts, Created)
      /\ SumFunctionOnSet(Amounts', Unpaid')
           = price + SumFunctionOnSet(Amounts, Unpaid)
  <2>1. /\ \A y \in Created : Amounts[y] = Amounts'[y]
        /\ \A y \in Unpaid : Amounts[y] = Amounts'[y]
    BY <1>4, <1>6
  <2>2. PICK f, h : f = Amounts /\ h = Amounts'
    OBVIOUS
  <2>3. PICK C, U : C = Created /\ U = Unpaid
    OBVIOUS
  <2>4. /\ SumFunctionOnSet(h, C \cup {id}) = h[id] + SumFunctionOnSet(f, C)
        /\ SumFunctionOnSet(h, U \cup {id}) = h[id] + SumFunctionOnSet(f, U)
    BY <1>2, <1>4, <2>1, <2>2, <2>3, TotalMore
  <2> QED
    BY <1>4, <1>6, <2>2, <2>3, <2>4
<1>8. \A p \in Producer :
        SumFunctionOnSet(Amounts', PaidTo(WalletOf[p])')
          = SumFunctionOnSet(Amounts, PaidTo(WalletOf[p]))
  <2>1. PICK f, h : f = Amounts /\ h = Amounts'
    OBVIOUS
  <2> SUFFICES ASSUME NEW p \in Producer
               PROVE  SumFunctionOnSet(h, PaidTo(WalletOf[p]))
                        = SumFunctionOnSet(f, PaidTo(WalletOf[p]))
    BY <1>5, <2>1
  <2> QED
    BY <1>5, <1>6, <2>1, TotalSame
<1>9. /\ balance'[Escrow] = balance[Escrow] + price
      /\ balance'[Wallet] = balance[Wallet] - price
      /\ balance[Wallet] \in Nat
      /\ \A p \in Producer : balance'[WalletOf[p]] = balance[WalletOf[p]]
  <2>1. /\ Escrow \in Address /\ Wallet \in Address /\ Escrow # Wallet
        /\ \A p \in Producer : WalletOf[p] \in Address \ {Escrow, Wallet}
    BY GraphAssumption DEF Address
  <2> QED
    BY <1>1, <1>2, <2>1, TransferBetween
<1>10. /\ SumFunctionOnSet(Amounts, Created) \in Nat
       /\ SumFunctionOnSet(Amounts, Unpaid) \in Nat
  BY <1>2, <1>4, AmountsType
<1> QED
  BY <1>7, <1>8, <1>9, <1>10, GraphAssumption DEF BooksInv

\* settlePayment(): the escrow's tokens become the producer's.
LEMMA BooksSettle ==
  ASSUME GraphInv, GraphInv', BooksInv, NEW id \in AwardId,
         Executes(SettleTx(id))
  PROVE  BooksInv'
<1>1. /\ ContractsInv
      /\ contracts[id].createdAt /\ contracts[id].status = "DELIVERED"
      /\ contracts' = [contracts EXCEPT ![id].status = "SETTLED",
                                        ![id].settledAt = TRUE]
      /\ balance' = Chain!Moved(Escrow, contracts[id].producer,
                                contracts[id].amountUsdc)
      /\ Chain!CanMove(Escrow, contracts[id].producer,
                       contracts[id].amountUsdc)
  BY SettleExecuted DEF GraphInv, Chain!Exists, StatusOf
<1>2. /\ contracts \in [AwardId -> Chain!ProcurementContract]
      /\ balance \in [Address -> Nat]
      /\ \A x \in AwardId : contracts[x].amountUsdc \in Nat
  BY <1>1, ContractsFacts
<1>3. /\ contracts'[id].amountUsdc = contracts[id].amountUsdc
      /\ contracts'[id].createdAt = contracts[id].createdAt
      /\ contracts'[id].producer = contracts[id].producer
      /\ contracts'[id].status = "SETTLED"
      /\ \A x \in AwardId \ {id} : contracts'[x] = contracts[x]
  BY <1>1, <1>2 DEF Chain!ProcurementContract
<1>4. PICK p \in Producer : contracts[id].producer = WalletOf[p]
  <2>1. AwardInv(id)
    BY DEF GraphInv, CyclesInv
  <2>2. PICK i \in DOMAIN Offers :
          contracts[id].producer = WalletOf[Offers[i].producer]
    BY <1>1, <2>1 DEF AwardInv, StatusOf
  <2> QED
    BY <2>2, OffersType
<1>5. PICK f : f = Amounts
  OBVIOUS
<1>6. Amounts' = f /\ f[id] = contracts[id].amountUsdc
      /\ \A x \in AwardId : f[x] \in Nat
  BY <1>2, <1>3, <1>5 DEF Amounts
<1>7. /\ Created' = Created
      /\ Unpaid = Unpaid' \cup {id} /\ id \notin Unpaid'
      /\ Unpaid' \in SUBSET AwardId
      /\ PaidTo(WalletOf[p])' = PaidTo(WalletOf[p]) \cup {id}
      /\ id \notin PaidTo(WalletOf[p])
      /\ PaidTo(WalletOf[p]) \in SUBSET AwardId
  BY <1>1, <1>3, <1>4 DEF Created, Unpaid, PaidTo, StatusOf
<1>8. \A q \in Producer \ {p} : PaidTo(WalletOf[q])' = PaidTo(WalletOf[q])
  <2>1. \A q \in Producer \ {p} : WalletOf[q] # WalletOf[p]
    BY GraphAssumption
  <2> QED
    <3> SUFFICES ASSUME NEW q \in Producer \ {p}
                 PROVE  PaidTo(WalletOf[q])' = PaidTo(WalletOf[q])
      OBVIOUS
    <3>1. contracts[id].producer # WalletOf[q]
      BY <1>4, <2>1
    <3>2. \A x \in AwardId :
            (x \in Created /\ StatusOf(x) = "SETTLED"
                /\ contracts[x].producer = WalletOf[q])'
              <=> (x \in Created /\ StatusOf(x) = "SETTLED"
                     /\ contracts[x].producer = WalletOf[q])
      BY <1>3, <3>1 DEF Created, StatusOf
    <3>3. Created' \subseteq AwardId /\ Created \subseteq AwardId
      BY DEF Created
    <3> QED
      BY <3>2, <3>3, Zenon DEF PaidTo
<1>9. /\ SumFunctionOnSet(f, Unpaid) = f[id] + SumFunctionOnSet(f, Unpaid')
      /\ SumFunctionOnSet(f, PaidTo(WalletOf[p])')
           = f[id] + SumFunctionOnSet(f, PaidTo(WalletOf[p]))
      /\ SumFunctionOnSet(f, Unpaid') \in Nat
  <2>1. PICK U, P : U = Unpaid' /\ P = PaidTo(WalletOf[p])
    OBVIOUS
  <2>2. /\ SumFunctionOnSet(f, U \cup {id}) = f[id] + SumFunctionOnSet(f, U)
        /\ SumFunctionOnSet(f, P \cup {id}) = f[id] + SumFunctionOnSet(f, P)
        /\ SumFunctionOnSet(f, U) \in Nat
    BY <1>6, <1>7, <2>1, TotalMore, AmountsType
  <2> QED
    BY <1>7, <2>1, <2>2
<1>10. /\ balance'[Escrow] = balance[Escrow] - f[id]
       /\ balance'[Wallet] = balance[Wallet]
       /\ balance'[WalletOf[p]] = balance[WalletOf[p]] + f[id]
       /\ balance[WalletOf[p]] \in Nat /\ f[id] \in Nat
       /\ \A q \in Producer \ {p} : balance'[WalletOf[q]] = balance[WalletOf[q]]
  <2>1. /\ Escrow \in Address /\ Wallet \in Address \ {Escrow, WalletOf[p]}
        /\ \A q \in Producer : WalletOf[q] \in Address \ {Escrow}
        /\ \A q \in Producer \ {p} : WalletOf[q] # WalletOf[p]
    BY GraphAssumption DEF Address
  <2> QED
    BY <1>1, <1>2, <1>4, <1>6, <2>1, TransferBetween
<1>11. /\ balance[Escrow] = SumFunctionOnSet(f, Unpaid)
       /\ \A q \in Producer :
            balance[WalletOf[q]] = SumFunctionOnSet(f, PaidTo(WalletOf[q]))
       /\ balance[Wallet] + SumFunctionOnSet(f, Created) = Funds
  BY <1>5 DEF BooksInv
<1>12. balance'[Escrow] = SumFunctionOnSet(f, Unpaid')
  BY <1>9, <1>10, <1>11
<1>13. ASSUME NEW q \in Producer
       PROVE  balance'[WalletOf[q]] = SumFunctionOnSet(f, PaidTo(WalletOf[q])')
  <2>1. CASE q = p
    BY <1>9, <1>10, <1>11, <2>1
  <2>2. CASE q # p
    BY <1>8, <1>10, <1>11, <2>2
  <2> QED
    BY <2>1, <2>2
<1> QED
  BY <1>6, <1>7, <1>10, <1>11, <1>12, <1>13 DEF BooksInv

LEMMA NextBooksInv ==
  ASSUME GraphInv, GraphInv', BooksInv, ChainStep
  PROVE  BooksInv'
<1>1. CASE UNCHANGED <<contracts, balance, logVars>>
  BY <1>1, BooksStay DEF StatusOf
<1>2. ASSUME NEW tx, Justified(tx), Executes(tx)
      PROVE  BooksInv'
  <2>1. CASE \E r \in Cycle, s \in Log!Stage : IsLogTx(tx, r, s)
    <3>1. UNCHANGED <<contracts, balance>>
      BY <1>2, <2>1 DEF Executes, IsLogTx, chainVars
    <3> QED
      BY <3>1, BooksStay DEF StatusOf
  <2>2. CASE \E id \in AwardId, i \in DOMAIN Offers :
               tx = CreateTx(id, Offers[i].price)
    BY <1>2, <2>2, BooksCreate, OffersType
  <2>3. CASE \E id \in AwardId, producer \in Producer :
               tx = AwardTx(id, producer)
    <3>1. PICK id \in AwardId, producer \in Producer :
            tx = AwardTx(id, producer)
      BY <2>3
    <3>2. /\ ContractsInv /\ UNCHANGED balance /\ StatusOf(id) = "CREATED"
          /\ contracts' = [contracts EXCEPT ![id].producer = WalletOf[producer],
                                            ![id].status = "AWARDED"]
      BY <1>2, <3>1, AwardExecuted DEF GraphInv
    <3>3. contracts \in [AwardId -> Chain!ProcurementContract]
      BY <3>2, ContractsFacts
    <3> QED
      BY <3>2, <3>3, BooksStay DEF StatusOf, Chain!ProcurementContract
  <2>4. CASE \E id \in AwardId : tx = DeliveryTx(id)
    <3>1. PICK id \in AwardId : tx = DeliveryTx(id)
      BY <2>4
    <3>2. /\ ContractsInv /\ UNCHANGED balance /\ StatusOf(id) = "AWARDED"
          /\ contracts' = [contracts EXCEPT ![id].deliveryHash = "evidence",
                                            ![id].status = "DELIVERED"]
      BY <1>2, <3>1, DeliveryExecuted DEF GraphInv
    <3>3. contracts \in [AwardId -> Chain!ProcurementContract]
      BY <3>2, ContractsFacts
    <3> QED
      BY <3>2, <3>3, BooksStay DEF StatusOf, Chain!ProcurementContract
  <2>5. CASE \E id \in AwardId : tx = SettleTx(id)
    BY <1>2, <2>5, BooksSettle
  <2> QED
    BY <1>2, <2>1, <2>2, <2>3, <2>4, <2>5, Zenon DEF Justified
<1> QED
  BY <1>1, <1>2 DEF ChainStep

\* Every token the wallet started with is in the wallet, in the escrow of an
\* award not yet paid, or with the producer whose bid it paid, at the price
\* that producer bid, under any reverts, exceptions and late transactions.
THEOREM BooksBalance == Spec => []Books
<1>1. ASSUME GraphInv, BooksInv PROVE Books
  <2>1. /\ ContractsInv /\ \A id \in AwardId : AwardInv(id)
    BY <1>1 DEF GraphInv, CyclesInv
  <2>2. \A id \in AwardId : StatusOf(id) \in Chain!Status
          /\ (StatusOf(id) = "CREATED" => contracts[id].producer = Zero)
    BY <2>1, ContractsFacts
  <2>3. ASSUME NEW i \in DOMAIN Offers, NEW id \in AwardId,
               contracts[id].producer = WalletOf[Offers[i].producer]
        PROVE  contracts[id].amountUsdc = Offers[i].price
    <3>1. Offers[i].producer \in Producer
      BY OffersType
    <3>2. StatusOf(id) \in {"AWARDED", "DELIVERED", "SETTLED"}
      BY <2>1, <2>2, <2>3, <3>1, GraphAssumption DEF Chain!Status, AwardInv
    <3>3. PICK j \in DOMAIN Offers :
            /\ contracts[id].producer = WalletOf[Offers[j].producer]
            /\ contracts[id].amountUsdc = Offers[j].price
      BY <2>1, <3>2 DEF AwardInv
    <3>4. Offers[j].producer \in Producer
      BY OffersType
    <3>5. i = j
      BY <2>3, <3>1, <3>3, <3>4, GraphAssumption
    <3> QED
      BY <3>3, <3>5
  <2>4. SumFunctionOnSet(Amounts, Created) \in Nat /\ balance[Wallet] \in Nat
    <3>1. \A x \in AwardId : Amounts[x] \in Nat
      BY <2>1, ContractsFacts DEF Amounts
    <3>2. Created \in SUBSET AwardId
      BY DEF Created
    <3> QED
      BY <2>1, <3>1, <3>2, AmountsType, ContractsFacts, ContractAssumptions
  <2>5. balance[Wallet] = Funds - SumFunctionOnSet(Amounts, Created)
    BY <1>1, <2>4, GraphAssumption DEF BooksInv
  <2>6. \A i \in DOMAIN Offers : Offers[i].producer \in Producer
    BY OffersType
  <2> QED
    BY <1>1, <2>3, <2>5, <2>6, Zenon
       DEF BooksInv, Books, Amounts, Created, Unpaid, PaidTo
<1>2. GraphInv /\ GraphInv' /\ BooksInv /\ [Next]_vars => BooksInv'
  BY EveryChainStep, NextBooksInv
<1> QED
  BY <1>1, <1>2, InitGraphInv, NextGraphInv, InitBooksInv, PTL DEF Spec
=============================================================================
