-------------------------- MODULE BlackRiverBroker --------------------------
(***************************************************************************)
(* The escrow contract, contracts/BlackRiverBroker.sol, together with the  *)
(* token it holds.  Every externally callable function that changes state  *)
(* is an action; its first argument is msg.sender.  A transaction is       *)
(* atomic, so a function is one action, and one that reverts is no step.   *)
(* The nonReentrant flag is left out: MockUSDC calls nobody back, so it is *)
(* clear whenever a function is entered.  Timestamps are abstracted to     *)
(* whether they are non-zero.                                              *)
(***************************************************************************)
EXTENDS MockUSDC, Functions

CONSTANTS
  Escrow,        \* address(this)
  AwardId,       \* award identifiers minted by the Python layer
  Consumers,     \* wallets a createContract() names; bounds the model
  Payees,        \* wallets a recordAward() names; bounds the model
  Brokers,       \* wallets a setBroker() names; bounds the model
  Hash,          \* bytes32 values offered as delivery hashes
  ZeroHash,      \* bytes32(0)
  Deployer       \* sender of the deployment, first owner of both contracts

ASSUME EscrowAssumption ==
  /\ IsFiniteSet(AwardId)
  /\ Escrow \in Address \ (Eoa \cup {Zero})
  /\ Consumers \subseteq Address
  /\ Payees \subseteq Address
  /\ Brokers \subseteq Address
  /\ ZeroHash \in Hash
  /\ Deployer \in Eoa

VARIABLES
  contracts,     \* awardId -> ProcurementContract
  broker,        \* wallet of the Python agent
  owner          \* Ownable._owner

escrowVars == <<contracts, broker, owner>>
vars == <<tokenVars, escrowVars>>

\* ContractStatus.  CREATED is the enum's zero value, so it is also what an
\* award that was never created reads as: only createdAt tells them apart.
Status == {"CREATED", "AWARDED", "DELIVERED", "SETTLED", "CANCELLED"}

ProcurementContract ==
  [consumer : Address, producer : Address, amountUsdc : Amount,
   deliveryHash : Hash, status : Status,
   createdAt : BOOLEAN, settledAt : BOOLEAN]

\* The all-zero storage of a key that was never written.
NoContract ==
  [consumer |-> Zero, producer |-> Zero, amountUsdc |-> 0,
   deliveryHash |-> ZeroHash, status |-> "CREATED",
   createdAt |-> FALSE, settledAt |-> FALSE]

EscrowTypeOK ==
  /\ contracts \in [AwardId -> ProcurementContract]
  /\ broker \in Address
  /\ owner \in Address

\* Every variable holds a value of the type its declaration in the contracts
\* gives it; in particular no balance goes below zero, and no allowance and
\* not the supply leaves uint256.
TypeOK == TokenTypeOK /\ EscrowTypeOK

-----------------------------------------------------------------------------

Exists(id) == contracts[id].createdAt

Finalised(id) == contracts[id].status \in {"SETTLED", "CANCELLED"}

\* An award whose money the contract still has to pay out or back.
Open(id) == Exists(id) /\ ~Finalised(id)

\* modifier onlyBroker
OnlyBroker(sender) == sender = broker

CanCreate(sender, id, consumer, amount) ==
  /\ OnlyBroker(sender)
  /\ ~Exists(id)
  /\ amount > 0
  /\ CanSpend(consumer, Escrow, amount)
  /\ CanMove(consumer, Escrow, amount)

CreateContract(sender, id, consumer, amount) ==
  /\ CanCreate(sender, id, consumer, amount)
  /\ TransferFrom(Escrow, consumer, Escrow, amount)
  /\ contracts' = [contracts EXCEPT ![id] =
       [NoContract EXCEPT !.consumer = consumer, !.amountUsdc = amount,
                          !.createdAt = TRUE]]
  /\ UNCHANGED <<broker, owner>>

\* Wrong on purpose: the status is not checked.
CanRecordAwardAnyStatus(sender, id) == OnlyBroker(sender) /\ Exists(id)

CanRecordAward(sender, id) ==
  /\ OnlyBroker(sender)
  /\ Exists(id)
  /\ contracts[id].status = "CREATED"

RecordAward(sender, id, producer) ==
  /\ CanRecordAward(sender, id)
  /\ contracts' = [contracts EXCEPT ![id].producer = producer,
                                    ![id].status = "AWARDED"]
  /\ UNCHANGED <<tokenVars, broker, owner>>

\* Wrong on purpose: bytes32(0) passes for evidence.
CanConfirmDeliveryAnyHash(sender, id, deliveryHash) ==
  /\ OnlyBroker(sender)
  /\ Exists(id)
  /\ contracts[id].status = "AWARDED"

CanConfirmDelivery(sender, id, deliveryHash) ==
  /\ OnlyBroker(sender)
  /\ Exists(id)
  /\ contracts[id].status = "AWARDED"
  /\ deliveryHash # ZeroHash

ConfirmDelivery(sender, id, deliveryHash) ==
  /\ CanConfirmDelivery(sender, id, deliveryHash)
  /\ contracts' = [contracts EXCEPT ![id].deliveryHash = deliveryHash,
                                    ![id].status = "DELIVERED"]
  /\ UNCHANGED <<tokenVars, broker, owner>>

CanSettle(sender, id) ==
  /\ OnlyBroker(sender)
  /\ Exists(id)
  /\ contracts[id].status = "DELIVERED"
  /\ CanMove(Escrow, contracts[id].producer, contracts[id].amountUsdc)

\* Wrong on purpose: the payment goes back to the consumer.
SettlePaymentToConsumer(sender, id) ==
  /\ CanSettle(sender, id)
  /\ contracts' = [contracts EXCEPT ![id].status = "SETTLED",
                                    ![id].settledAt = TRUE]
  /\ Transfer(Escrow, contracts[id].consumer, contracts[id].amountUsdc)
  /\ UNCHANGED <<broker, owner>>

SettlePayment(sender, id) ==
  /\ CanSettle(sender, id)
  /\ contracts' = [contracts EXCEPT ![id].status = "SETTLED",
                                    ![id].settledAt = TRUE]
  /\ Transfer(Escrow, contracts[id].producer, contracts[id].amountUsdc)
  /\ UNCHANGED <<broker, owner>>

\* Wrong on purpose: a settled award can still be cancelled.
CanCancelSettled(sender, id) ==
  /\ OnlyBroker(sender)
  /\ Exists(id)
  /\ contracts[id].status # "CANCELLED"
  /\ CanMove(Escrow, contracts[id].consumer, contracts[id].amountUsdc)

CanCancel(sender, id) ==
  /\ OnlyBroker(sender)
  /\ Exists(id)
  /\ ~Finalised(id)
  /\ CanMove(Escrow, contracts[id].consumer, contracts[id].amountUsdc)

\* Wrong on purpose: the refund leaves the award open.
CancelContractKeepsStatus(sender, id) ==
  /\ CanCancel(sender, id)
  /\ Transfer(Escrow, contracts[id].consumer, contracts[id].amountUsdc)
  /\ UNCHANGED escrowVars

CancelContract(sender, id) ==
  /\ CanCancel(sender, id)
  /\ contracts' = [contracts EXCEPT ![id].status = "CANCELLED"]
  /\ Transfer(Escrow, contracts[id].consumer, contracts[id].amountUsdc)
  /\ UNCHANGED <<broker, owner>>

-----------------------------------------------------------------------------

SetBroker(sender, newBroker) ==
  /\ sender = owner
  /\ broker' = newBroker
  /\ UNCHANGED <<tokenVars, contracts, owner>>

TransferOwnership(sender, newOwner) ==
  /\ sender = owner
  /\ newOwner # Zero
  /\ owner' = newOwner
  /\ UNCHANGED <<tokenVars, contracts, broker>>

RenounceOwnership(sender) ==
  /\ sender = owner
  /\ owner' = Zero
  /\ UNCHANGED <<tokenVars, contracts, broker>>

-----------------------------------------------------------------------------

\* The constructor: the deployer names the first broker.
EscrowInit(firstBroker) ==
  /\ contracts = [id \in AwardId |-> NoContract]
  /\ broker = firstBroker
  /\ owner = Deployer

Init == TokenInit(Deployer) /\ \E b \in Eoa : EscrowInit(b)

\* The five calls of the procurement lifecycle.
LifecycleNext ==
  \E sender \in Eoa, id \in AwardId :
    \/ \E consumer \in Consumers, amount \in Amount :
         CreateContract(sender, id, consumer, amount)
    \/ \E producer \in Payees : RecordAward(sender, id, producer)
    \/ \E h \in Hash : ConfirmDelivery(sender, id, h)
    \/ SettlePayment(sender, id)
    \/ CancelContract(sender, id)

AdminNext ==
  \E sender \in Eoa :
    \/ \E b \in Brokers : SetBroker(sender, b)
    \/ \E other \in Eoa : TransferOwnership(sender, other)
    \/ RenounceOwnership(sender)

Next ==
  \/ LifecycleNext
  \/ AdminNext
  \/ TokenNext /\ UNCHANGED escrowVars

Spec == Init /\ [][Next]_vars
-----------------------------------------------------------------------------
(* Properties *)

\* The fields of a stored award agree with its status: money was pulled in
\* for it if and only if it exists, nobody is named before the award, no
\* delivery is recorded or paid without evidence, and settledAt is set by
\* settlement alone.
RecordCoherent ==
  \A id \in AwardId :
    LET c == contracts[id] IN
      /\ ~c.createdAt => c = NoContract
      /\ c.createdAt => c.amountUsdc > 0 /\ c.consumer # Zero
      /\ c.status = "CREATED" => c.producer = Zero
      /\ c.status \in {"CREATED", "AWARDED"} => c.deliveryHash = ZeroHash
      /\ c.status \in {"DELIVERED", "SETTLED"} => c.deliveryHash # ZeroHash
      /\ c.settledAt <=> c.status = "SETTLED"

\* Nobody may ever pull tokens out of the escrow: no path through the two
\* contracts leaves an allowance on its account, so its own functions are the
\* only way money leaves it.
EscrowApprovesNobody == \A a \in Address : allowance[Escrow][a] = 0

\* What the contract still owes on the awards that are open.
Liability ==
  SumFunctionOnSet([id \in AwardId |-> contracts[id].amountUsdc],
                   {id \in AwardId : Open(id)})

\* The contract "is the escrow" (BlackRiverBroker.sol:27): whatever is sent,
\* approved, minted or re-owned around it, it holds at least what it owes.
Solvent == Liability <= balance[Escrow]

\* Whatever happened to an open award, cancelContract() by the current broker
\* would not revert: the refund transfer of each is payable, and all of them
\* together (BlackRiverBroker.sol:20).
Refundable ==
  \A id \in AwardId :
    Open(id) => CanMove(Escrow, contracts[id].consumer, contracts[id].amountUsdc)

\* No call creates or destroys tokens except mint() and faucet(), so that no
\* balance can leave uint256 while the supply does not.
SupplyConserved == SumFunction(balance) = totalSupply

\* An award moves along CREATED, AWARDED, DELIVERED, SETTLED one stage at a
\* time or is cancelled from an unfinished stage; parties, amount and
\* evidence are frozen once written, and a finished award never changes.
Forward ==
  {<<"CREATED", "AWARDED">>, <<"AWARDED", "DELIVERED">>,
   <<"DELIVERED", "SETTLED">>, <<"CREATED", "CANCELLED">>,
   <<"AWARDED", "CANCELLED">>, <<"DELIVERED", "CANCELLED">>}

LifecycleStep(id) ==
  LET c == contracts[id]  d == contracts'[id] IN
    c # d =>
      \/ ~c.createdAt /\ d.createdAt /\ d.status = "CREATED"
      \/ /\ c.createdAt /\ d.createdAt
         /\ <<c.status, d.status>> \in Forward
         /\ d.consumer = c.consumer
         /\ d.amountUsdc = c.amountUsdc
         /\ d.status # "AWARDED" => d.producer = c.producer
         /\ d.status # "DELIVERED" => d.deliveryHash = c.deliveryHash

Lifecycle == [][\A id \in AwardId : LifecycleStep(id)]_vars

\* Money leaves the escrow in one way only: exactly one open award is
\* finished, its whole amount goes to the producer it was awarded to if it is
\* settled and back to its consumer if it is cancelled, and no other award
\* and no third account is touched.  With Lifecycle this is "each award is
\* paid out at most once".
Beneficiary(id) ==
  IF contracts'[id].status = "SETTLED" THEN contracts[id].producer
                                       ELSE contracts[id].consumer

PaysOut(id) ==
  /\ Open(id)
  /\ contracts'[id].status \in {"SETTLED", "CANCELLED"}
  /\ \A other \in AwardId \ {id} : contracts'[other] = contracts[other]
  /\ balance' = Moved(Escrow, Beneficiary(id), contracts[id].amountUsdc)

OutflowStep ==
  balance'[Escrow] < balance[Escrow] => \E id \in AwardId : PaysOut(id)

EscrowOutflow == [][OutflowStep]_vars
=============================================================================
