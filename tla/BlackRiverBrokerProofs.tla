----------------------- MODULE BlackRiverBrokerProofs -----------------------
(* What the escrow guarantees for every set of accounts and awards and every *)
(* width of its integers.                                                    *)
EXTENDS BlackRiverBroker, FiniteSetTheorems, WellFoundedInduction, TLAPS

\* The inductive invariant.  RecordCoherent alone is not inductive: that an
\* award in DELIVERED carries evidence needs that one in AWARDED carries none
\* yet, and the fields must have their types.  EscrowApprovesNobody is what
\* keeps createContract() and transferFrom() from paying out of the escrow.
EscrowInv == TypeOK /\ RecordCoherent /\ EscrowApprovesNobody

-----------------------------------------------------------------------------
(* The token *)

\* A transfer that passes the balance check keeps every balance natural.
LEMMA MovedType ==
  ASSUME balance \in [Address -> Nat],
         NEW from \in Address, NEW to \in Address, NEW value \in Nat,
         CanMove(from, to, value)
  PROVE  Moved(from, to, value) \in [Address -> Nat]
<1>1. CASE from = to
  BY <1>1 DEF CanMove, Moved
<1>2. CASE from # to
  BY <1>2 DEF CanMove, Moved
<1> QED
  BY <1>1, <1>2

\* An account that does not pay loses nothing in a transfer.
LEMMA MovedKeeps ==
  ASSUME balance \in [Address -> Nat],
         NEW from \in Address, NEW to \in Address, NEW value \in Nat,
         NEW a \in Address \ {from}
  PROVE  Moved(from, to, value)[a] >= balance[a]
<1>1. CASE a = to
  BY <1>1 DEF Moved
<1>2. CASE a # to
  BY <1>2 DEF Moved
<1> QED
  BY <1>1, <1>2

\* A token call other than approve() that is made by a key holder keeps the
\* types and gives nobody an allowance on the escrow.
LEMMA TransferToken ==
  ASSUME TokenTypeOK, EscrowApprovesNobody,
         NEW sender \in Address, NEW to \in Address, NEW value \in Amount,
         Transfer(sender, to, value)
  PROVE  TokenTypeOK' /\ EscrowApprovesNobody'
<1>1. value \in Nat
  BY TokenAssumption DEF Amount
<1>2. balance' \in [Address -> Nat]
  BY <1>1, MovedType DEF Transfer, TokenTypeOK
<1> QED
  BY <1>2 DEF Transfer, TokenTypeOK, EscrowApprovesNobody

LEMMA TransferFromToken ==
  ASSUME TokenTypeOK, EscrowApprovesNobody,
         NEW sender \in Address, NEW from \in Address, NEW to \in Address,
         NEW value \in Amount,
         TransferFrom(sender, from, to, value)
  PROVE  TokenTypeOK' /\ EscrowApprovesNobody'
<1>1. value \in Nat /\ MaxUint \in Nat
  BY TokenAssumption DEF Amount
<1>2. balance' \in [Address -> Nat]
  BY <1>1, MovedType DEF TransferFrom, TokenTypeOK
<1>3. allowance[from][sender] \in Amount
  BY DEF TokenTypeOK
<1>4. /\ allowance' \in [Address -> [Address -> Amount]]
      /\ EscrowApprovesNobody'
  <2>1. CASE allowance[from][sender] = MaxUint
    BY <2>1 DEF TransferFrom, Spent, TokenTypeOK, EscrowApprovesNobody
  <2>2. CASE allowance[from][sender] # MaxUint
    <3>1. allowance' = [allowance EXCEPT ![from][sender] = @ - value]
      BY <2>2 DEF TransferFrom, Spent
    <3>2. allowance[from][sender] - value \in Amount
      BY <1>1, <1>3 DEF TransferFrom, CanSpend, Amount
    <3>3. allowance' \in [Address -> [Address -> Amount]]
      BY <3>1, <3>2 DEF TokenTypeOK
    <3>4. ASSUME NEW a \in Address
          PROVE  allowance'[Escrow][a] = 0
      <4>1. CASE from = Escrow /\ sender = a
        <5>1. value = 0
          BY <1>1, <4>1
             DEF TransferFrom, CanSpend, EscrowApprovesNobody, Amount
        <5> QED
          BY <3>1, <4>1, <5>1, EscrowAssumption
             DEF TokenTypeOK, EscrowApprovesNobody
      <4>2. CASE ~(from = Escrow /\ sender = a)
        BY <3>1, <4>2, EscrowAssumption DEF TokenTypeOK, EscrowApprovesNobody
      <4> QED
        BY <4>1, <4>2
    <3> QED
      BY <3>3, <3>4 DEF EscrowApprovesNobody
  <2> QED
    BY <2>1, <2>2
<1> QED
  BY <1>2, <1>4 DEF TransferFrom, TokenTypeOK

LEMMA MintToToken ==
  ASSUME TokenTypeOK, EscrowApprovesNobody,
         NEW to \in Address, NEW value \in Nat, MintTo(to, value)
  PROVE  TokenTypeOK' /\ EscrowApprovesNobody'
<1>1. balance' \in [Address -> Nat]
  BY DEF MintTo, TokenTypeOK
<1>2. totalSupply' \in Amount
  BY TokenAssumption DEF MintTo, TokenTypeOK, Amount
<1> QED
  BY <1>1, <1>2 DEF MintTo, TokenTypeOK, EscrowApprovesNobody

\* approve() writes the allowance of its sender, which the escrow never is.
LEMMA ApproveToken ==
  ASSUME TokenTypeOK, EscrowApprovesNobody,
         NEW sender \in Eoa, NEW spender \in Address, NEW value \in Amount,
         Approve(sender, spender, value)
  PROVE  TokenTypeOK' /\ EscrowApprovesNobody'
<1>1. sender \in Address /\ sender # Escrow /\ Escrow \in Address
  BY TokenAssumption, EscrowAssumption
<1>2. allowance' \in [Address -> [Address -> Amount]]
  BY <1>1 DEF Approve, TokenTypeOK
<1>3. allowance'[Escrow] = allowance[Escrow]
  BY <1>1 DEF Approve, TokenTypeOK
<1> QED
  BY <1>2, <1>3 DEF Approve, TokenTypeOK, EscrowApprovesNobody

\* Every direct call of the token keeps the invariant and takes nothing from
\* the escrow.
LEMMA TokenNextInv ==
  ASSUME EscrowInv, TokenNext, UNCHANGED escrowVars
  PROVE  EscrowInv' /\ balance'[Escrow] >= balance[Escrow]
<1>1. TokenTypeOK /\ EscrowApprovesNobody
  BY DEF EscrowInv, TypeOK
<1>2. /\ Zero \in Address /\ Eoa \subseteq Address
      /\ Spenders \subseteq Address /\ Recipients \subseteq Address
      /\ Amount \subseteq Nat /\ FaucetAmount \in Nat
      /\ Escrow \in Address /\ Escrow \notin Eoa
  BY TokenAssumption, EscrowAssumption DEF Amount
<1>3. balance \in [Address -> Nat]
  BY <1>1 DEF TokenTypeOK
<1>4. PICK sender \in Eoa :
        \/ Faucet(sender)
        \/ RenounceTokenOwnership(sender)
        \/ \E other \in Eoa : TransferTokenOwnership(sender, other)
        \/ \E value \in Amount :
             \/ \E to \in Recipients : Transfer(sender, to, value)
             \/ \E to \in Recipients : Mint(sender, to, value)
             \/ \E spender \in Spenders : Approve(sender, spender, value)
             \/ \E from \in Address, to \in Recipients :
                  TransferFrom(sender, from, to, value)
  BY DEF TokenNext
<1>5. ASSUME NEW to \in Address, NEW value \in Nat, MintTo(to, value)
      PROVE  /\ TokenTypeOK' /\ EscrowApprovesNobody'
             /\ balance'[Escrow] >= balance[Escrow]
  <2>1. balance'[Escrow] >= balance[Escrow]
    BY <1>2, <1>3, <1>5 DEF MintTo
  <2> QED
    BY <1>1, <1>5, <2>1, MintToToken
<1>6. /\ TokenTypeOK' /\ EscrowApprovesNobody'
      /\ balance'[Escrow] >= balance[Escrow]
  <2>1. CASE Faucet(sender)
    BY <1>2, <1>5, <2>1 DEF Faucet
  <2>2. CASE RenounceTokenOwnership(sender)
    BY <1>1, <1>2, <1>3, <2>2
       DEF RenounceTokenOwnership, TokenTypeOK, EscrowApprovesNobody
  <2>3. ASSUME NEW other \in Eoa, TransferTokenOwnership(sender, other)
        PROVE  /\ TokenTypeOK' /\ EscrowApprovesNobody'
               /\ balance'[Escrow] >= balance[Escrow]
    BY <1>1, <1>2, <1>3, <2>3
       DEF TransferTokenOwnership, TokenTypeOK, EscrowApprovesNobody
  <2>4. ASSUME NEW value \in Amount, NEW to \in Recipients,
               Transfer(sender, to, value)
        PROVE  /\ TokenTypeOK' /\ EscrowApprovesNobody'
               /\ balance'[Escrow] >= balance[Escrow]
    <3>1. balance' = Moved(sender, to, value) /\ Escrow # sender
      BY <1>2, <2>4 DEF Transfer
    <3>2. balance'[Escrow] >= balance[Escrow]
      BY <1>2, <1>3, <3>1, MovedKeeps
    <3> QED
      BY <1>1, <1>2, <2>4, <3>2, TransferToken
  <2>5. ASSUME NEW value \in Amount, NEW to \in Recipients,
               Mint(sender, to, value)
        PROVE  /\ TokenTypeOK' /\ EscrowApprovesNobody'
               /\ balance'[Escrow] >= balance[Escrow]
    BY <1>2, <1>5, <2>5 DEF Mint
  <2>6. ASSUME NEW value \in Amount, NEW spender \in Spenders,
               Approve(sender, spender, value)
        PROVE  /\ TokenTypeOK' /\ EscrowApprovesNobody'
               /\ balance'[Escrow] >= balance[Escrow]
    <3>1. balance'[Escrow] >= balance[Escrow]
      BY <1>2, <1>3, <2>6 DEF Approve
    <3> QED
      BY <1>1, <1>2, <2>6, <3>1, ApproveToken
  <2>7. ASSUME NEW value \in Amount, NEW from \in Address,
               NEW to \in Recipients, TransferFrom(sender, from, to, value)
        PROVE  /\ TokenTypeOK' /\ EscrowApprovesNobody'
               /\ balance'[Escrow] >= balance[Escrow]
    <3>1. balance' = Moved(from, to, value)
      BY <2>7 DEF TransferFrom
    <3>2. CASE from # Escrow
      <4>1. balance'[Escrow] >= balance[Escrow]
        BY <1>2, <1>3, <3>1, <3>2, MovedKeeps
      <4> QED
        BY <1>1, <1>2, <2>7, <4>1, TransferFromToken
    <3>3. CASE from = Escrow
      <4>1. value = 0
        BY <1>1, <1>2, <2>7, <3>3
           DEF TransferFrom, CanSpend, EscrowApprovesNobody
      <4>2. balance'[Escrow] = balance[Escrow]
        BY <1>2, <1>3, <3>1, <3>3, <4>1 DEF Moved
      <4> QED
        BY <1>1, <1>2, <1>3, <2>7, <4>2, TransferFromToken
    <3> QED
      BY <3>2, <3>3
  <2> QED
    BY <1>4, <2>1, <2>2, <2>3, <2>4, <2>5, <2>6, <2>7
<1> QED
  BY <1>6 DEF EscrowInv, TypeOK, EscrowTypeOK, RecordCoherent, escrowVars

-----------------------------------------------------------------------------
(* The escrow's own functions *)

\* What the typing of a stored award gives.
LEMMA AwardType ==
  ASSUME EscrowTypeOK, NEW id \in AwardId
  PROVE  /\ contracts \in [AwardId -> ProcurementContract]
         /\ contracts[id] \in ProcurementContract
         /\ contracts[id].consumer \in Address
         /\ contracts[id].producer \in Address
         /\ contracts[id].amountUsdc \in Nat
         /\ contracts[id].amountUsdc \in Amount
  BY TokenAssumption DEF EscrowTypeOK, ProcurementContract, Amount

\* A call that rewrites one award keeps the records coherent if the award it
\* writes is.
Coherent(c) ==
  /\ ~c.createdAt => c = NoContract
  /\ c.createdAt => c.amountUsdc > 0 /\ c.consumer # Zero
  /\ c.status = "CREATED" => c.producer = Zero
  /\ c.status \in {"CREATED", "AWARDED"} => c.deliveryHash = ZeroHash
  /\ c.status \in {"DELIVERED", "SETTLED"} => c.deliveryHash # ZeroHash
  /\ c.settledAt <=> c.status = "SETTLED"

LEMMA OneAwardWritten ==
  ASSUME EscrowTypeOK, RecordCoherent, NEW id \in AwardId,
         NEW c \in ProcurementContract, Coherent(c),
         contracts' = [contracts EXCEPT ![id] = c],
         UNCHANGED <<broker, owner>>
  PROVE  EscrowTypeOK' /\ RecordCoherent'
<1>1. EscrowTypeOK'
  BY DEF EscrowTypeOK
<1>2. ASSUME NEW other \in AwardId
      PROVE  Coherent(contracts'[other])
  <2>1. CASE other = id
    BY <2>1 DEF EscrowTypeOK
  <2>2. CASE other # id
    <3>1. contracts'[other] = contracts[other]
      BY <2>2 DEF EscrowTypeOK
    <3> QED
      BY <3>1 DEF RecordCoherent, Coherent
  <2> QED
    BY <2>1, <2>2
<1> QED
  BY <1>1, <1>2 DEF RecordCoherent, Coherent

\* createContract() pulls from a consumer that has approved the escrow, which
\* cannot be the escrow.
LEMMA CreateContractInv ==
  ASSUME EscrowInv, NEW sender \in Eoa, NEW id \in AwardId,
         NEW consumer \in Address, NEW amount \in Amount,
         CreateContract(sender, id, consumer, amount)
  PROVE  EscrowInv' /\ balance'[Escrow] >= balance[Escrow]
<1> DEFINE c == [NoContract EXCEPT !.consumer = consumer,
                                   !.amountUsdc = amount, !.createdAt = TRUE]
<1>1. /\ Escrow \in Address /\ Zero \in Address /\ ZeroHash \in Hash
      /\ amount \in Nat /\ amount > 0 /\ 0 \in Amount
      /\ consumer # Zero
  BY TokenAssumption, EscrowAssumption
     DEF Amount, CreateContract, CanCreate, CanMove
<1>2. TokenTypeOK /\ EscrowTypeOK /\ RecordCoherent /\ EscrowApprovesNobody
  BY DEF EscrowInv, TypeOK
<1>3. c \in ProcurementContract
  BY <1>1 DEF NoContract, ProcurementContract, Status
<1>4. Coherent(c)
  BY <1>1 DEF NoContract, Coherent
<1>5. EscrowTypeOK' /\ RecordCoherent'
  BY <1>2, <1>3, <1>4, OneAwardWritten DEF CreateContract
<1>6. TokenTypeOK' /\ EscrowApprovesNobody'
  BY <1>1, <1>2, TransferFromToken DEF CreateContract
<1>7. consumer # Escrow
  BY <1>1, <1>2
     DEF CreateContract, CanCreate, CanSpend, EscrowApprovesNobody
<1>8. balance'[Escrow] >= balance[Escrow]
  BY <1>1, <1>2, <1>7, MovedKeeps
     DEF CreateContract, TransferFrom, TokenTypeOK
<1> QED
  BY <1>5, <1>6, <1>8 DEF EscrowInv, TypeOK

LEMMA RecordAwardInv ==
  ASSUME EscrowInv, NEW sender \in Eoa, NEW id \in AwardId,
         NEW producer \in Address,
         RecordAward(sender, id, producer)
  PROVE  EscrowInv' /\ balance' = balance
<1> DEFINE c == [contracts[id] EXCEPT !.producer = producer,
                                      !.status = "AWARDED"]
<1>1. TokenTypeOK /\ EscrowTypeOK /\ RecordCoherent /\ EscrowApprovesNobody
  BY DEF EscrowInv, TypeOK
<1>2. contracts' = [contracts EXCEPT ![id] = c]
  BY <1>1, AwardType DEF RecordAward
<1>3. c \in ProcurementContract
  BY <1>1, AwardType DEF ProcurementContract, Status
<1>4. Coherent(c)
  BY <1>1, AwardType
     DEF Coherent, RecordCoherent, RecordAward, CanRecordAward, Exists,
         ProcurementContract
<1>5. EscrowTypeOK' /\ RecordCoherent'
  BY <1>1, <1>2, <1>3, <1>4, OneAwardWritten DEF RecordAward
<1> QED
  BY <1>1, <1>5
     DEF RecordAward, tokenVars, EscrowInv, TypeOK, TokenTypeOK,
         EscrowApprovesNobody

LEMMA ConfirmDeliveryInv ==
  ASSUME EscrowInv, NEW sender \in Eoa, NEW id \in AwardId,
         NEW h \in Hash,
         ConfirmDelivery(sender, id, h)
  PROVE  EscrowInv' /\ balance' = balance
<1> DEFINE c == [contracts[id] EXCEPT !.deliveryHash = h,
                                      !.status = "DELIVERED"]
<1>1. TokenTypeOK /\ EscrowTypeOK /\ RecordCoherent /\ EscrowApprovesNobody
  BY DEF EscrowInv, TypeOK
<1>2. contracts' = [contracts EXCEPT ![id] = c]
  BY <1>1, AwardType DEF ConfirmDelivery
<1>3. c \in ProcurementContract
  BY <1>1, AwardType DEF ProcurementContract, Status
<1>4. Coherent(c)
  BY <1>1, AwardType
     DEF Coherent, RecordCoherent, ConfirmDelivery, CanConfirmDelivery,
         Exists, ProcurementContract
<1>5. EscrowTypeOK' /\ RecordCoherent'
  BY <1>1, <1>2, <1>3, <1>4, OneAwardWritten DEF ConfirmDelivery
<1> QED
  BY <1>1, <1>5
     DEF ConfirmDelivery, tokenVars, EscrowInv, TypeOK, TokenTypeOK,
         EscrowApprovesNobody

LEMMA SettlePaymentInv ==
  ASSUME EscrowInv, NEW sender \in Eoa, NEW id \in AwardId,
         SettlePayment(sender, id)
  PROVE  EscrowInv'
<1> DEFINE c == [contracts[id] EXCEPT !.status = "SETTLED",
                                      !.settledAt = TRUE]
<1>1. TokenTypeOK /\ EscrowTypeOK /\ RecordCoherent /\ EscrowApprovesNobody
  BY DEF EscrowInv, TypeOK
<1>2. contracts' = [contracts EXCEPT ![id] = c]
  BY <1>1, AwardType DEF SettlePayment
<1>3. c \in ProcurementContract
  BY <1>1, AwardType DEF ProcurementContract, Status
<1>4. Coherent(c)
  BY <1>1, AwardType
     DEF Coherent, RecordCoherent, SettlePayment, CanSettle, Exists,
         ProcurementContract
<1>5. EscrowTypeOK' /\ RecordCoherent'
  BY <1>1, <1>2, <1>3, <1>4, OneAwardWritten DEF SettlePayment
<1>6. TokenTypeOK' /\ EscrowApprovesNobody'
  BY <1>1, AwardType, EscrowAssumption, TransferToken DEF SettlePayment
<1> QED
  BY <1>5, <1>6 DEF EscrowInv, TypeOK

LEMMA CancelContractInv ==
  ASSUME EscrowInv, NEW sender \in Eoa, NEW id \in AwardId,
         CancelContract(sender, id)
  PROVE  EscrowInv'
<1> DEFINE c == [contracts[id] EXCEPT !.status = "CANCELLED"]
<1>1. TokenTypeOK /\ EscrowTypeOK /\ RecordCoherent /\ EscrowApprovesNobody
  BY DEF EscrowInv, TypeOK
<1>2. contracts' = [contracts EXCEPT ![id] = c]
  BY <1>1, AwardType DEF CancelContract
<1>3. c \in ProcurementContract
  BY <1>1, AwardType DEF ProcurementContract, Status
<1>4. Coherent(c)
  BY <1>1, AwardType
     DEF Coherent, RecordCoherent, CancelContract, CanCancel, Exists,
         Finalised, ProcurementContract, Status
<1>5. EscrowTypeOK' /\ RecordCoherent'
  BY <1>1, <1>2, <1>3, <1>4, OneAwardWritten DEF CancelContract
<1>6. TokenTypeOK' /\ EscrowApprovesNobody'
  BY <1>1, AwardType, EscrowAssumption, TransferToken DEF CancelContract
<1> QED
  BY <1>5, <1>6 DEF EscrowInv, TypeOK

\* The owner's calls touch neither awards nor tokens.
LEMMA AdminInv ==
  ASSUME EscrowInv, AdminNext
  PROVE  EscrowInv' /\ UNCHANGED <<contracts, balance>>
<1>1. Eoa \subseteq Address /\ Zero \in Address /\ Brokers \subseteq Address
  BY TokenAssumption, EscrowAssumption
<1>2. UNCHANGED <<tokenVars, contracts>> /\ broker' \in Address
        /\ owner' \in Address
  BY <1>1 DEF AdminNext, SetBroker, TransferOwnership, RenounceOwnership,
              EscrowInv, TypeOK, EscrowTypeOK
<1> QED
  BY <1>2 DEF EscrowInv, TypeOK, EscrowTypeOK, TokenTypeOK, RecordCoherent,
              EscrowApprovesNobody, tokenVars

-----------------------------------------------------------------------------
(* The invariant *)

LEMMA InitEscrowInv == Init => EscrowInv
<1> SUFFICES ASSUME NEW b \in Eoa, TokenInit(Deployer), EscrowInit(b)
             PROVE  EscrowInv
  BY DEF Init
<1>1. /\ Eoa \subseteq Address /\ Zero \in Address /\ Escrow \in Address
      /\ ZeroHash \in Hash /\ Deployer \in Address /\ 0 \in Amount
  BY TokenAssumption, EscrowAssumption DEF Amount
<1>2. TokenTypeOK /\ EscrowApprovesNobody
  BY <1>1 DEF TokenInit, TokenTypeOK, EscrowApprovesNobody
<1>3. NoContract \in ProcurementContract
  BY <1>1 DEF NoContract, ProcurementContract, Status
<1>4. EscrowTypeOK
  BY <1>1, <1>3 DEF EscrowInit, EscrowTypeOK
<1>5. RecordCoherent
  BY DEF EscrowInit, RecordCoherent, NoContract
<1> QED
  BY <1>2, <1>4, <1>5 DEF EscrowInv, TypeOK

LEMMA NextEscrowInv == EscrowInv /\ [Next]_vars => EscrowInv'
<1> SUFFICES ASSUME EscrowInv, [Next]_vars
             PROVE  EscrowInv'
  OBVIOUS
<1>1. Consumers \subseteq Address /\ Payees \subseteq Address
  BY EscrowAssumption
<1>2. CASE LifecycleNext
  <2>1. PICK sender \in Eoa, id \in AwardId :
          \/ \E consumer \in Consumers, amount \in Amount :
               CreateContract(sender, id, consumer, amount)
          \/ \E producer \in Payees : RecordAward(sender, id, producer)
          \/ \E h \in Hash : ConfirmDelivery(sender, id, h)
          \/ SettlePayment(sender, id)
          \/ CancelContract(sender, id)
    BY <1>2 DEF LifecycleNext
  <2> QED
    BY <1>1, <2>1, CreateContractInv, RecordAwardInv, ConfirmDeliveryInv,
       SettlePaymentInv, CancelContractInv
<1>3. CASE AdminNext
  BY <1>3, AdminInv
<1>4. CASE TokenNext /\ UNCHANGED escrowVars
  BY <1>4, TokenNextInv
<1>5. CASE UNCHANGED vars
  BY <1>5 DEF vars, tokenVars, escrowVars, EscrowInv, TypeOK, EscrowTypeOK,
              TokenTypeOK, RecordCoherent, EscrowApprovesNobody
<1> QED
  BY <1>2, <1>3, <1>4, <1>5 DEF Next

\* No reachable state of the two contracts has an ill-typed field, a negative
\* balance, or an allowance or a supply outside its integer type.
THEOREM EscrowTypeCorrect == Spec => []TypeOK
<1>1. EscrowInv => TypeOK
  BY DEF EscrowInv
<1> QED
  BY InitEscrowInv, NextEscrowInv, <1>1, PTL DEF Spec

\* In every reachable state the fields of every stored award agree with its
\* status; none is delivered or settled without evidence.
THEOREM AwardsCoherent == Spec => []RecordCoherent
<1>1. EscrowInv => RecordCoherent
  BY DEF EscrowInv
<1> QED
  BY InitEscrowInv, NextEscrowInv, <1>1, PTL DEF Spec

\* No sequence of calls gives anyone an allowance on the escrow's tokens.
THEOREM EscrowNeverApproves == Spec => []EscrowApprovesNobody
<1>1. EscrowInv => EscrowApprovesNobody
  BY DEF EscrowInv
<1> QED
  BY InitEscrowInv, NextEscrowInv, <1>1, PTL DEF Spec

-----------------------------------------------------------------------------
(* The steps *)

\* What every step of the lifecycle is: one award is written by one of five
\* calls.
LEMMA LifecycleCases ==
  ASSUME LifecycleNext
  PROVE  \E sender \in Eoa, id \in AwardId :
           \/ \E consumer \in Address, amount \in Amount :
                CreateContract(sender, id, consumer, amount)
           \/ \E producer \in Address : RecordAward(sender, id, producer)
           \/ \E h \in Hash : ConfirmDelivery(sender, id, h)
           \/ SettlePayment(sender, id)
           \/ CancelContract(sender, id)
<1>1. Consumers \subseteq Address /\ Payees \subseteq Address
  BY EscrowAssumption
<1> QED
  BY <1>1 DEF LifecycleNext

\* Each of the five calls moves the award it is about one stage forward and
\* leaves the others alone.
LEMMA LifecycleForward ==
  ASSUME EscrowInv, LifecycleNext
  PROVE  \A other \in AwardId : LifecycleStep(other)
<1>1. PICK sender \in Eoa, id \in AwardId :
        \/ \E consumer \in Address, amount \in Amount :
             CreateContract(sender, id, consumer, amount)
        \/ \E producer \in Address : RecordAward(sender, id, producer)
        \/ \E h \in Hash : ConfirmDelivery(sender, id, h)
        \/ SettlePayment(sender, id)
        \/ CancelContract(sender, id)
  BY LifecycleCases
<1>2. /\ contracts \in [AwardId -> ProcurementContract]
      /\ contracts[id] \in ProcurementContract
  BY AwardType DEF EscrowInv, TypeOK
<1>3. ASSUME NEW other \in AwardId, other # id
      PROVE  LifecycleStep(other)
  <2>1. contracts'[other] = contracts[other]
    BY <1>1, <1>2, <1>3
       DEF CreateContract, RecordAward, ConfirmDelivery, SettlePayment,
           CancelContract
  <2> QED
    BY <2>1 DEF LifecycleStep
<1>4. LifecycleStep(id)
  <2>1. ASSUME NEW consumer \in Address, NEW amount \in Amount,
               CreateContract(sender, id, consumer, amount)
        PROVE  LifecycleStep(id)
    BY <1>2, <2>1
       DEF CreateContract, CanCreate, Exists, NoContract, LifecycleStep
  <2>2. ASSUME NEW producer \in Address, RecordAward(sender, id, producer)
        PROVE  LifecycleStep(id)
    BY <1>2, <2>2
       DEF RecordAward, CanRecordAward, Exists, LifecycleStep, Forward,
           ProcurementContract
  <2>3. ASSUME NEW h \in Hash, ConfirmDelivery(sender, id, h)
        PROVE  LifecycleStep(id)
    BY <1>2, <2>3
       DEF ConfirmDelivery, CanConfirmDelivery, Exists, LifecycleStep,
           Forward, ProcurementContract
  <2>4. CASE SettlePayment(sender, id)
    BY <1>2, <2>4
       DEF SettlePayment, CanSettle, Exists, LifecycleStep, Forward,
           ProcurementContract
  <2>5. CASE CancelContract(sender, id)
    BY <1>2, <2>5
       DEF CancelContract, CanCancel, Exists, Finalised, LifecycleStep,
           Forward, ProcurementContract, Status
  <2> QED
    BY <1>1, <2>1, <2>2, <2>3, <2>4, <2>5
<1> QED
  BY <1>3, <1>4

\* An award only ever moves forward, and a finished one never changes.
THEOREM AwardsMoveForward == Spec => Lifecycle
<1>1. EscrowInv /\ [Next]_vars
        => [\A id \in AwardId : LifecycleStep(id)]_vars
  <2> SUFFICES ASSUME EscrowInv, Next
               PROVE  \A id \in AwardId : LifecycleStep(id)
    OBVIOUS
  <2>1. CASE LifecycleNext
    BY <2>1, LifecycleForward
  <2>2. CASE AdminNext
    BY <2>2, AdminInv DEF LifecycleStep
  <2>3. CASE TokenNext /\ UNCHANGED escrowVars
    BY <2>3 DEF escrowVars, LifecycleStep
  <2> QED
    BY <2>1, <2>2, <2>3 DEF Next
<1> QED
  BY InitEscrowInv, NextEscrowInv, <1>1, PTL DEF Spec, Lifecycle

\* Settlement and cancellation are the two calls that pay out.
LEMMA PayoutCalls ==
  ASSUME EscrowInv, NEW sender \in Eoa, NEW id \in AwardId,
         SettlePayment(sender, id) \/ CancelContract(sender, id)
  PROVE  PaysOut(id)
<1>1. /\ contracts \in [AwardId -> ProcurementContract]
      /\ contracts[id] \in ProcurementContract
  BY AwardType DEF EscrowInv, TypeOK
<1>2. CASE SettlePayment(sender, id)
  <2>1. contracts'[id].status = "SETTLED"
    BY <1>1, <1>2 DEF SettlePayment, ProcurementContract
  <2> QED
    BY <1>1, <1>2, <2>1
       DEF SettlePayment, CanSettle, Transfer, PaysOut, Beneficiary, Open,
           Exists, Finalised
<1>3. CASE CancelContract(sender, id)
  <2>1. contracts'[id].status = "CANCELLED"
    BY <1>1, <1>3 DEF CancelContract, ProcurementContract
  <2> QED
    BY <1>1, <1>3, <2>1
       DEF CancelContract, CanCancel, Transfer, PaysOut, Beneficiary, Open,
           Exists, Finalised
<1> QED
  BY <1>2, <1>3

\* Money leaves the escrow only as the one payout of one open award, to the
\* producer of a settled and the consumer of a cancelled one.
THEOREM EscrowPaysOutOnce == Spec => EscrowOutflow
<1>1. EscrowInv /\ [Next]_vars => [OutflowStep]_vars
  <2> SUFFICES ASSUME EscrowInv, Next, balance'[Escrow] < balance[Escrow]
               PROVE  \E id \in AwardId : PaysOut(id)
    BY DEF OutflowStep
  <2>1. balance \in [Address -> Nat] /\ balance' \in [Address -> Nat]
          /\ Escrow \in Address
    BY NextEscrowInv, EscrowAssumption DEF EscrowInv, TypeOK, TokenTypeOK
  <2>2. balance[Escrow] \in Nat /\ balance'[Escrow] \in Nat
    BY <2>1
  <2>3. CASE LifecycleNext
    <3>1. PICK sender \in Eoa, id \in AwardId :
            \/ \E consumer \in Address, amount \in Amount :
                 CreateContract(sender, id, consumer, amount)
            \/ \E producer \in Address : RecordAward(sender, id, producer)
            \/ \E h \in Hash : ConfirmDelivery(sender, id, h)
            \/ SettlePayment(sender, id)
            \/ CancelContract(sender, id)
      BY <2>3, LifecycleCases
    <3>2. SettlePayment(sender, id) \/ CancelContract(sender, id)
      BY <2>2, <3>1, CreateContractInv, RecordAwardInv, ConfirmDeliveryInv
    <3> QED
      BY <3>2, PayoutCalls
  <2>4. CASE AdminNext
    BY <2>2, <2>4, AdminInv
  <2>5. CASE TokenNext /\ UNCHANGED escrowVars
    BY <2>2, <2>5, TokenNextInv
  <2> QED
    BY <2>3, <2>4, <2>5 DEF Next
<1> QED
  BY InitEscrowInv, NextEscrowInv, <1>1, PTL DEF Spec, EscrowOutflow

-----------------------------------------------------------------------------
(* Sums.  The community modules define a sum by a fold, which is a function  *)
(* on the subsets of a set, given by recursion; that it is one, and what it  *)
(* computes, follows from the strict subsets of a finite set being well      *)
(* founded.                                                                  *)

Pick(s) == CHOOSE x \in s : TRUE

\* g is the sum of f over each subset of S.
Sums(g, f, S) ==
  g = [s \in SUBSET S |->
         IF s = {} THEN 0 ELSE f[Pick(s)] + g[s \ {Pick(s)}]]

\* A non-empty set of subsets of a finite set has a smallest one.
LEMMA SmallestSubset ==
  ASSUME NEW S, IsFiniteSet(S), NEW C, C \subseteq SUBSET S, C # {}
  PROVE  \E T \in C : \A U \in C : ~(U \subseteq T /\ U # T)
<1>1. IsWellFoundedOn(StrictSubsetOrdering(S), SUBSET S)
  BY FS_StrictSubsetOrderingWellFounded, FS_FiniteSubsetsOfFinite
<1>2. PICK T \in C : \A U \in C : ~(<<U, T>> \in StrictSubsetOrdering(S))
  BY <1>1, WFMin
<1> QED
  BY <1>2 DEF StrictSubsetOrdering

LEMMA PickIn == ASSUME NEW s, s # {} PROVE Pick(s) \in s
  BY DEF Pick

\* The sum of a subset does not depend on the set it is taken in.
LEMMA SumsUnique ==
  ASSUME NEW f, NEW S, IsFiniteSet(S), NEW T, NEW g, NEW h,
         Sums(g, f, S), Sums(h, f, T)
  PROVE  \A U \in SUBSET (S \cap T) : g[U] = h[U]
<1> DEFINE C == {U \in SUBSET (S \cap T) : g[U] # h[U]}
<1> SUFFICES ASSUME C # {} PROVE FALSE
  OBVIOUS
<1>1. PICK U \in C : \A V \in C : ~(V \subseteq U /\ V # U)
  <2>1. C \subseteq SUBSET S
    OBVIOUS
  <2> HIDE DEF C
  <2> QED
    BY <2>1, SmallestSubset
<1>2. U \in SUBSET S /\ U \in SUBSET T
  OBVIOUS
<1>3. /\ g[U] = IF U = {} THEN 0 ELSE f[Pick(U)] + g[U \ {Pick(U)}]
      /\ h[U] = IF U = {} THEN 0 ELSE f[Pick(U)] + h[U \ {Pick(U)}]
  BY <1>2, Zenon DEF Sums
<1>4. U # {}
  BY <1>3
<1>5. U \ {Pick(U)} # U /\ U \ {Pick(U)} \subseteq U
  BY <1>4, PickIn
<1>6. U \ {Pick(U)} \notin C
  BY <1>1, <1>5
<1>7. g[U \ {Pick(U)}] = h[U \ {Pick(U)}]
  BY <1>2, <1>5, <1>6
<1> QED
  BY <1>3, <1>7

\* Every function has its sums over the subsets of a finite set.
LEMMA SumsExist ==
  ASSUME NEW f, NEW S, IsFiniteSet(S)
  PROVE  \E g : Sums(g, f, S)
<1> DEFINE C == {T \in SUBSET S : ~\E g : Sums(g, f, T)}
           sum(T) == CHOOSE h : Sums(h, f, T)
<1> SUFFICES ASSUME C # {} PROVE FALSE
  <2>1. S \in SUBSET S
    OBVIOUS
  <2> QED
    BY <2>1
<1>1. PICK T \in C : \A V \in C : ~(V \subseteq T /\ V # T)
  <2>1. C \subseteq SUBSET S
    OBVIOUS
  <2> HIDE DEF C
  <2> QED
    BY <2>1, SmallestSubset
<1>2. \A V \in SUBSET T : V # T => Sums(sum(V), f, V)
  <2> SUFFICES ASSUME NEW V \in SUBSET T, V # T PROVE \E h : Sums(h, f, V)
    BY Zenon
  <2> QED
    BY <1>1
<1> DEFINE rest(s) == s \ {Pick(s)}
           g == [s \in SUBSET T |-> IF s = {} THEN 0
                                    ELSE f[Pick(s)] + sum(rest(s))[rest(s)]]
<1>3. ASSUME NEW s \in SUBSET T, s # {}
      PROVE  g[rest(s)] = sum(rest(s))[rest(s)]
  <2> DEFINE r == rest(s)
  <2>1. /\ r \in SUBSET T /\ r # T
    BY <1>3, PickIn
  <2> HIDE DEF sum, rest
  <2>2. g[r] = IF r = {} THEN 0 ELSE f[Pick(r)] + sum(rest(r))[rest(r)]
    BY <2>1
  <2>3. Sums(sum(r), f, r)
    BY <1>2, <2>1
  <2>4. r \in SUBSET r
    OBVIOUS
  <2>5. sum(r)[r] = IF r = {} THEN 0 ELSE f[Pick(r)] + sum(r)[r \ {Pick(r)}]
    BY <2>3, <2>4, Zenon DEF Sums
  <2>6. ASSUME r # {}
        PROVE  sum(r)[rest(r)] = sum(rest(r))[rest(r)]
    <3>1. rest(r) \in SUBSET T /\ rest(r) # T /\ rest(r) \subseteq r
      BY <2>1, <2>6, PickIn DEF rest
    <3>2. Sums(sum(rest(r)), f, rest(r))
      BY <1>2, <3>1
    <3>3. IsFiniteSet(r)
      BY <2>1, FS_Subset
    <3>4. rest(r) \in SUBSET (r \cap rest(r))
      BY <3>1
    <3> HIDE DEF r
    <3> QED
      BY <2>3, <3>2, <3>3, <3>4, SumsUnique
  <2> QED
    BY <2>2, <2>5, <2>6 DEF rest
<1>4. Sums(g, f, T)
  <2>1. g = [s \in SUBSET T |-> IF s = {} THEN 0
                                ELSE f[Pick(s)] + g[rest(s)]]
    <3> HIDE DEF sum, rest
    <3>1. \A s \in SUBSET T : s # {} => g[rest(s)] = sum(rest(s))[rest(s)]
      BY <1>3
    <3>2. \A s \in SUBSET T : g[s] = IF s = {} THEN 0
                                ELSE f[Pick(s)] + sum(rest(s))[rest(s)]
      OBVIOUS
    <3>3. g = [s \in SUBSET T |-> g[s]]
      OBVIOUS
    <3> HIDE DEF g
    <3>4. \A s \in SUBSET T : g[s] = IF s = {} THEN 0
                                ELSE f[Pick(s)] + g[rest(s)]
      BY <3>1, <3>2
    <3> QED
      BY <3>3, <3>4, Zenon
  <2> QED
    BY <2>1, Zenon DEF Sums
<1> QED
  BY <1>1, <1>4

LEMMA SumIsSums ==
  ASSUME NEW f, NEW S, IsFiniteSet(S)
  PROVE  \E g : Sums(g, f, S) /\ SumFunctionOnSet(f, S) = g[S]
<1> DEFINE sum == CHOOSE g : Sums(g, f, S)
<1>1. Sums(sum, f, S)
  BY SumsExist, Zenon
<1>2. SumFunctionOnSet(f, S) = sum[S]
  BY DEF SumFunctionOnSet, FoldFunctionOnSet, MapThenFoldSet, Sums, Pick
<1> QED
  BY <1>1, <1>2, Zenon

LEMMA SumEmpty == \A f : SumFunctionOnSet(f, {}) = 0
<1> SUFFICES ASSUME NEW f PROVE SumFunctionOnSet(f, {}) = 0
  OBVIOUS
<1>1. PICK g : Sums(g, f, {}) /\ SumFunctionOnSet(f, {}) = g[{}]
  BY SumIsSums, FS_EmptySet
<1>2. {} \in SUBSET {}
  OBVIOUS
<1> QED
  BY <1>1, <1>2 DEF Sums

LEMMA SumUnfold ==
  ASSUME NEW f, NEW S, IsFiniteSet(S), S # {}
  PROVE  SumFunctionOnSet(f, S) =
           f[Pick(S)] + SumFunctionOnSet(f, S \ {Pick(S)})
<1> DEFINE T == S \ {Pick(S)}
<1>1. IsFiniteSet(T) /\ T \subseteq S
  BY FS_RemoveElement
<1>2. PICK g : Sums(g, f, S) /\ SumFunctionOnSet(f, S) = g[S]
  BY SumIsSums
<1>3. PICK h : Sums(h, f, T) /\ SumFunctionOnSet(f, T) = h[T]
  BY <1>1, SumIsSums
<1>4. T \in SUBSET (S \cap T) /\ S \in SUBSET S
  BY <1>1
<1>5. g[T] = h[T]
  BY <1>2, <1>3, <1>4, SumsUnique
<1>6. g[S] = f[Pick(S)] + g[S \ {Pick(S)}]
  BY <1>2, <1>4, Zenon DEF Sums
<1> QED
  BY <1>2, <1>3, <1>5, <1>6

\* A sum of natural numbers is one.
LEMMA SumType ==
  ASSUME NEW S, IsFiniteSet(S), NEW f, \A x \in S : f[x] \in Nat
  PROVE  \A T \in SUBSET S : SumFunctionOnSet(f, T) \in Nat
<1> DEFINE C == {T \in SUBSET S : SumFunctionOnSet(f, T) \notin Nat}
<1> SUFFICES ASSUME C # {} PROVE FALSE
  OBVIOUS
<1>1. PICK T \in C : \A V \in C : ~(V \subseteq T /\ V # T)
  <2>1. C \subseteq SUBSET S
    OBVIOUS
  <2> HIDE DEF C
  <2> QED
    BY <2>1, SmallestSubset
<1>2. T # {}
  BY SumEmpty
<1>3. Pick(T) \in T /\ IsFiniteSet(T)
  BY <1>2, PickIn, FS_Subset
<1>4. SumFunctionOnSet(f, T \ {Pick(T)}) \in Nat
  BY <1>1, <1>3
<1> QED
  BY <1>2, <1>3, <1>4, SumUnfold

\* Any element can be taken out first.
LEMMA SumExtract ==
  ASSUME NEW S, IsFiniteSet(S), NEW f, \A x \in S : f[x] \in Nat
  PROVE  \A T \in SUBSET S, x \in S : x \in T =>
           SumFunctionOnSet(f, T) = f[x] + SumFunctionOnSet(f, T \ {x})
<1> DEFINE Sum(T) == SumFunctionOnSet(f, T)
           C == {T \in SUBSET S : \E x \in T : Sum(T) # f[x] + Sum(T \ {x})}
<1> SUFFICES ASSUME C # {} PROVE FALSE
  BY Zenon
<1>1. PICK T \in C : \A V \in C : ~(V \subseteq T /\ V # T)
  <2>1. C \subseteq SUBSET S
    OBVIOUS
  <2> HIDE DEF C
  <2> QED
    BY <2>1, SmallestSubset
<1>2. PICK x \in T : Sum(T) # f[x] + Sum(T \ {x})
  OBVIOUS
<1> DEFINE p == Pick(T)
<1>3. /\ p \in T /\ T \subseteq S
      /\ Sum(T) = f[p] + Sum(T \ {p})
      /\ \A V \in SUBSET S : Sum(V) \in Nat
      /\ f[p] \in Nat /\ f[x] \in Nat
  BY PickIn, FS_Subset, SumUnfold, SumType
<1> HIDE DEF p, Sum
<1>4. p # x
  BY <1>2, <1>3
<1>5. T \ {p} \notin C /\ T \ {x} \notin C
  BY <1>1, <1>3
<1>6. Sum(T \ {p}) = f[x] + Sum((T \ {p}) \ {x})
  BY <1>3, <1>4, <1>5
<1>7. Sum(T \ {x}) = f[p] + Sum((T \ {x}) \ {p})
  BY <1>3, <1>4, <1>5
<1>8. PICK both : both = Sum((T \ {x}) \ {p})
  OBVIOUS
<1>9. Sum((T \ {p}) \ {x}) = both /\ both \in Nat
  <2>1. (T \ {p}) \ {x} = (T \ {x}) \ {p}
    OBVIOUS
  <2>2. (T \ {x}) \ {p} \in SUBSET S
    BY <1>3
  <2> QED
    BY <1>3, <1>8, <2>1, <2>2
<1>10. Sum(T) = f[p] + (f[x] + both) /\ Sum(T \ {x}) = f[p] + both
  BY <1>3, <1>6, <1>7, <1>8, <1>9
<1> QED
  BY <1>2, <1>3, <1>9, <1>10

\* A sum depends on the values summed alone.
LEMMA SumSame ==
  ASSUME NEW S, IsFiniteSet(S), NEW f, NEW h, \A x \in S : f[x] = h[x]
  PROVE  SumFunctionOnSet(f, S) = SumFunctionOnSet(h, S)
<1> DEFINE C == {T \in SUBSET S :
                   SumFunctionOnSet(f, T) # SumFunctionOnSet(h, T)}
<1> SUFFICES ASSUME C # {} PROVE FALSE
  OBVIOUS
<1>1. PICK T \in C : \A V \in C : ~(V \subseteq T /\ V # T)
  <2>1. C \subseteq SUBSET S
    OBVIOUS
  <2> HIDE DEF C
  <2> QED
    BY <2>1, SmallestSubset
<1>2. T # {}
  BY SumEmpty
<1>3. Pick(T) \in T /\ IsFiniteSet(T)
  BY <1>2, PickIn, FS_Subset
<1>4. T \ {Pick(T)} \notin C
  BY <1>1, <1>3
<1> QED
  BY <1>2, <1>3, <1>4, SumUnfold

\* One value changes: the rest of the sum stays.
LEMMA SumChanged ==
  ASSUME NEW S, IsFiniteSet(S), NEW x \in S, NEW f, NEW h,
         \A y \in S : f[y] \in Nat /\ h[y] \in Nat,
         \A y \in S \ {x} : f[y] = h[y]
  PROVE  \E rest \in Nat :
           /\ SumFunctionOnSet(f, S) = f[x] + rest
           /\ SumFunctionOnSet(h, S) = h[x] + rest
<1>1. S \in SUBSET S /\ S \ {x} \in SUBSET S /\ IsFiniteSet(S \ {x})
  BY FS_RemoveElement
<1>2. /\ SumFunctionOnSet(f, S) = f[x] + SumFunctionOnSet(f, S \ {x})
      /\ SumFunctionOnSet(h, S) = h[x] + SumFunctionOnSet(h, S \ {x})
  BY <1>1, SumExtract
<1>3. SumFunctionOnSet(f, S \ {x}) \in Nat
  BY <1>1, SumType
<1>4. SumFunctionOnSet(f, S \ {x}) = SumFunctionOnSet(h, S \ {x})
  BY <1>1, SumSame
<1> QED
  BY <1>2, <1>3, <1>4

-----------------------------------------------------------------------------
(* Money *)

\* A transfer moves money and makes none.
LEMMA MovedSum ==
  ASSUME balance \in [Address -> Nat],
         NEW from \in Address, NEW to \in Address, NEW value \in Nat,
         CanMove(from, to, value)
  PROVE  SumFunctionOnSet(Moved(from, to, value), Address)
           = SumFunctionOnSet(balance, Address)
<1>1. IsFiniteSet(Address)
  BY TokenAssumption
<1>2. CASE from = to
  <2>1. ASSUME NEW a \in Address
        PROVE  Moved(from, to, value)[a] = balance[a]
    BY <1>2 DEF CanMove, Moved
  <2>2. Moved(from, to, value) \in [Address -> Nat]
    BY MovedType
  <2> QED
    BY <1>1, <2>1, <2>2, SumSame
<1>3. CASE from # to
  <2> DEFINE paid == [balance EXCEPT ![from] = @ - value]
             moved == Moved(from, to, value)
  <2>1. /\ paid \in [Address -> Nat]
        /\ paid[from] = balance[from] - value
        /\ \A a \in Address : balance[a] \in Nat /\ paid[a] \in Nat
        /\ \A a \in Address \ {from} : balance[a] = paid[a]
    BY DEF CanMove
  <2>2. /\ moved \in [Address -> Nat]
        /\ moved[to] = paid[to] + value
        /\ \A a \in Address \ {to} : paid[a] = moved[a]
    BY <1>3, MovedType DEF Moved
  <2>a. \A a \in Address : moved[a] \in Nat
    BY <2>2
  <2> HIDE DEF paid, moved
  <2>3. PICK r \in Nat :
          /\ SumFunctionOnSet(balance, Address) = balance[from] + r
          /\ SumFunctionOnSet(paid, Address) = paid[from] + r
    BY <1>1, <2>1, SumChanged
  <2>4. PICK q \in Nat :
          /\ SumFunctionOnSet(paid, Address) = paid[to] + q
          /\ SumFunctionOnSet(moved, Address) = moved[to] + q
    BY <1>1, <2>1, <2>2, <2>a, SumChanged
  <2>5. /\ balance[from] \in Nat /\ value <= balance[from]
        /\ paid[to] \in Nat
    BY <2>1 DEF CanMove
  <2>6. SumFunctionOnSet(moved, Address) = SumFunctionOnSet(balance, Address)
    BY <2>1, <2>2, <2>3, <2>4, <2>5
  <2> QED
    BY <2>6 DEF moved
<1> QED
  BY <1>2, <1>3

\* _mint() adds to the supply what it adds to a balance.
LEMMA MintedSum ==
  ASSUME TokenTypeOK, NEW to \in Address, NEW value \in Nat, MintTo(to, value)
  PROVE  SumFunctionOnSet(balance', Address)
           = SumFunctionOnSet(balance, Address) + value
<1> DEFINE b == balance
           c == balance'
<1>1. /\ IsFiniteSet(Address)
      /\ b \in [Address -> Nat] /\ c \in [Address -> Nat]
      /\ c[to] = b[to] + value
      /\ \A a \in Address : b[a] \in Nat /\ c[a] \in Nat
      /\ \A a \in Address \ {to} : b[a] = c[a]
  BY TokenAssumption DEF TokenTypeOK, MintTo
<1> HIDE DEF b, c
<1>2. PICK r \in Nat : /\ SumFunctionOnSet(b, Address) = b[to] + r
                       /\ SumFunctionOnSet(c, Address) = c[to] + r
  BY <1>1, SumChanged
<1>3. b[to] \in Nat
  BY <1>1
<1>4. SumFunctionOnSet(c, Address) = SumFunctionOnSet(b, Address) + value
  BY <1>1, <1>2, <1>3
<1> QED
  BY <1>4 DEF b, c

\* The supply is what all balances come to, stated on the set of accounts.
Supplied == SumFunctionOnSet(balance, Address) = totalSupply

LEMMA SuppliedIsConserved == TokenTypeOK => (Supplied <=> SupplyConserved)
<1> SUFFICES ASSUME TokenTypeOK
             PROVE  SumFunctionOnSet(balance, Address) = SumFunction(balance)
  BY DEF Supplied, SupplyConserved
<1>1. DOMAIN balance = Address
  BY DEF TokenTypeOK
<1> QED
  BY <1>1 DEF SumFunction

LEMMA TransferSupplied ==
  ASSUME TokenTypeOK, Supplied, NEW from \in Address, NEW to \in Address,
         NEW value \in Nat, CanMove(from, to, value),
         balance' = Moved(from, to, value), totalSupply' = totalSupply
  PROVE  Supplied'
<1>1. SumFunctionOnSet(Moved(from, to, value), Address)
        = SumFunctionOnSet(balance, Address)
  BY MovedSum DEF TokenTypeOK
<1> QED
  BY <1>1 DEF Supplied

LEMMA SupplyStep ==
  ASSUME EscrowInv, Supplied, [Next]_vars
  PROVE  Supplied'
<1>1. /\ Eoa \subseteq Address /\ Recipients \subseteq Address
      /\ Amount \subseteq Nat /\ FaucetAmount \in Nat /\ Escrow \in Address
      /\ TokenTypeOK /\ EscrowTypeOK
  BY TokenAssumption, EscrowAssumption DEF Amount, EscrowInv, TypeOK
<1>2. ASSUME UNCHANGED <<balance, totalSupply>>
      PROVE  Supplied'
  BY <1>2 DEF Supplied
<1>3. ASSUME NEW to \in Address, NEW value \in Nat, MintTo(to, value)
      PROVE  Supplied'
  BY <1>1, <1>3, MintedSum DEF Supplied, MintTo
<1>4. CASE LifecycleNext
  <2>1. PICK sender \in Eoa, id \in AwardId :
          \/ \E consumer \in Address, amount \in Amount :
               CreateContract(sender, id, consumer, amount)
          \/ \E producer \in Address : RecordAward(sender, id, producer)
          \/ \E h \in Hash : ConfirmDelivery(sender, id, h)
          \/ SettlePayment(sender, id)
          \/ CancelContract(sender, id)
    BY <1>4, LifecycleCases
  <2>2. ASSUME NEW consumer \in Address, NEW amount \in Amount,
               CreateContract(sender, id, consumer, amount)
        PROVE  Supplied'
    BY <1>1, <2>2, TransferSupplied DEF CreateContract, TransferFrom
  <2>3. CASE \/ \E producer \in Address : RecordAward(sender, id, producer)
             \/ \E h \in Hash : ConfirmDelivery(sender, id, h)
    BY <1>2, <2>3 DEF RecordAward, ConfirmDelivery, tokenVars
  <2>4. CASE SettlePayment(sender, id) \/ CancelContract(sender, id)
    <3>1. /\ contracts[id].producer \in Address
          /\ contracts[id].consumer \in Address
          /\ contracts[id].amountUsdc \in Nat
      BY <1>1, AwardType
    <3> QED
      BY <1>1, <2>4, <3>1, TransferSupplied
         DEF SettlePayment, CancelContract, Transfer
  <2> QED
    BY <2>1, <2>2, <2>3, <2>4
<1>5. CASE AdminNext
  BY <1>2, <1>5
     DEF AdminNext, SetBroker, TransferOwnership, RenounceOwnership, tokenVars
<1>6. CASE TokenNext
  <2>1. PICK sender \in Eoa :
          \/ Faucet(sender)
          \/ RenounceTokenOwnership(sender)
          \/ \E other \in Eoa : TransferTokenOwnership(sender, other)
          \/ \E value \in Amount :
               \/ \E to \in Recipients : Transfer(sender, to, value)
               \/ \E to \in Recipients : Mint(sender, to, value)
               \/ \E spender \in Spenders : Approve(sender, spender, value)
               \/ \E from \in Address, to \in Recipients :
                    TransferFrom(sender, from, to, value)
    BY <1>6 DEF TokenNext
  <2>2. CASE \/ Faucet(sender)
             \/ \E value \in Amount, to \in Recipients : Mint(sender, to, value)
    BY <1>1, <1>3, <2>2 DEF Faucet, Mint
  <2>3. CASE \/ RenounceTokenOwnership(sender)
             \/ \E other \in Eoa : TransferTokenOwnership(sender, other)
             \/ \E value \in Amount, spender \in Spenders :
                  Approve(sender, spender, value)
    BY <1>2, <2>3
       DEF RenounceTokenOwnership, TransferTokenOwnership, Approve
  <2>4. CASE \E value \in Amount, to \in Recipients :
               \/ Transfer(sender, to, value)
               \/ \E from \in Address : TransferFrom(sender, from, to, value)
    BY <1>1, <2>4, TransferSupplied DEF Transfer, TransferFrom
  <2> QED
    BY <2>1, <2>2, <2>3, <2>4
<1>7. CASE UNCHANGED vars
  BY <1>2, <1>7 DEF vars, tokenVars
<1> QED
  BY <1>4, <1>5, <1>6, <1>7 DEF Next

\* Tokens are made by mint() and faucet() alone and never destroyed, for any
\* number of accounts: no balance can leave uint256 while the supply does not.
THEOREM SupplyAlwaysConserved == Spec => []SupplyConserved
<1>1. Init => Supplied
  <2> SUFFICES ASSUME TokenInit(Deployer) PROVE Supplied
    BY DEF Init
  <2>1. \A a \in Address : balance[a] = 0
    BY DEF TokenInit
  <2> DEFINE b == balance
             C == {T \in SUBSET Address : SumFunctionOnSet(b, T) # 0}
  <2>2. SumFunctionOnSet(b, Address) = 0
    <3>1. SUFFICES ASSUME C # {} PROVE FALSE
      <4>1. Address \in SUBSET Address
        OBVIOUS
      <4> QED
        BY <3>1, <4>1
    <3>2. PICK T \in C : \A V \in C : ~(V \subseteq T /\ V # T)
      <4>1. C \subseteq SUBSET Address /\ IsFiniteSet(Address)
        BY TokenAssumption
      <4> HIDE DEF C
      <4> QED
        BY <3>1, <4>1, SmallestSubset
    <3>3. T # {}
      BY SumEmpty
    <3>4. Pick(T) \in T /\ IsFiniteSet(T)
      BY <3>3, PickIn, FS_Subset, TokenAssumption
    <3>5. SumFunctionOnSet(b, T \ {Pick(T)}) = 0
      BY <3>2, <3>4
    <3>6. SumFunctionOnSet(b, T) = b[Pick(T)] + 0
      BY <3>3, <3>4, <3>5, SumUnfold
    <3> QED
      BY <2>1, <3>4, <3>6
  <2> QED
    BY <2>2 DEF Supplied, TokenInit
<1>2. EscrowInv => TokenTypeOK
  BY DEF EscrowInv, TypeOK
<1> QED
  BY InitEscrowInv, NextEscrowInv, SupplyStep, SuppliedIsConserved,
     <1>1, <1>2, PTL DEF Spec

-----------------------------------------------------------------------------
(* Solvency *)

\* What an award adds to what the escrow owes.
Owed(id) == IF Open(id) THEN contracts[id].amountUsdc ELSE 0

\* A call that writes one award changes what is owed by that award's part.
LEMMA LiabilityWritten ==
  ASSUME EscrowTypeOK, EscrowTypeOK', NEW id \in AwardId,
         \A other \in AwardId \ {id} : contracts'[other] = contracts[other]
  PROVE  \E rest \in Nat : /\ Liability = Owed(id) + rest
                           /\ Liability' = Owed(id)' + rest
<1> DEFINE f == [a \in AwardId |-> contracts[a].amountUsdc]
           h == [a \in AwardId |-> contracts'[a].amountUsdc]
           S == {a \in AwardId : Open(a)}
           T == {a \in AwardId : Open(a)'}
           R == S \ {id}
<1>1. /\ Liability = SumFunctionOnSet(f, S)
      /\ Liability' = SumFunctionOnSet(h, T)
  BY DEF Liability
<1>2. /\ \A a \in AwardId : f[a] \in Nat /\ h[a] \in Nat
      /\ \A a \in AwardId \ {id} : f[a] = h[a]
      /\ IsFiniteSet(AwardId)
  BY AwardType, EscrowAssumption, TokenAssumption
     DEF EscrowTypeOK, ProcurementContract, Amount
<1>3. T \ {id} = R /\ R \subseteq S /\ S \in SUBSET AwardId /\ T \in SUBSET AwardId
  BY DEF Open, Exists, Finalised
<1>4. /\ Owed(id) = IF id \in S THEN f[id] ELSE 0
      /\ Owed(id)' = IF id \in T THEN h[id] ELSE 0
  BY DEF Owed
<1> HIDE DEF f, h, T
<1>5. /\ R \in SUBSET AwardId /\ IsFiniteSet(R)
      /\ \A a \in R : f[a] = h[a]
  BY <1>2, <1>3, FS_Subset
<1> HIDE DEF S, R
<1>6. SumFunctionOnSet(f, R) = SumFunctionOnSet(h, R)
  BY <1>5, SumSame
<1>7. SumFunctionOnSet(f, R) \in Nat
  BY <1>2, <1>5, SumType
<1>8. SumFunctionOnSet(f, S) =
        (IF id \in S THEN f[id] ELSE 0) + SumFunctionOnSet(f, R)
  <2>1. CASE id \in S
    BY <1>2, <1>3, <2>1, SumExtract DEF R
  <2>2. CASE id \notin S
    <3>1. R = S
      BY <2>2 DEF R
    <3> QED
      BY <1>7, <2>2, <3>1
  <2> QED
    BY <2>1, <2>2
<1>9. SumFunctionOnSet(h, T) =
        (IF id \in T THEN h[id] ELSE 0) + SumFunctionOnSet(h, R)
  <2>1. CASE id \in T
    BY <1>2, <1>3, <2>1, SumExtract
  <2>2. CASE id \notin T
    <3>1. R = T
      BY <1>3, <2>2
    <3> QED
      BY <1>6, <1>7, <2>2, <3>1
  <2> QED
    BY <2>1, <2>2
<1> QED
  BY <1>1, <1>4, <1>6, <1>7, <1>8, <1>9

\* While nothing is written, what is owed stays, and it may only be more that
\* is there to pay it.
LEMMA SolventUnwritten ==
  ASSUME EscrowInv, Solvent, contracts' = contracts,
         balance' \in [Address -> Nat], balance'[Escrow] >= balance[Escrow]
  PROVE  Solvent'
<1>1. Liability' = Liability
  BY DEF Liability, Open, Exists, Finalised
<1>2. /\ balance[Escrow] \in Nat /\ balance'[Escrow] \in Nat
  BY EscrowAssumption DEF EscrowInv, TypeOK, TokenTypeOK
<1>3. Liability \in Nat
  <2> DEFINE f == [a \in AwardId |-> contracts[a].amountUsdc]
             S == {a \in AwardId : Open(a)}
  <2>1. /\ \A a \in AwardId : f[a] \in Nat
        /\ IsFiniteSet(AwardId) /\ S \in SUBSET AwardId
    BY AwardType, EscrowAssumption DEF EscrowInv, TypeOK
  <2> HIDE DEF f, S
  <2>2. SumFunctionOnSet(f, S) \in Nat
    BY <2>1, SumType
  <2> QED
    BY <2>2 DEF f, S, Liability
<1> QED
  BY <1>1, <1>2, <1>3 DEF Solvent

LEMMA SolventLifecycle ==
  ASSUME EscrowInv, EscrowInv', Solvent, LifecycleNext
  PROVE  Solvent'
<1>1. PICK sender \in Eoa, id \in AwardId :
        \/ \E consumer \in Address, amount \in Amount :
             CreateContract(sender, id, consumer, amount)
        \/ \E producer \in Address : RecordAward(sender, id, producer)
        \/ \E h \in Hash : ConfirmDelivery(sender, id, h)
        \/ SettlePayment(sender, id)
        \/ CancelContract(sender, id)
  BY LifecycleCases
<1>2. /\ TokenTypeOK /\ EscrowTypeOK /\ EscrowTypeOK' /\ TokenTypeOK'
      /\ contracts \in [AwardId -> ProcurementContract]
      /\ contracts' \in [AwardId -> ProcurementContract]
      /\ Escrow \in Address
  BY EscrowAssumption DEF EscrowInv, TypeOK, EscrowTypeOK
<1>3. /\ balance \in [Address -> Nat] /\ balance' \in [Address -> Nat]
      /\ balance[Escrow] \in Nat /\ balance'[Escrow] \in Nat
      /\ contracts[id].amountUsdc \in Nat
      /\ contracts[id].consumer \in Address
      /\ contracts[id].producer \in Address
  BY <1>2, AwardType DEF TokenTypeOK
<1>4. \A other \in AwardId \ {id} : contracts'[other] = contracts[other]
  BY <1>1, <1>2 DEF CreateContract, RecordAward, ConfirmDelivery,
     SettlePayment, CancelContract
<1>5. PICK rest \in Nat : /\ Liability = Owed(id) + rest
                          /\ Liability' = Owed(id)' + rest
  BY <1>2, <1>4, LiabilityWritten
<1>6. SUFFICES \E gain \in Int :
                 /\ Owed(id)' = Owed(id) + gain
                 /\ balance'[Escrow] >= balance[Escrow] + gain
  <2>1. Owed(id) \in Nat
    BY <1>3 DEF Owed
  <2> QED
    BY <1>3, <1>5, <1>6, <2>1 DEF Solvent
<1>7. ASSUME NEW consumer \in Address, NEW amount \in Amount,
             CreateContract(sender, id, consumer, amount)
      PROVE  /\ Owed(id)' = Owed(id) + amount /\ amount \in Int
             /\ balance'[Escrow] >= balance[Escrow] + amount
  <2>1. amount \in Nat
    BY TokenAssumption DEF Amount
  <2>2. Owed(id) = 0
    BY <1>7 DEF CreateContract, CanCreate, Owed, Open
  <2>3. contracts'[id] = [NoContract EXCEPT !.consumer = consumer,
                            !.amountUsdc = amount, !.createdAt = TRUE]
    BY <1>2, <1>7 DEF CreateContract
  <2>4. Owed(id)' = amount
    BY <2>3 DEF Owed, Open, Exists, Finalised, NoContract
  <2>5. consumer # Escrow
    BY <1>2, <1>7, <2>1 DEF CreateContract, CanCreate, CanSpend, EscrowInv,
       EscrowApprovesNobody
  <2>6. balance'[Escrow] = balance[Escrow] + amount
    BY <1>2, <1>3, <1>7, <2>5 DEF CreateContract, TransferFrom, Moved
  <2> QED
    BY <1>3, <2>1, <2>2, <2>4, <2>6
<1>8. CASE \/ \E producer \in Address : RecordAward(sender, id, producer)
           \/ \E h \in Hash : ConfirmDelivery(sender, id, h)
  <2>1. balance' = balance
    BY <1>8 DEF RecordAward, ConfirmDelivery, tokenVars
  <2>2. /\ contracts'[id].createdAt = contracts[id].createdAt
        /\ contracts'[id].amountUsdc = contracts[id].amountUsdc
        /\ contracts[id].status \notin {"SETTLED", "CANCELLED"}
        /\ contracts'[id].status \notin {"SETTLED", "CANCELLED"}
    <3>1. CASE \E producer \in Address : RecordAward(sender, id, producer)
      BY <1>2, <3>1 DEF RecordAward, CanRecordAward, ProcurementContract
    <3>2. CASE \E h \in Hash : ConfirmDelivery(sender, id, h)
      BY <1>2, <3>2 DEF ConfirmDelivery, CanConfirmDelivery,
         ProcurementContract
    <3> QED
      BY <1>8, <3>1, <3>2
  <2>3. Owed(id)' = Owed(id) + 0 /\ balance'[Escrow] >= balance[Escrow] + 0
    BY <1>3, <2>1, <2>2 DEF Owed, Open, Exists, Finalised
  <2> QED
    BY <2>3
<1>9. CASE SettlePayment(sender, id) \/ CancelContract(sender, id)
  <2>1. PaysOut(id)
    BY <1>9, PayoutCalls
  <2>2. Owed(id) = contracts[id].amountUsdc
    BY <2>1 DEF PaysOut, Owed
  <2>3. Owed(id)' = 0
    BY <2>1 DEF PaysOut, Owed, Open, Finalised
  <2>4. PICK to \in Address :
          balance' = Moved(Escrow, to, contracts[id].amountUsdc)
    BY <1>3, <2>1 DEF PaysOut, Beneficiary
  <2>5. balance'[Escrow] >= balance[Escrow] + (-contracts[id].amountUsdc)
    <3>1. CASE to = Escrow
      BY <1>2, <1>3, <2>4, <3>1 DEF Moved
    <3>2. CASE to # Escrow
      BY <1>2, <1>3, <2>4, <3>2 DEF Moved
    <3> QED
      BY <3>1, <3>2
  <2>6. /\ -contracts[id].amountUsdc \in Int
        /\ Owed(id)' = Owed(id) + (-contracts[id].amountUsdc)
    BY <1>3, <2>2, <2>3
  <2> QED
    BY <2>5, <2>6
<1> QED
  BY <1>1, <1>7, <1>8, <1>9

LEMMA SolventStep ==
  ASSUME EscrowInv, Solvent, [Next]_vars
  PROVE  Solvent'
<1>1. EscrowInv' /\ balance' \in [Address -> Nat]
  BY NextEscrowInv DEF EscrowInv, TypeOK, TokenTypeOK
<1>2. balance[Escrow] \in Nat
  BY EscrowAssumption DEF EscrowInv, TypeOK, TokenTypeOK
<1>3. CASE LifecycleNext
  BY <1>1, <1>3, SolventLifecycle
<1>4. CASE AdminNext
  BY <1>1, <1>2, <1>4, AdminInv, SolventUnwritten
<1>5. CASE TokenNext /\ UNCHANGED escrowVars
  BY <1>1, <1>5, TokenNextInv, SolventUnwritten DEF escrowVars
<1>6. CASE UNCHANGED vars
  BY <1>1, <1>2, <1>6, SolventUnwritten DEF vars, tokenVars, escrowVars
<1> QED
  BY <1>3, <1>4, <1>5, <1>6 DEF Next

LEMMA InitSolvent == Init => Solvent
<1> SUFFICES ASSUME TokenInit(Deployer), contracts = [id \in AwardId |-> NoContract]
             PROVE  Solvent
  BY DEF Init, EscrowInit
<1>1. {id \in AwardId : Open(id)} = {}
  BY DEF Open, Exists, NoContract
<1>2. Liability = 0
  BY <1>1, SumEmpty DEF Liability
<1>3. balance[Escrow] = 0
  BY EscrowAssumption DEF TokenInit
<1> QED
  BY <1>2, <1>3 DEF Solvent

\* The contract holds at least what it owes on the awards that are open,
\* whatever is sent, approved, minted, re-owned or settled around it.
THEOREM EscrowAlwaysSolvent == Spec => []Solvent
BY InitEscrowInv, NextEscrowInv, InitSolvent, SolventStep, PTL DEF Spec

\* The escrow holds enough for each award that is open.
LEMMA OpenPayable ==
  ASSUME EscrowInv, Solvent, NEW id \in AwardId, Open(id)
  PROVE  contracts[id].amountUsdc <= balance[Escrow]
<1>1. balance[Escrow] \in Nat
  BY EscrowAssumption DEF EscrowInv, TypeOK, TokenTypeOK
<1> DEFINE f == [a \in AwardId |-> contracts[a].amountUsdc]
           S == {a \in AwardId : Open(a)}
<1>2. /\ \A a \in AwardId : f[a] \in Nat
      /\ IsFiniteSet(AwardId) /\ S \in SUBSET AwardId
      /\ S \ {id} \in SUBSET AwardId /\ id \in S
      /\ f[id] = contracts[id].amountUsdc
  BY AwardType, EscrowAssumption DEF EscrowInv, TypeOK
<1>3. SumFunctionOnSet(f, S) <= balance[Escrow]
  BY DEF Solvent, Liability
<1> HIDE DEF f, S
<1>4. /\ SumFunctionOnSet(f, S) = f[id] + SumFunctionOnSet(f, S \ {id})
      /\ SumFunctionOnSet(f, S \ {id}) \in Nat
  BY <1>2, SumExtract, SumType
<1> QED
  BY <1>1, <1>2, <1>3, <1>4

\* cancelContract() can refund every open award at any time: no other award,
\* transfer or change of broker makes the refund of one unpayable.
THEOREM OpenAwardsRefundable == Spec => []Refundable
<1>1. EscrowInv /\ Solvent => Refundable
  <2> SUFFICES ASSUME EscrowInv, Solvent, NEW id \in AwardId, Open(id)
               PROVE  CanMove(Escrow, contracts[id].consumer,
                              contracts[id].amountUsdc)
    BY DEF Refundable
  <2>1. Escrow # Zero
    BY EscrowAssumption
  <2>2. contracts[id].consumer # Zero
    BY DEF EscrowInv, RecordCoherent, Open, Exists
  <2> QED
    BY <2>1, <2>2, OpenPayable DEF CanMove
<1> QED
  BY InitEscrowInv, NextEscrowInv, InitSolvent, SolventStep, <1>1, PTL DEF Spec
=============================================================================
