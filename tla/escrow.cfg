SPECIFICATION Spec
CONSTANTS
  deployerWallet = deployerWallet
  consumerWallet = consumerWallet
  producerWallet = producerWallet
  escrowAddress = escrowAddress
  zeroAddress = zeroAddress
  award1 = award1
  award2 = award2
  evidence = evidence
  noEvidence = noEvidence
  Address <- MCAddress
  Zero = zeroAddress
  Eoa <- MCEoa
  Spenders <- MCSpenders
  Recipients <- MCRecipients
  MaxUint = 3
  FaucetAmount = 1
  Escrow = escrowAddress
  AwardId <- MCAwardId
  Consumers <- MCConsumers
  Payees <- MCPayees
  Brokers <- MCBrokers
  Hash <- MCHash
  ZeroHash = noEvidence
  Deployer = deployerWallet
SYMMETRY Symmetry
INVARIANTS
  TypeOK
  RecordCoherent
  EscrowApprovesNobody
  Solvent
  Refundable
  SupplyConserved
PROPERTIES
  Lifecycle
  EscrowOutflow
