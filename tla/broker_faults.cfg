SPECIFICATION FairSpec
CONSTANTS
  brokerWallet = brokerWallet
  escrowAddress = escrowAddress
  zeroAddress = zeroAddress
  wallet1 = wallet1
  wallet2 = wallet2
  Offers <- TwoOffers
  WalletOf <- MCWalletOf
  Criteria <- MCCriteria
  Wallet = brokerWallet
  Escrow = escrowAddress
  Zero = zeroAddress
  Funds = 4
  Cycles = 3
  MAX_RE_EVALS = 2
  RaisingModes = {TRUE, FALSE}
  Faults = {"raise", "timeout"}
  MayReject = {"p1", "p2"}
  MayFail = {"p1", "p2"}
INVARIANTS
  TypeOK
  SettlementBacked
  PaidOnce
  Books
  StrandedExplained
  NoReaward
  TrailTruthful
  SettlementOnRecord
PROPERTIES
  ImplementsContractNet
  CycleEndsUnlessFailed
