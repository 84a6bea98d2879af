SPECIFICATION FairSpec
CONSTANTS
  brokerWallet = brokerWallet
  escrowAddress = escrowAddress
  zeroAddress = zeroAddress
  wallet1 = wallet1
  wallet2 = wallet2
  Offers <- TwoOffers
  WalletOf <- MCWalletOf
  Criteria <- MCCriteria
  Wallet = brokerWallet
  Escrow = escrowAddress
  Zero = zeroAddress
  Funds = 4
  Cycles = 1
  MAX_RE_EVALS = 2
  RaisingModes = {TRUE}
  Faults = {}
  MayReject = {}
  MayFail = {"p1"}
PROPERTY
  EveryCycleEnds
