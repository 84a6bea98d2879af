SPECIFICATION FairSpec
CONSTANTS
  Apis <- MCApis
  MaxAttempts = 2
  MaxAwards = 2
  MaxOrders = 5
INVARIANTS
  TypeOK
  StatusOfAward
  MissionInOwnProject
  EvidenceOfAward
  DuplicatesBounded
PROPERTIES
  AcceptReturns
  PollingEnds
