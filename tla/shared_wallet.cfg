SPECIFICATION FairDeploySpec
CONSTANTS
  script = script
  demo1 = demo1
  demo2 = demo2
  deployer = deployer
  ownWallet = ownWallet
  Sender <- MCSender
  Account <- MCAccount
  Demo <- MCDemo
  Script = script
  Deployer = deployer
  OwnWallet = ownWallet
  Configs <- MCConfigs
  MaxCalls = 10
  MaxDeploys = 2
INVARIANTS
  NeverGapped
  DeployedBeforeUse
PROPERTIES
  ImplementsCallLog
  CallsEnd
CHECK_DEADLOCK FALSE
