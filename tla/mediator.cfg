SPECIFICATION Spec
CONSTANTS
  Cascade = Cascade
  AeroPlan = AeroPlan
  Ceiling = Ceiling
  WalkAway = WalkAway
  Floor = Floor
  Consumer = Cascade
  Producer = AeroPlan
  SecretsOf <- MCSecretsOf
INVARIANTS
  TypeOK
  LeakOnlyByProposal
  SynthesisInformed
  QuestionsAnswered
CHECK_DEADLOCK FALSE
