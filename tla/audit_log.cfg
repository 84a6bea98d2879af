SPECIFICATION Spec
CONSTANTS
  writer1 = writer1
  writer2 = writer2
  req1 = req1
  req2 = req2
  event1 = event1
  Writer <- MCWriter
  RequirementId <- MCRequirementId
  EventId <- MCEventId
  MaxEvents = 3
SYMMETRY Symmetry
INVARIANTS
  IndexExact
PROPERTIES
  AppendOnly
