---------------------------- MODULE MCAuditLog ----------------------------
(* A bounded instance of the audit log: the deployer and a second writer,    *)
(* two requirements, and one event identifier, so that identifiers repeat.   *)
EXTENDS AuditLog, TLC

CONSTANTS writer1, writer2, req1, req2, event1

MCWriter == {writer1, writer2}
MCRequirementId == {req1, req2}
MCEventId == {event1}
Symmetry == Permutations(MCWriter) \cup Permutations(MCRequirementId)
=============================================================================
