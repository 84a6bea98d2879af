----------------------------- MODULE MCMediator -----------------------------
(* The consumer's ceiling and walk-away price, the producer's floor.         *)
EXTENDS Mediator, TLC

CONSTANTS Cascade, AeroPlan, Ceiling, WalkAway, Floor

MCSecretsOf == (Cascade :> {Ceiling, WalkAway}) @@ (AeroPlan :> {Floor})
=============================================================================
