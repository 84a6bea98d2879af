--------------------------- MODULE MCBrokerGraph ---------------------------
(* Bounded instances of the procurement cycle: one or two producers, two    *)
(* requirements in a row, prices of one and two units.                       *)
EXTENDS BrokerGraph, TLC

CONSTANTS brokerWallet, escrowAddress, zeroAddress, wallet1, wallet2

\* The cheap producer has the weaker record, as AeroPlan has.
Cheap == [producer |-> "p1", price |-> 1, available |-> TRUE, performance |-> 88]
Dear  == [producer |-> "p2", price |-> 2, available |-> TRUE, performance |-> 92]

TwoOffers == <<Cheap, Dear>>
OneOffer == <<Cheap>>

MCWalletOf == ("p1" :> wallet1) @@ ("p2" :> wallet2)

MCCriteria == [price |-> 50, availability |-> 30, performance |-> 20]
=============================================================================
