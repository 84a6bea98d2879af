------------------------ MODULE MCBlackRiverBroker ------------------------
(* Bounded instances of the escrow contract: two key holders (the deployer  *)
(* who also runs the broker's wallet, as deploy_local.js sets it up, and a   *)
(* second consumer) and one producer wallet that sends no transactions.      *)
EXTENDS BlackRiverBroker, TLC

CONSTANTS deployerWallet, consumerWallet, producerWallet, escrowAddress,
          zeroAddress, award1, award2, evidence, noEvidence

MCAddress == {deployerWallet, consumerWallet, producerWallet, escrowAddress,
              zeroAddress}
MCEoa == {deployerWallet, consumerWallet}
MCSpenders == {escrowAddress}
MCRecipients == {escrowAddress}
MCAwardId == {award1, award2}
Symmetry == Permutations(MCAwardId)
\* The escrow itself may be named as the consumer; it cannot pay.
MCConsumers == {consumerWallet, escrowAddress}
\* A wallet, address(0) and the contract itself: recordAward() refuses none.
MCPayees == {producerWallet, zeroAddress, escrowAddress}
\* Either key holder; address(0), which nobody can call from, would only stop
\* the lifecycle.
MCBrokers == {deployerWallet, consumerWallet}
MCHash == {evidence, noEvidence}
=============================================================================
