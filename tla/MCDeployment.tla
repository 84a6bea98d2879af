---------------------------- MODULE MCDeployment ----------------------------
(* A deploy script and two demos.  The script is each of the three in every  *)
(* way .env.tempo_testnet can be filled in that lets it start.               *)
EXTENDS Deployment

CONSTANTS script, demo1, demo2, deployer, ownWallet

MCSender == {script, demo1, demo2}
MCDemo == {demo1, demo2}
MCAccount == {deployer, ownWallet}

Config(s, keys) ==
  [script : {s}, brokerKey : keys, consumerKey : BOOLEAN]

MCConfigs ==
  { [script |-> "deploy_local.js", brokerKey |-> "own", consumerKey |-> FALSE] }
    \cup Config("deploy_tempo_testnet.js", {"own", "unset", "placeholder"})
    \cup Config("deploy_tempo_testnet.sh", {"own", "unset"})
=============================================================================
