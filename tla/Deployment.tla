----------------------------- MODULE Deployment -----------------------------
(***************************************************************************)
(* From a deploy script to a running broker: scripts/deploy_local.js,      *)
(* deploy_tempo_testnet.js and deploy_tempo_testnet.sh put the contracts   *)
(* on the chain, authorise and fund the broker's wallet and write the      *)
(* addresses to an env file; demo.py reads that file and calls the         *)
(* contracts through ChainClient.  A script may fail between any two of    *)
(* its calls and be run again, while demos run, on accounts they share.    *)
(*                                                                         *)
(* The effect of a script's call on its contracts cannot fail once it is   *)
(* mined, so what stands on the chain is read off the calls mined.         *)
(***************************************************************************)
EXTENDS ChainClient

CONSTANTS
  Script,        \* the sender that runs the deploy script
  Demo,          \* the senders that run demo.py
  Deployer,      \* the account that pays for and owns the contracts
  OwnWallet,     \* a broker's account of its own
  Configs,       \* scripts, and what they find in .env.tempo_testnet
  MaxDeploys     \* how often the script is started; bounds the model

ASSUME DeploymentAssumption ==
  /\ Script \in Sender /\ Demo \subseteq Sender \ {Script}
  /\ {Deployer, OwnWallet} \subseteq Account
  /\ Configs \subseteq
       [script : {"deploy_local.js", "deploy_tempo_testnet.js",
                  "deploy_tempo_testnet.sh"},
        brokerKey : {"own", "unset", "placeholder"}, consumerKey : BOOLEAN]
  /\ MaxDeploys \in Nat

VARIABLES
  config,        \* the script in use, chosen in DeployInit
  deployment,    \* the run of the script, counted from 1
  done,          \* how many of its calls have returned
  purpose,       \* call -> the deployment it is for and what it does there
  env,           \* what the env file says
  loaded         \* demo -> what it read from the env file

deployVars == <<config, deployment, done, purpose, env, loaded>>
vars == <<clientVars, deployVars>>

NoEnv == [deployment |-> 0, wallet |-> Deployer, key |-> Deployer]

\* BROKER_KEY: KEYS[1], or BROKER_PRIVATE_KEY, which defaults to the
\* deployer's.  A placeholder is not a key: isValidKey() puts the deployer in
\* its place.
BrokerWallet == IF config.brokerKey = "own" THEN OwnWallet ELSE Deployer

Contracts == <<"MockUSDC", "AuditLog", "BlackRiverBroker">>

\* The calls of main() up to the funding, alike in the three scripts.
Preparation ==
  Contracts \o <<"authorise contract", "authorise wallet", "mint to wallet">>

ConsumerMint == IF config.consumerKey THEN <<"mint to consumer">> ELSE <<>>

LocalSteps == Preparation \o <<"approve">>
TempoSteps == Preparation \o ConsumerMint \o <<"approve">>
ShellSteps == Preparation \o <<"approve">> \o ConsumerMint

Steps == CASE config.script = "deploy_local.js" -> LocalSteps
           [] config.script = "deploy_tempo_testnet.js" -> TempoSteps
           [] config.script = "deploy_tempo_testnet.sh" -> ShellSteps

\* Everything is sent by the deployer but the approval.
Signer(what) == IF what = "approve" THEN BrokerWallet ELSE Deployer

\* new Wallet(BROKER_KEY) takes the placeholder after all, and throws.
CanSign(what) == what = "approve" => config.brokerKey # "placeholder"

-----------------------------------------------------------------------------
(* The script *)

\* The checks before the first call (artifacts, a deployer's key and balance)
\* end a run that has done nothing, which is no step.
StartScript ==
  /\ deployment < MaxDeploys
  /\ Start(Script)
  /\ deployment' = deployment + 1
  /\ done' = 0
  /\ UNCHANGED <<config, purpose, env, loaded>>

For(d, what) == purpose' = Append(purpose, [deployment |-> d, what |-> what])

\* send() of the two JavaScript files counts nonces; cast takes the node's.
ScriptCall ==
  /\ done < Len(Steps)
  /\ LET what == Steps[done + 1] IN
       /\ CanSign(what)
       /\ IF config.script = "deploy_tempo_testnet.sh"
          THEN BuildTransaction(Script, Signer(what))
          ELSE BuildCounted(Script, Signer(what))
       /\ For(deployment, what)
  /\ UNCHANGED <<config, deployment, done, env, loaded>>

ScriptReturns ==
  /\ Receipt(Script)
  /\ done' = done + 1
  /\ UNCHANGED <<config, deployment, purpose, env, loaded>>

\* send() goes out, throws or is cut off, and so is the script with it.
ScriptGoesOn ==
  /\ Sending(Script) \/ TimesOut(Script) \/ End(Script)
  /\ UNCHANGED deployVars

\* deploy_local.js writes the broker's key, the tempo scripts leave
\* DEPLOYER_PRIVATE_KEY as they found it.
Written ==
  [deployment |-> deployment, wallet |-> BrokerWallet,
   key |-> IF config.script = "deploy_local.js" THEN BrokerWallet
                                                ELSE Deployer]

\* Wrong on purpose: the file is written as soon as the addresses are known.
WriteEnvEarly ==
  /\ done >= Len(Contracts)
  /\ At(Script, "ready", "over")
  /\ env' = Written
  /\ UNCHANGED <<issued, call, nonces, returned, nodeVars, config, deployment,
                 done, purpose, loaded>>

WriteEnv ==
  /\ done = Len(Steps)
  /\ At(Script, "ready", "over")
  /\ env' = Written
  /\ UNCHANGED <<issued, call, nonces, returned, nodeVars, config, deployment,
                 done, purpose, loaded>>

-----------------------------------------------------------------------------
(* demo.py *)

\* load_dotenv() and ChainClient(); without addresses that raises.
StartDemo(c) ==
  /\ env # NoEnv
  /\ Start(c)
  /\ loaded' = [loaded EXCEPT ![c] = env]
  /\ UNCHANGED <<config, deployment, done, purpose, env>>

\* Any call of a cycle.  Signing with a key that is not the wallet's raises in
\* web3; pytempo would send it from the key's account with the nonce of the
\* wallet's, which in these scripts is always too low to be taken.
DemoCall(c) ==
  /\ loaded[c].key = loaded[c].wallet
  /\ BuildTransaction(c, loaded[c].wallet)
  /\ For(loaded[c].deployment, "cycle")
  /\ UNCHANGED <<config, deployment, done, env, loaded>>

DemoSends(c) == Sending(c) /\ UNCHANGED deployVars
DemoWaits(c) == Waiting(c) /\ UNCHANGED deployVars
DemoEnds(c) == End(c) /\ UNCHANGED deployVars

-----------------------------------------------------------------------------

DeployInit ==
  /\ ClientInit
  /\ config \in Configs
  /\ deployment = 0
  /\ done = 0
  /\ purpose = <<>>
  /\ env = NoEnv
  /\ loaded = [c \in Demo |-> NoEnv]

DeployNext ==
  \/ StartScript \/ ScriptCall \/ ScriptReturns \/ ScriptGoesOn \/ WriteEnv
  \/ \E c \in Demo :
       StartDemo(c) \/ DemoCall(c) \/ DemoSends(c) \/ DemoWaits(c) \/ DemoEnds(c)
  \/ NodeNext /\ UNCHANGED deployVars

DeploySpec == DeployInit /\ [][DeployNext]_vars

\* A demo's request to the node ends, and so does its wait for a receipt; no
\* transaction need be taken or mined, and a script may wait for ever.
FairDeploySpec ==
  /\ DeploySpec
  /\ \A c \in Demo : WF_vars(DemoSends(c)) /\ WF_vars(DemoWaits(c))

-----------------------------------------------------------------------------
(* Properties *)

\* The state of the scripts and demos, beside that of their transactions.
DeployTypeOK ==
  /\ ClientTypeOK
  /\ config \in Configs
  /\ deployment \in 0 .. MaxDeploys
  /\ done \in 0 .. Len(Steps)
  /\ Len(purpose) = Len(issued)
  /\ \A c \in Demo : loaded[c].deployment <= deployment

\* What a call of the broker relies on: both contracts, tokens to escrow, the
\* allowance to do so, and the right to write the log.
Needs == {"MockUSDC", "AuditLog", "BlackRiverBroker", "authorise wallet",
          "mint to wallet", "approve"}

\* No call of a cycle reaches a deployment that is not complete, whichever
\* runs of the script failed or overlapped with it, nor from another wallet
\* than the one whose tokens the escrow may pull there.
DeployedBeforeUse ==
  \A i \in DOMAIN mined :
    LET use == purpose[mined[i]]
        Made(what) ==
          {j \in 1 .. i - 1 : purpose[mined[j]] =
                                [deployment |-> use.deployment, what |-> what]}
    IN  use.what = "cycle" =>
          /\ \A need \in Needs : Made(need) # {}
          /\ \E j \in Made("approve") :
               issued[mined[j]].from = issued[mined[i]].from

\* A call of the broker ends, with a receipt or with an error, whatever
\* becomes of its transaction: replaced by another process's, dropped, or
\* never mined.
CallsEnd ==
  \A c \in Demo :
    (pc[c] \in {"built", "waiting"}) ~> (pc[c] \in {"ready", "over"})
=============================================================================
