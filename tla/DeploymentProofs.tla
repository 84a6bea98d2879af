-------------------------- MODULE DeploymentProofs --------------------------
(***************************************************************************)
(* Proofs about module Deployment, for any number of demos, runs of the    *)
(* script, calls and accounts, and any set of configurations.  The env     *)
(* file names a deployment only after every call of its script was mined,  *)
(* and what is mined stays mined: so a demo's calls, and those that are    *)
(* still in the mempool when it is long gone, meet a complete deployment.  *)
(***************************************************************************)
EXTENDS Deployment, ChainClientProofs, SequenceTheorems

What == Needs \cup {"authorise contract", "mint to consumer", "cycle"}
Purpose == [deployment : Nat, what : What]
Env == [deployment : Nat, wallet : Account, key : Account]

\* The step of the script has been mined for the deployment.
Done(d, i) ==
  \E k \in Executed :
    /\ purpose[k] = [deployment |-> d, what |-> Steps[i]]
    /\ issued[k].from = Signer(Steps[i])

Complete(d) == \A i \in 1 .. Len(Steps) : Done(d, i)

DeployShape ==
  /\ config \in Configs
  /\ deployment \in 0 .. MaxDeploys
  /\ done \in 0 .. Len(Steps)
  /\ purpose \in Seq(Purpose) /\ Len(purpose) = Len(issued)
  /\ env \in Env /\ env.deployment <= deployment
  /\ loaded \in [Demo -> Env]
  /\ \A c \in Demo : loaded[c].deployment <= deployment

\* The calls that returned are mined, and the call under way is the next.
ScriptInStep ==
  /\ \A i \in 1 .. done : Done(deployment, i)
  /\ UnderWay(Script) =>
       /\ done < Len(Steps)
       /\ purpose[call[Script]] =
            [deployment |-> deployment, what |-> Steps[done + 1]]
       /\ issued[call[Script]].from = Signer(Steps[done + 1])

\* What the env file says, or said when a demo read it.
Trusted(e) == e # NoEnv => Complete(e.deployment) /\ e.wallet = BrokerWallet

EnvTrusted ==
  /\ Trusted(env)
  /\ \A c \in Demo :
       Trusted(loaded[c]) /\ (pc[c] # "over" => loaded[c] # NoEnv)

\* A call of a cycle, wherever its transaction is.
CyclesBacked ==
  \A k \in Call : purpose[k].what = "cycle" =>
    Complete(purpose[k].deployment) /\ issued[k].from = BrokerWallet

DeployInv ==
  /\ ClientInv /\ DeployShape /\ ScriptInStep /\ EnvTrusted
  /\ CyclesBacked /\ DeployedBeforeUse

-----------------------------------------------------------------------------
(* The scripts *)

Has(t, what) == \E i \in 1 .. Len(t) : t[i] = what

LEMMA ThreeHas ==
  ASSUME NEW a, NEW b, NEW c
  PROVE  /\ Has(<<a, b, c>>, a)
         /\ Has(<<a, b, c>>, b)
         /\ Has(<<a, b, c>>, c)
<1>1. Len(<<a, b, c>>) = 3
  OBVIOUS
<1>2. /\ 1 \in 1 .. 3 /\ <<a, b, c>>[1] = a
      /\ 2 \in 1 .. 3 /\ <<a, b, c>>[2] = b
      /\ 3 \in 1 .. 3 /\ <<a, b, c>>[3] = c
  OBVIOUS
<1> QED
  BY <1>1, <1>2, Zenon DEF Has

LEMMA ConcatHas ==
  ASSUME NEW S, NEW t \in Seq(S), NEW u \in Seq(S)
  PROVE  /\ t \o u \in Seq(S)
         /\ \A what : Has(t, what) \/ Has(u, what) => Has(t \o u, what)
<1>1. /\ t \o u \in Seq(S) /\ Len(t \o u) = Len(t) + Len(u)
      /\ Len(t) \in Nat /\ Len(u) \in Nat
      /\ \A i \in 1 .. Len(t) + Len(u) :
           (t \o u)[i] = IF i <= Len(t) THEN t[i] ELSE u[i - Len(t)]
  BY ConcatProperties
<1>2. ASSUME NEW i \in 1 .. Len(t)
      PROVE  i \in 1 .. Len(t \o u) /\ (t \o u)[i] = t[i]
  BY <1>1
<1>3. ASSUME NEW i \in 1 .. Len(u)
      PROVE  i + Len(t) \in 1 .. Len(t \o u) /\ (t \o u)[i + Len(t)] = u[i]
  BY <1>1
<1> QED
  BY <1>1, <1>2, <1>3 DEF Has

\* Each script makes every call the broker needs, and none of a cycle.
LEMMA StepsMeetNeeds ==
  ASSUME config \in Configs
  PROVE  /\ Steps \in Seq(What \ {"cycle"})
         /\ Len(Steps) \in Nat
         /\ \A need \in Needs : Has(Steps, need)
<1> DEFINE S == What \ {"cycle"}
           approval == <<"approve">>
           granted == <<"authorise contract", "authorise wallet", "mint to wallet">>
<1>1. /\ config.script \in {"deploy_local.js", "deploy_tempo_testnet.js",
                            "deploy_tempo_testnet.sh"}
      /\ config.consumerKey \in BOOLEAN
  BY DeploymentAssumption
<1>2. Contracts \in Seq(S) /\ granted \in Seq(S) /\ approval \in Seq(S)
  BY DEF Contracts, What, Needs
<1>3. ConsumerMint \in Seq(S)
  <2>1. ConsumerMint = <<"mint to consumer">> \/ ConsumerMint = <<>>
    BY DEF ConsumerMint
  <2>2. <<"mint to consumer">> \in Seq(S) /\ <<>> \in Seq(S)
    BY DEF What, Needs
  <2> HIDE DEF S
  <2> QED
    BY <2>1, <2>2
<1>4. /\ Has(Contracts, "MockUSDC") /\ Has(Contracts, "AuditLog")
      /\ Has(Contracts, "BlackRiverBroker")
  BY ThreeHas DEF Contracts
<1>5. Has(granted, "authorise wallet") /\ Has(granted, "mint to wallet")
  BY ThreeHas
<1>6. Has(approval, "approve")
  BY DEF Has
<1> HIDE DEF S, approval, granted
<1>7. /\ Preparation \in Seq(S)
      /\ \A need \in Needs \ {"approve"} : Has(Preparation, need)
  <2>1. Preparation = Contracts \o granted
    BY DEF Preparation, granted
  <2> QED
    BY <1>2, <1>4, <1>5, <2>1, ConcatHas DEF Needs
<1>8. ASSUME NEW t \in Seq(S), NEW u \in Seq(S),
             \A need \in Needs \ {"approve"} : Has(t, need),
             Has(t, "approve") \/ Has(u, "approve")
      PROVE  t \o u \in Seq(S) /\ \A need \in Needs : Has(t \o u, need)
  BY <1>8, ConcatHas
<1>9. LocalSteps \in Seq(S) /\ \A need \in Needs : Has(LocalSteps, need)
  BY <1>2, <1>6, <1>7, <1>8 DEF LocalSteps, approval
<1>10. ShellSteps \in Seq(S) /\ \A need \in Needs : Has(ShellSteps, need)
  <2>1. ShellSteps = LocalSteps \o ConsumerMint
    BY DEF ShellSteps, LocalSteps
  <2> QED
    BY <1>3, <1>8, <1>9, <2>1 DEF Needs
<1>11. TempoSteps \in Seq(S) /\ \A need \in Needs : Has(TempoSteps, need)
  <2>1. /\ Preparation \o ConsumerMint \in Seq(S)
        /\ \A need \in Needs \ {"approve"} : Has(Preparation \o ConsumerMint, need)
    BY <1>3, <1>7, ConcatHas
  <2>2. TempoSteps = (Preparation \o ConsumerMint) \o approval
    BY DEF TempoSteps, approval
  <2> QED
    BY <1>2, <1>6, <1>8, <2>1, <2>2
<1> QED
  BY <1>1, <1>9, <1>10, <1>11 DEF Steps, S

LEMMA SignersType ==
  ASSUME config \in Configs
  PROVE  /\ BrokerWallet \in Account
         /\ \A what : Signer(what) \in Account
BY DeploymentAssumption DEF BrokerWallet, Signer

-----------------------------------------------------------------------------
(* Every step of the deployment is a step of its processes and the node *)

LEMMA ClientSimulation ==
  DeployInv /\ [DeployNext]_vars => [ClientNext]_clientVars
<1> SUFFICES ASSUME DeployInv, [DeployNext]_vars
             PROVE  [ClientNext]_clientVars
  OBVIOUS
<1>1. Script \in Sender /\ Demo \subseteq Sender
  BY DeploymentAssumption
<1>2. CASE StartScript
  BY <1>1, <1>2 DEF StartScript, ClientNext
<1>3. CASE ScriptCall
  <2>1. Signer(Steps[done + 1]) \in Account
    BY SignersType DEF DeployInv, DeployShape
  <2> QED
    BY <1>1, <1>3, <2>1 DEF ScriptCall, ClientNext
<1>4. CASE ScriptReturns
  BY <1>1, <1>4 DEF ScriptReturns, ClientNext, Waiting
<1>5. CASE ScriptGoesOn
  BY <1>1, <1>5 DEF ScriptGoesOn, ClientNext, Waiting
<1>6. CASE WriteEnv
  <2>1. End(Script)
    BY <1>6 DEF WriteEnv, End
  <2> QED
    BY <1>1, <2>1 DEF ClientNext
<1>7. ASSUME NEW c \in Demo, StartDemo(c)
      PROVE  ClientNext
  BY <1>1, <1>7 DEF StartDemo, ClientNext
<1>8. ASSUME NEW c \in Demo, DemoCall(c)
      PROVE  ClientNext
  <2>1. loaded[c].wallet \in Account
    BY DEF DeployInv, DeployShape, Env
  <2> QED
    BY <1>1, <1>8, <2>1 DEF DemoCall, ClientNext
<1>9. ASSUME NEW c \in Demo, DemoSends(c) \/ DemoWaits(c) \/ DemoEnds(c)
      PROVE  ClientNext
  BY <1>1, <1>9 DEF DemoSends, DemoWaits, DemoEnds, ClientNext
<1>10. CASE NodeNext
  BY <1>10 DEF ClientNext
<1>11. CASE UNCHANGED vars
  BY <1>11 DEF vars
<1> QED
  BY <1>2, <1>3, <1>4, <1>5, <1>6, <1>7, <1>8, <1>9, <1>10, <1>11
     DEF DeployNext

-----------------------------------------------------------------------------
(* What is mined stays mined *)

\* Calls keep their record and purpose, and remain mined.
Grows ==
  /\ config' = config
  /\ Executed \subseteq Executed'
  /\ \A k \in Call :
       k \in Call' /\ issued'[k] = issued[k] /\ purpose'[k] = purpose[k]

LEMMA DoneStays ==
  ASSUME DeployInv, Grows
  PROVE  /\ Steps' = Steps /\ BrokerWallet' = BrokerWallet
         /\ \A what : Signer(what)' = Signer(what)
         /\ \A d, i : Done(d, i) => Done(d, i)'
         /\ \A d : Complete(d) => Complete(d)'
         /\ \A e : Trusted(e) => Trusted(e)'
<1>1. /\ Steps' = Steps /\ BrokerWallet' = BrokerWallet
      /\ \A what : Signer(what)' = Signer(what)
  BY DEF Grows, Steps, LocalSteps, TempoSteps, ShellSteps, Preparation,
         ConsumerMint, BrokerWallet, Signer
<1>2. Executed \subseteq Call
  BY DEF DeployInv, ClientInv, ClientTypeOK
<1>3. ASSUME NEW d, NEW i, Done(d, i)
      PROVE  Done(d, i)'
  <2>1. PICK k \in Executed :
          /\ purpose[k] = [deployment |-> d, what |-> Steps[i]]
          /\ issued[k].from = Signer(Steps[i])
    BY <1>3 DEF Done
  <2>2. k \in Executed' /\ issued'[k] = issued[k] /\ purpose'[k] = purpose[k]
    BY <1>2 DEF Grows
  <2> QED
    BY <1>1, <2>1, <2>2 DEF Done
<1>4. \A d : Complete(d) => Complete(d)'
  BY <1>1, <1>3 DEF Complete
<1>5. \A e : Trusted(e) => Trusted(e)'
  BY <1>1, <1>4 DEF Trusted, NoEnv
<1> QED
  BY <1>1, <1>3, <1>4, <1>5

\* Unless a call is added, the calls and their purposes stay as they are.
LEMMA QuietGrows ==
  ASSUME UNCHANGED <<config, issued, purpose, mined>>
  PROVE  Grows /\ Call' = Call /\ Executed' = Executed
BY DEF Grows, Call, Executed

LEMMA QuietKeeps ==
  ASSUME DeployInv, UNCHANGED <<config, issued, purpose, mined>>
  PROVE  CyclesBacked' /\ DeployedBeforeUse'
<1>1. Grows /\ Call' = Call
  BY QuietGrows
<1>2. /\ BrokerWallet' = BrokerWallet
      /\ \A d : Complete(d) => Complete(d)'
  BY <1>1, DoneStays
<1>3. CyclesBacked'
  <2> SUFFICES ASSUME NEW k \in Call, purpose[k].what = "cycle"
               PROVE  /\ Complete(purpose[k].deployment)'
                      /\ issued[k].from = BrokerWallet
    BY <1>1, <1>2 DEF CyclesBacked
  <2>1. Complete(purpose[k].deployment) /\ issued[k].from = BrokerWallet
    BY DEF DeployInv, CyclesBacked
  <2>2. purpose'[k] = purpose[k]
    OBVIOUS
  <2> QED
    BY <1>2, <2>1, <2>2
<1>4. DeployedBeforeUse'
  BY DEF DeployInv, DeployedBeforeUse
<1> QED
  BY <1>3, <1>4

LEMMA ScriptUntouched ==
  ASSUME DeployInv, Grows, UNCHANGED <<deployment, done>>,
         UnderWay(Script)' => UnderWay(Script), call'[Script] = call[Script]
  PROVE  ScriptInStep'
<1>1. /\ Steps' = Steps
      /\ \A what : Signer(what)' = Signer(what)
      /\ \A d, i : Done(d, i) => Done(d, i)'
  BY DoneStays
<1>2. \A i \in 1 .. done : Done(deployment, i)'
  <2> SUFFICES ASSUME NEW i \in 1 .. done PROVE Done(deployment, i)'
    OBVIOUS
  <2>1. Done(deployment, i)
    BY DEF DeployInv, ScriptInStep
  <2> DEFINE d == deployment
  <2>2. Done(d, i) /\ d' = d
    BY <2>1
  <2> QED
    BY <1>1, <2>1, <2>2
<1>3. ASSUME UnderWay(Script)
      PROVE  /\ issued'[call[Script]] = issued[call[Script]]
             /\ purpose'[call[Script]] = purpose[call[Script]]
  BY <1>3, DeploymentAssumption
     DEF Grows, UnderWay, DeployInv, ClientInv, ClientTypeOK
<1> QED
  BY <1>1, <1>2, <1>3 DEF DeployInv, ScriptInStep

LEMMA EnvUntouched ==
  ASSUME DeployInv, Grows, UNCHANGED <<env, loaded>>,
         \A c \in Demo : pc'[c] # "over" => pc[c] # "over"
  PROVE  EnvTrusted'
<1>1. \A e : Trusted(e) => Trusted(e)'
  BY DoneStays
<1>2. Trusted(env)'
  <2> DEFINE e == env
  <2>1. Trusted(e) /\ e' = e
    BY DEF DeployInv, EnvTrusted
  <2> QED
    BY <1>1, <2>1
<1>3. ASSUME NEW c \in Demo
      PROVE  Trusted(loaded[c])' /\ (pc'[c] # "over" => loaded[c] # NoEnv)
  <2> DEFINE e == loaded[c]
  <2>1. Trusted(e) /\ e' = e
    BY DEF DeployInv, EnvTrusted
  <2>2. pc'[c] # "over" => loaded[c] # NoEnv
    BY DEF DeployInv, EnvTrusted
  <2> QED
    BY <1>1, <2>1, <2>2
<1> QED
  BY <1>2, <1>3 DEF EnvTrusted, NoEnv

\* Where one process moves, the others stay.
LEMMA OneMoves ==
  ASSUME DeployInv, NEW s \in Sender, NEW from, NEW to, At(s, from, to)
  PROVE  /\ pc[s] = from /\ pc'[s] = to
         /\ \A r \in Sender : r # s => pc'[r] = pc[r]
BY DEF DeployInv, ClientInv, ClientTypeOK, At

-----------------------------------------------------------------------------
(* The steps that mine and issue nothing *)

LEMMA StartScriptKeeps ==
  ASSUME DeployInv, ClientInv', StartScript
  PROVE  DeployInv'
<1>1. /\ At(Script, "over", "ready")
      /\ UNCHANGED <<config, issued, call, purpose, mined, env, loaded>>
      /\ deployment' = deployment + 1 /\ deployment < MaxDeploys /\ done' = 0
  BY DEF StartScript, Start, nodeVars
<1>2. Script \in Sender /\ Demo \subseteq Sender \ {Script}
  BY DeploymentAssumption
<1>3. /\ pc'[Script] = "ready"
      /\ \A c \in Demo : pc'[c] = pc[c]
  BY <1>1, <1>2, OneMoves
<1>4. Grows /\ CyclesBacked' /\ DeployedBeforeUse'
  BY <1>1, QuietGrows, QuietKeeps
<1>5. Steps' = Steps
  BY <1>4, DoneStays
<1>6. DeployShape'
  <2>1. deployment' \in 0 .. MaxDeploys
    BY <1>1, DeploymentAssumption DEF DeployInv, DeployShape
  <2>2. done' \in 0 .. Len(Steps)
    BY <1>1, StepsMeetNeeds DEF DeployInv, DeployShape
  <2>3. \A c \in Demo : loaded[c].deployment <= deployment'
    BY <1>1 DEF DeployInv, DeployShape, Env
  <2>4. env.deployment <= deployment'
    BY <1>1 DEF DeployInv, DeployShape, Env
  <2> QED
    BY <1>1, <1>5, <2>1, <2>2, <2>3, <2>4 DEF DeployInv, DeployShape
<1>7. ScriptInStep'
  BY <1>1, <1>3 DEF ScriptInStep, UnderWay
<1>8. EnvTrusted'
  BY <1>1, <1>3, <1>4, EnvUntouched
<1> QED
  BY <1>4, <1>6, <1>7, <1>8 DEF DeployInv

LEMMA ScriptReturnsKeeps ==
  ASSUME DeployInv, ClientInv', ScriptReturns
  PROVE  DeployInv'
<1>1. /\ At(Script, "waiting", "ready") /\ call[Script] \in Executed
      /\ UNCHANGED <<config, issued, call, purpose, mined, env, loaded, deployment>>
      /\ done' = done + 1
  BY DEF ScriptReturns, Receipt, nodeVars
<1>2. Script \in Sender /\ Demo \subseteq Sender \ {Script}
  BY DeploymentAssumption
<1>3. /\ pc[Script] = "waiting" /\ pc'[Script] = "ready"
      /\ \A c \in Demo : pc'[c] = pc[c]
  BY <1>1, <1>2, OneMoves
<1>4. Grows /\ CyclesBacked' /\ DeployedBeforeUse'
  BY <1>1, QuietGrows, QuietKeeps
<1>5. /\ Steps' = Steps
      /\ \A d, i : Done(d, i) => Done(d, i)'
  BY <1>4, DoneStays
<1>6. /\ done < Len(Steps) /\ done \in Nat /\ Len(Steps) \in Nat
      /\ Done(deployment, done + 1)
  BY <1>1, <1>3, StepsMeetNeeds
     DEF DeployInv, DeployShape, ScriptInStep, UnderWay, Done
<1>7. DeployShape'
  BY <1>1, <1>5, <1>6 DEF DeployInv, DeployShape
<1>8. ScriptInStep'
  <2>1. ASSUME NEW i \in 1 .. done + 1
        PROVE  Done(deployment, i)'
    <3> DEFINE d == deployment
    <3>1. Done(d, i) /\ d' = d
      <4>1. i \in 1 .. done \/ i = done + 1
        BY <1>6
      <4> QED
        BY <1>1, <1>6, <4>1 DEF DeployInv, ScriptInStep
    <3> QED
      BY <1>5, <3>1
  <2> QED
    BY <1>1, <1>3, <2>1 DEF ScriptInStep, UnderWay
<1>9. EnvTrusted'
  BY <1>1, <1>3, <1>4, EnvUntouched
<1> QED
  BY <1>4, <1>7, <1>8, <1>9 DEF DeployInv

\* A process within a call, or at the end of its last.
LEMMA GoesOn ==
  ASSUME DeployInv, NEW s \in Sender, Sending(s) \/ Waiting(s) \/ End(s)
  PROVE  /\ UNCHANGED <<issued, call, mined>>
         /\ pc[s] # "over"
         /\ UnderWay(s)' => UnderWay(s)
         /\ \A r \in Sender : r # s => pc'[r] = pc[r]
<1>1. UNCHANGED <<issued, call, mined>>
  BY DEF Sending, Waiting, SendRawTransaction, SendRaises, Receipt, TimesOut,
         End, nodeVars
<1>2. \/ At(s, "built", "waiting") \/ At(s, "built", "over")
      \/ At(s, "waiting", "ready") \/ At(s, "waiting", "over")
      \/ At(s, "ready", "over")
  BY DEF Sending, Waiting, SendRawTransaction, SendRaises, Receipt, TimesOut, End
<1>3. /\ pc[s] # "over"
      /\ \A r \in Sender : r # s => pc'[r] = pc[r]
  BY <1>2, OneMoves
<1>4. UnderWay(s)' => UnderWay(s)
  BY <1>2, OneMoves DEF UnderWay
<1> QED
  BY <1>1, <1>3, <1>4

LEMMA ScriptGoesOnKeeps ==
  ASSUME DeployInv, ClientInv', ScriptGoesOn
  PROVE  DeployInv'
<1>1. Script \in Sender /\ Demo \subseteq Sender \ {Script}
  BY DeploymentAssumption
<1>2. /\ UNCHANGED <<issued, call, mined, deployVars>>
      /\ UnderWay(Script)' => UnderWay(Script)
      /\ \A c \in Demo : pc'[c] = pc[c]
  BY <1>1, GoesOn DEF ScriptGoesOn, Waiting
<1> USE DEF deployVars
<1>3. Grows /\ CyclesBacked' /\ DeployedBeforeUse'
  BY <1>2, QuietGrows, QuietKeeps
<1>4. DeployShape'
  BY <1>2, <1>3, DoneStays DEF DeployInv, DeployShape
<1>5. ScriptInStep'
  BY <1>2, <1>3, ScriptUntouched
<1>6. EnvTrusted'
  BY <1>2, <1>3, EnvUntouched
<1> QED
  BY <1>3, <1>4, <1>5, <1>6 DEF DeployInv

\* The script writes what it has seen mined.
LEMMA WriteEnvKeeps ==
  ASSUME DeployInv, ClientInv', WriteEnv
  PROVE  DeployInv'
<1>1. /\ At(Script, "ready", "over") /\ done = Len(Steps) /\ env' = Written
      /\ UNCHANGED <<config, issued, call, purpose, mined, loaded, deployment, done>>
  BY DEF WriteEnv, nodeVars
<1>2. Script \in Sender /\ Demo \subseteq Sender \ {Script}
  BY DeploymentAssumption
<1>3. /\ pc'[Script] = "over"
      /\ \A c \in Demo : pc'[c] = pc[c]
  BY <1>1, <1>2, OneMoves
<1>4. Grows /\ CyclesBacked' /\ DeployedBeforeUse'
  BY <1>1, QuietGrows, QuietKeeps
<1>5. /\ Steps' = Steps /\ BrokerWallet' = BrokerWallet
      /\ \A d : Complete(d) => Complete(d)'
      /\ \A e : Trusted(e) => Trusted(e)'
  BY <1>4, DoneStays
<1>6. /\ env'.deployment = deployment /\ env'.wallet = BrokerWallet
      /\ env' \in Env /\ deployment \in Nat
  BY <1>1, SignersType, DeploymentAssumption
     DEF Written, DeployInv, DeployShape, Env
<1>7. DeployShape'
  BY <1>1, <1>5, <1>6 DEF DeployInv, DeployShape
<1>8. UnderWay(Script)' => UnderWay(Script)
  BY <1>3 DEF UnderWay
<1>9. ScriptInStep'
  BY <1>1, <1>4, <1>8, ScriptUntouched
<1>10. EnvTrusted'
  <2>1. Complete(deployment)'
    <3> DEFINE d == deployment
    <3>1. Complete(d) /\ d' = d
      BY <1>1 DEF DeployInv, ScriptInStep, Complete
    <3> QED
      BY <1>5, <3>1
  <2>2. Trusted(env)'
    BY <1>1, <1>5, <1>6, <2>1 DEF Trusted
  <2>3. ASSUME NEW c \in Demo
        PROVE  Trusted(loaded[c])' /\ (pc'[c] # "over" => loaded[c] # NoEnv)
    <3> DEFINE e == loaded[c]
    <3>1. Trusted(e) /\ e' = e /\ (pc'[c] # "over" => loaded[c] # NoEnv)
      BY <1>1, <1>3 DEF DeployInv, EnvTrusted
    <3> QED
      BY <1>5, <3>1
  <2> QED
    BY <1>1, <2>2, <2>3 DEF EnvTrusted, NoEnv
<1> QED
  BY <1>4, <1>7, <1>9, <1>10 DEF DeployInv

LEMMA StartDemoKeeps ==
  ASSUME DeployInv, ClientInv', NEW c \in Demo, StartDemo(c)
  PROVE  DeployInv'
<1>1. /\ At(c, "over", "ready") /\ env # NoEnv
      /\ loaded' = [loaded EXCEPT ![c] = env]
      /\ UNCHANGED <<config, issued, call, purpose, mined, env, deployment, done>>
  BY DEF StartDemo, Start, nodeVars
<1>2. Script \in Sender /\ Demo \subseteq Sender \ {Script}
  BY DeploymentAssumption
<1>3. \A r \in Sender : r # c => pc'[r] = pc[r]
  BY <1>1, <1>2, OneMoves
<1>4. Grows /\ CyclesBacked' /\ DeployedBeforeUse'
  BY <1>1, QuietGrows, QuietKeeps
<1>5. /\ Steps' = Steps
      /\ \A e : Trusted(e) => Trusted(e)'
  BY <1>4, DoneStays
<1>6. /\ loaded' \in [Demo -> Env] /\ loaded'[c] = env
      /\ \A r \in Demo : r # c => loaded'[r] = loaded[r]
  BY <1>1 DEF DeployInv, DeployShape
<1>7. DeployShape'
  BY <1>1, <1>5, <1>6 DEF DeployInv, DeployShape
<1>8. ScriptInStep'
  <2>1. UnderWay(Script)' => UnderWay(Script)
    BY <1>2, <1>3 DEF UnderWay
  <2> QED
    BY <1>1, <1>4, <2>1, ScriptUntouched
<1>9. EnvTrusted'
  <2> DEFINE e == env
  <2>1. Trusted(e) /\ e' = e
    BY <1>1 DEF DeployInv, EnvTrusted
  <2>2. Trusted(env)'
    BY <1>5, <2>1
  <2>3. ASSUME NEW r \in Demo
        PROVE  Trusted(loaded[r])' /\ (pc'[r] # "over" => loaded'[r] # NoEnv)
    <3>1. CASE r = c
      BY <1>1, <1>6, <2>2, <3>1 DEF Trusted
    <3>2. CASE r # c
      <4> DEFINE f == loaded[r]
      <4>1. Trusted(f) /\ f' = f /\ (pc'[r] # "over" => loaded[r] # NoEnv)
        BY <1>2, <1>3, <1>6, <3>2 DEF DeployInv, EnvTrusted
      <4> QED
        BY <1>5, <1>6, <3>2, <4>1
    <3> QED
      BY <3>1, <3>2
  <2> QED
    BY <2>2, <2>3 DEF EnvTrusted, NoEnv
<1> QED
  BY <1>4, <1>7, <1>8, <1>9 DEF DeployInv

LEMMA DemoGoesOnKeeps ==
  ASSUME DeployInv, ClientInv', NEW c \in Demo,
         DemoSends(c) \/ DemoWaits(c) \/ DemoEnds(c)
  PROVE  DeployInv'
<1>1. Script \in Sender /\ Demo \subseteq Sender \ {Script}
  BY DeploymentAssumption
<1>2. /\ UNCHANGED <<issued, call, mined, deployVars>>
      /\ pc[c] # "over"
      /\ \A r \in Sender : r # c => pc'[r] = pc[r]
  BY <1>1, GoesOn DEF DemoSends, DemoWaits, DemoEnds
<1> USE DEF deployVars
<1>3. Grows /\ CyclesBacked' /\ DeployedBeforeUse'
  BY <1>2, QuietGrows, QuietKeeps
<1>4. DeployShape'
  BY <1>2, <1>3, DoneStays DEF DeployInv, DeployShape
<1>5. UnderWay(Script)' => UnderWay(Script)
  BY <1>1, <1>2 DEF UnderWay
<1>6. ScriptInStep'
  BY <1>2, <1>3, <1>5, ScriptUntouched
<1>7. \A r \in Demo : pc'[r] # "over" => pc[r] # "over"
  BY <1>1, <1>2
<1>8. EnvTrusted'
  BY <1>2, <1>3, <1>7, EnvUntouched
<1> QED
  BY <1>3, <1>4, <1>6, <1>8 DEF DeployInv

-----------------------------------------------------------------------------
(* The steps that issue a call *)

LEMMA IssueAdds ==
  ASSUME DeployInv, NEW s \in Sender, NEW a \in Account,
         BuildTransaction(s, a) \/ BuildCounted(s, a),
         NEW d \in Nat, NEW what \in What, For(d, what), UNCHANGED config
  PROVE  /\ Grows
         /\ UNCHANGED mined
         /\ pc'[s] = "built" /\ pc[s] = "ready"
         /\ \A r \in Sender : r # s => pc'[r] = pc[r] /\ call'[r] = call[r]
         /\ Call' = Call \cup {call'[s]} /\ Executed' = Executed
         /\ issued'[call'[s]].from = a
         /\ purpose' \in Seq(Purpose) /\ Len(purpose') = Len(issued')
         /\ purpose'[call'[s]] = [deployment |-> d, what |-> what]
<1> DEFINE p == [deployment |-> d, what |-> what]
<1>1. PICK nonce \in Nat : Issue(s, a, nonce)
  <2>1. CASE BuildTransaction(s, a)
    BY <2>1 DEF BuildTransaction, DeployInv, ClientInv, ClientTypeOK
  <2>2. CASE BuildCounted(s, a)
    BY <2>2 DEF BuildCounted, DeployInv, ClientInv, ClientTypeOK
  <2> QED
    BY <2>1, <2>2
<1> DEFINE r0 == [by |-> s, from |-> a, nonce |-> nonce]
<1>2. /\ ClientTypeOK /\ r0 \in Record /\ r0.from = a
      /\ issued' = Append(issued, r0) /\ UNCHANGED mined
      /\ At(s, "ready", "built")
      /\ call' = [call EXCEPT ![s] = Len(issued) + 1]
  BY <1>1 DEF DeployInv, ClientInv, Issue, nodeVars, Record
<1> HIDE DEF r0
<1>3. /\ issued' \in Seq(Record) /\ issued'[Len(issued) + 1] = r0
      /\ Call' = Call \cup {Len(issued) + 1}
      /\ \A k \in Call : issued'[k] = issued[k]
  BY <1>2, AppendCall
<1>4. /\ call'[s] = Len(issued) + 1
      /\ \A r \in Sender : r # s => call'[r] = call[r]
  BY <1>2 DEF ClientTypeOK
<1>5. /\ pc'[s] = "built" /\ pc[s] = "ready"
      /\ \A r \in Sender : r # s => pc'[r] = pc[r]
  BY <1>2, OneMoves
<1>6. /\ purpose \in Seq(Purpose) /\ Len(purpose) = Len(issued)
      /\ p \in Purpose /\ purpose' = Append(purpose, p)
  BY DEF DeployInv, DeployShape, Purpose, For
<1> HIDE DEF p
<1>7. /\ Call = 1 .. Len(issued) /\ Len(issued) \in Nat
      /\ Len(issued') = Len(issued) + 1
  <2>1. issued \in Seq(Record)
    BY <1>2 DEF ClientTypeOK, Record
  <2> QED
    BY <1>2, <2>1, CallRecord
<1>8. /\ purpose' \in Seq(Purpose) /\ Len(purpose') = Len(issued) + 1
      /\ purpose'[Len(issued) + 1] = p
      /\ \A k \in 1 .. Len(issued) : purpose'[k] = purpose[k]
  BY <1>6, <1>7
<1>9. Executed' = Executed
  BY <1>2 DEF Executed
<1>10. Grows
  BY <1>3, <1>7, <1>8, <1>9 DEF Grows
<1> QED
  BY <1>2, <1>3, <1>4, <1>5, <1>7, <1>8, <1>9, <1>10 DEF p

\* A call that is added leaves what is mined as it is.
LEMMA IssueKeepsUse ==
  ASSUME DeployInv, Grows, UNCHANGED mined
  PROVE  DeployedBeforeUse'
<1>1. mined \in Seq(Nat) /\ Executed \subseteq Call
  BY DEF DeployInv, ClientInv, ClientTypeOK
<1>2. ASSUME NEW i \in DOMAIN mined
      PROVE  /\ purpose'[mined[i]] = purpose[mined[i]]
             /\ issued'[mined[i]] = issued[mined[i]]
  BY <1>1 DEF Grows, Executed
<1>3. ASSUME NEW i \in DOMAIN mined, NEW j \in 1 .. i - 1
      PROVE  j \in DOMAIN mined
  BY <1>1
<1> QED
  BY <1>2, <1>3 DEF DeployInv, DeployedBeforeUse

\* A demo calls only a deployment that its env file vouches for.
LEMMA IssueKeepsBacked ==
  ASSUME DeployInv, Grows, NEW new, Call' = Call \cup {new},
         purpose'[new].what = "cycle" =>
           /\ Complete(purpose'[new].deployment)
           /\ issued'[new].from = BrokerWallet
  PROVE  CyclesBacked'
<1>1. /\ BrokerWallet' = BrokerWallet
      /\ \A d : Complete(d) => Complete(d)'
  BY DoneStays
<1> SUFFICES ASSUME NEW k \in Call', purpose'[k].what = "cycle"
             PROVE  /\ Complete(purpose[k].deployment)'
                    /\ issued'[k].from = BrokerWallet
  BY <1>1 DEF CyclesBacked
<1>2. Complete(purpose'[k].deployment) /\ issued'[k].from = BrokerWallet
  <2>1. CASE k = new
    BY <2>1
  <2>2. CASE k # new
    <3>1. k \in Call /\ purpose'[k] = purpose[k] /\ issued'[k] = issued[k]
      BY <2>2 DEF Grows
    <3> QED
      BY <3>1 DEF DeployInv, CyclesBacked
  <2> QED
    BY <2>1, <2>2
<1> QED
  BY <1>1, <1>2

LEMMA ScriptCallKeeps ==
  ASSUME DeployInv, ClientInv', ScriptCall
  PROVE  DeployInv'
<1> DEFINE what == Steps[done + 1]
<1>1. /\ done < Len(Steps) /\ For(deployment, what)
      /\ BuildTransaction(Script, Signer(what)) \/ BuildCounted(Script, Signer(what))
      /\ UNCHANGED <<config, deployment, done, env, loaded>>
  BY DEF ScriptCall
<1>2. Script \in Sender /\ Demo \subseteq Sender \ {Script}
  BY DeploymentAssumption
<1>3. /\ config \in Configs /\ deployment \in Nat
      /\ done \in 0 .. Len(Steps) /\ done \in Nat
  BY DeploymentAssumption DEF DeployInv, DeployShape
<1>4. Signer(what) \in Account /\ what \in What \ {"cycle"}
  BY <1>1, <1>3, SignersType, StepsMeetNeeds
<1> HIDE DEF what
<1>5. /\ Grows /\ UNCHANGED mined
      /\ \A r \in Sender : r # Script => pc'[r] = pc[r] /\ call'[r] = call[r]
      /\ Call' = Call \cup {call'[Script]}
      /\ issued'[call'[Script]].from = Signer(what)
      /\ purpose' \in Seq(Purpose) /\ Len(purpose') = Len(issued')
      /\ purpose'[call'[Script]] = [deployment |-> deployment, what |-> what]
  BY <1>1, <1>2, <1>3, <1>4, IssueAdds
<1>6. CyclesBacked' /\ DeployedBeforeUse'
  BY <1>4, <1>5, IssueKeepsBacked, IssueKeepsUse
<1>7. /\ Steps' = Steps /\ BrokerWallet' = BrokerWallet
      /\ \A d, i : Done(d, i) => Done(d, i)'
  BY <1>5, DoneStays
<1>8. DeployShape'
  BY <1>1, <1>5, <1>7 DEF DeployInv, DeployShape
<1>9. ScriptInStep'
  <2>1. ASSUME NEW i \in 1 .. done
        PROVE  Done(deployment, i)'
    <3> DEFINE d == deployment
    <3>1. Done(d, i) /\ d' = d
      BY <1>1 DEF DeployInv, ScriptInStep
    <3> QED
      BY <1>7, <3>1
  <2>2. Steps'[done' + 1] = what /\ done' < Len(Steps')
    BY <1>1, <1>7 DEF what
  <2>3. Signer(Steps[done + 1])' = Signer(what)
    BY <1>1, <1>7 DEF Signer, what
  <2> QED
    BY <1>1, <1>5, <2>1, <2>2, <2>3 DEF ScriptInStep
<1>10. \A c \in Demo : pc'[c] = pc[c]
  BY <1>2, <1>5
<1>11. EnvTrusted'
  BY <1>1, <1>5, <1>10, EnvUntouched
<1> QED
  BY <1>6, <1>8, <1>9, <1>11 DEF DeployInv

LEMMA DemoCallKeeps ==
  ASSUME DeployInv, ClientInv', NEW c \in Demo, DemoCall(c)
  PROVE  DeployInv'
<1> DEFINE d == loaded[c].deployment
           a == loaded[c].wallet
<1>1. /\ BuildTransaction(c, a) /\ For(d, "cycle")
      /\ UNCHANGED <<config, deployment, done, env, loaded>>
  BY DEF DemoCall
<1>2. Script \in Sender /\ Demo \subseteq Sender \ {Script}
  BY DeploymentAssumption
<1>3. d \in Nat /\ a \in Account /\ "cycle" \in What
  BY DEF DeployInv, DeployShape, Env, What
<1>4. pc[c] = "ready"
  BY <1>1 DEF BuildTransaction, Issue, At
<1>5. Complete(d) /\ a = BrokerWallet
  BY <1>4 DEF DeployInv, EnvTrusted, Trusted
<1> HIDE DEF d, a
<1>6. /\ Grows /\ UNCHANGED mined
      /\ pc'[c] = "built"
      /\ \A r \in Sender : r # c => pc'[r] = pc[r] /\ call'[r] = call[r]
      /\ Call' = Call \cup {call'[c]}
      /\ issued'[call'[c]].from = a
      /\ purpose' \in Seq(Purpose) /\ Len(purpose') = Len(issued')
      /\ purpose'[call'[c]] = [deployment |-> d, what |-> "cycle"]
  BY SMTT(30), <1>1, <1>2, <1>3, IssueAdds
<1>7. CyclesBacked' /\ DeployedBeforeUse'
  BY <1>5, <1>6, IssueKeepsBacked, IssueKeepsUse
<1>8. DeployShape'
  BY <1>1, <1>6, DoneStays DEF DeployInv, DeployShape
<1>9. ScriptInStep'
  <2>1. call'[Script] = call[Script] /\ (UnderWay(Script)' => UnderWay(Script))
    BY <1>2, <1>6 DEF UnderWay
  <2> QED
    BY <1>1, <1>6, <2>1, ScriptUntouched
<1>10. \A r \in Demo : pc'[r] # "over" => pc[r] # "over"
  BY <1>2, <1>4, <1>6
<1>11. EnvTrusted'
  BY <1>1, <1>6, <1>10, EnvUntouched
<1> QED
  BY <1>7, <1>8, <1>9, <1>11 DEF DeployInv

-----------------------------------------------------------------------------
(* The steps of the node *)

\* Every call the broker needs has been mined for a complete deployment.
LEMMA CompleteMeetsNeeds ==
  ASSUME DeployInv, NEW d, Complete(d), NEW need \in Needs
  PROVE  \E j \in DOMAIN mined :
           /\ purpose[mined[j]] = [deployment |-> d, what |-> need]
           /\ issued[mined[j]].from = Signer(need)
<1>1. PICK n \in 1 .. Len(Steps) : Steps[n] = need
  BY StepsMeetNeeds DEF DeployInv, DeployShape, Has
<1>2. Done(d, n)
  BY DEF Complete
<1> QED
  BY <1>1, <1>2 DEF Done, Executed

\* A transaction of a cycle is mined after all that its deployment consists of.
LEMMA MineKeepsUse ==
  ASSUME DeployInv, NEW k \in pool, Mine(k), UNCHANGED deployVars
  PROVE  DeployedBeforeUse'
<1>1. /\ mined' = Append(mined, k) /\ k \in Call /\ k \in Nat
      /\ UNCHANGED <<issued, purpose, config>>
  BY SMTT(30), CallRecord
     DEF Mine, senderVars, deployVars, DeployInv, ClientInv, ClientTypeOK
<1>2. /\ mined \in Seq(Nat) /\ Len(mined) \in Nat
      /\ DOMAIN mined = 1 .. Len(mined)
      /\ DOMAIN mined' = 1 .. Len(mined) + 1
      /\ \A i \in 1 .. Len(mined) : mined'[i] = mined[i]
      /\ mined'[Len(mined) + 1] = k
  BY <1>1 DEF DeployInv, ClientInv, ClientTypeOK
<1> DEFINE Made(i, d, what) ==
             {j \in 1 .. i - 1 :
                purpose[mined[j]] = [deployment |-> d, what |-> what]}
           MadeNow(i, d, what) ==
             {j \in 1 .. i - 1 :
                purpose[mined'[j]] = [deployment |-> d, what |-> what]}
<1>3. ASSUME NEW i \in DOMAIN mined', NEW d, NEW what
      PROVE  /\ MadeNow(i, d, what) = Made(i, d, what)
             /\ Made(i, d, what) \subseteq DOMAIN mined
  BY <1>2
<1> SUFFICES ASSUME NEW i \in DOMAIN mined',
                    purpose[mined'[i]].what = "cycle",
                    NEW d, d = purpose[mined'[i]].deployment
             PROVE  /\ \A need \in Needs : MadeNow(i, d, need) # {}
                    /\ \E j \in MadeNow(i, d, "approve") :
                         issued[mined'[j]].from = issued[mined'[i]].from
  BY <1>1 DEF DeployedBeforeUse
<1>4. CASE i \in DOMAIN mined
  <2>1. mined'[i] = mined[i]
    BY <1>2, <1>4
  <2>2. /\ \A need \in Needs : Made(i, d, need) # {}
        /\ \E j \in Made(i, d, "approve") :
             issued[mined[j]].from = issued[mined[i]].from
    BY <1>4, <2>1 DEF DeployInv, DeployedBeforeUse
  <2>3. \A j \in DOMAIN mined : mined'[j] = mined[j]
    BY <1>2
  <2>4. \A what : MadeNow(i, d, what) = Made(i, d, what)
    BY <1>3
  <2>5. PICK j \in Made(i, d, "approve") :
          issued[mined[j]].from = issued[mined[i]].from
    BY <2>2
  <2>6. j \in DOMAIN mined
    BY <1>3
  <2> HIDE DEF Made, MadeNow
  <2> QED
    BY <2>1, <2>2, <2>3, <2>4, <2>5, <2>6
<1>5. CASE i = Len(mined) + 1
  <2>1. mined'[i] = k
    BY <1>2, <1>5
  <2>2. Complete(d) /\ issued[k].from = BrokerWallet
    BY <1>1, <2>1 DEF DeployInv, CyclesBacked
  <2>3. ASSUME NEW need \in Needs
        PROVE  \E j \in MadeNow(i, d, need) :
                 issued[mined'[j]].from = Signer(need)
    <3>1. PICK j \in DOMAIN mined :
            /\ purpose[mined[j]] = [deployment |-> d, what |-> need]
            /\ issued[mined[j]].from = Signer(need)
      BY <2>2, CompleteMeetsNeeds
    <3>2. j \in 1 .. i - 1 /\ mined'[j] = mined[j]
      BY <1>2, <1>5
    <3> QED
      BY <3>1, <3>2
  <2>4. "approve" \in Needs /\ Signer("approve") = BrokerWallet
    BY DEF Needs, Signer
  <2> HIDE DEF MadeNow
  <2> QED
    BY <2>1, <2>2, <2>3, <2>4
<1>6. i \in DOMAIN mined \/ i = Len(mined) + 1
  BY <1>2
<1> QED
  BY <1>4, <1>5, <1>6, Zenon

LEMMA NodeKeeps ==
  ASSUME DeployInv, ClientInv', NodeNext, UNCHANGED deployVars
  PROVE  DeployInv'
<1>1. PICK k \in pool : Mine(k) \/ Drop(k)
  BY DEF NodeNext
<1>2. UNCHANGED <<issued, call, pc, config, deployment, done, purpose, env, loaded>>
  BY <1>1 DEF Mine, Drop, senderVars, deployVars
<1>3. Grows /\ DeployedBeforeUse'
  <2>1. CASE Mine(k)
    <3>1. k \in Nat /\ mined' = Append(mined, k)
      BY <2>1, CallRecord DEF Mine, DeployInv, ClientInv, ClientTypeOK
    <3>2. Executed' = Executed \cup {k}
      BY <3>1, AppendMined DEF DeployInv, ClientInv
    <3> QED
      BY <1>2, <2>1, <3>2, MineKeepsUse DEF Grows, Call
  <2>2. CASE Drop(k)
    BY <1>2, <2>2, QuietGrows, QuietKeeps DEF Drop
  <2> QED
    BY <1>1, <2>1, <2>2
<1>4. /\ Steps' = Steps /\ BrokerWallet' = BrokerWallet
      /\ \A d : Complete(d) => Complete(d)'
  BY <1>3, DoneStays
<1>5. CyclesBacked'
  <2>1. Call' = Call
    BY <1>2 DEF Call
  <2> SUFFICES ASSUME NEW j \in Call, purpose[j].what = "cycle"
               PROVE  /\ Complete(purpose[j].deployment)'
                      /\ issued[j].from = BrokerWallet
    BY <1>2, <1>4, <2>1 DEF CyclesBacked
  <2>2. Complete(purpose[j].deployment) /\ issued[j].from = BrokerWallet
    BY DEF DeployInv, CyclesBacked
  <2>3. purpose'[j] = purpose[j]
    BY <1>2
  <2> QED
    BY <1>4, <2>2, <2>3
<1>6. DeployShape'
  BY <1>2, <1>4 DEF DeployInv, DeployShape
<1>7. ScriptInStep'
  BY <1>2, <1>3, ScriptUntouched DEF UnderWay
<1>8. EnvTrusted'
  BY <1>2, <1>3, EnvUntouched
<1> QED
  BY <1>3, <1>5, <1>6, <1>7, <1>8 DEF DeployInv

-----------------------------------------------------------------------------
(* The inductive invariant *)

LEMMA DeployInitInv == DeployInit => DeployInv
<1> SUFFICES ASSUME DeployInit PROVE DeployInv
  OBVIOUS
<1> USE DEF DeployInit
<1>1. ClientInv
  BY InitInv
<1>2. /\ Call = {} /\ issued = <<>> /\ mined = <<>>
      /\ \A s \in Sender : pc[s] = "over"
  BY DEF ClientInit, Call
<1>3. Script \in Sender /\ Demo \subseteq Sender /\ Deployer \in Account
  BY DeploymentAssumption
<1>4. NoEnv \in Env /\ NoEnv.deployment = 0
  BY <1>3 DEF NoEnv, Env
<1>5. DeployShape
  <2>1. 0 \in 0 .. MaxDeploys
    BY DeploymentAssumption
  <2>2. 0 \in 0 .. Len(Steps)
    BY StepsMeetNeeds
  <2>3. purpose \in Seq(Purpose) /\ Len(purpose) = Len(issued)
    BY <1>2
  <2>4. loaded \in [Demo -> Env] /\ \A c \in Demo : loaded[c].deployment <= deployment
    BY <1>4
  <2>5. env \in Env /\ env.deployment <= deployment
    BY <1>4
  <2> QED
    BY <2>1, <2>2, <2>3, <2>4, <2>5 DEF DeployShape
<1>6. ScriptInStep
  BY <1>2, <1>3 DEF ScriptInStep, UnderWay
<1>7. EnvTrusted
  BY <1>2, <1>3 DEF EnvTrusted, Trusted
<1>8. CyclesBacked /\ DeployedBeforeUse
  BY <1>2 DEF CyclesBacked, DeployedBeforeUse
<1> QED
  BY <1>1, <1>5, <1>6, <1>7, <1>8 DEF DeployInv

LEMMA DeployStepInv == DeployInv /\ [DeployNext]_vars => DeployInv'
<1> SUFFICES ASSUME DeployInv, [DeployNext]_vars PROVE DeployInv'
  OBVIOUS
<1>1. ClientInv'
  BY ClientSimulation, StepInv DEF DeployInv
<1>2. CASE StartScript
  BY <1>1, <1>2, StartScriptKeeps
<1>3. CASE ScriptCall
  BY <1>1, <1>3, ScriptCallKeeps
<1>4. CASE ScriptReturns
  BY <1>1, <1>4, ScriptReturnsKeeps
<1>5. CASE ScriptGoesOn
  BY <1>1, <1>5, ScriptGoesOnKeeps
<1>6. CASE WriteEnv
  BY <1>1, <1>6, WriteEnvKeeps
<1>7. ASSUME NEW c \in Demo, StartDemo(c) PROVE DeployInv'
  BY <1>1, <1>7, StartDemoKeeps
<1>8. ASSUME NEW c \in Demo, DemoCall(c) PROVE DeployInv'
  BY <1>1, <1>8, DemoCallKeeps
<1>9. ASSUME NEW c \in Demo, DemoSends(c) \/ DemoWaits(c) \/ DemoEnds(c)
      PROVE  DeployInv'
  BY <1>1, <1>9, DemoGoesOnKeeps
<1>10. CASE NodeNext /\ UNCHANGED deployVars
  BY <1>1, <1>10, NodeKeeps
<1>11. CASE UNCHANGED vars
  <2>1. UNCHANGED <<issued, call, pc, mined, config, deployment, done, purpose,
                    env, loaded>>
    BY <1>11 DEF vars, clientVars, senderVars, nodeVars, deployVars
  <2>2. Grows /\ CyclesBacked' /\ DeployedBeforeUse'
    BY <2>1, QuietGrows, QuietKeeps
  <2>3. DeployShape'
    BY <2>1, <2>2, DoneStays DEF DeployInv, DeployShape
  <2>4. ScriptInStep'
    BY <2>1, <2>2, ScriptUntouched DEF UnderWay
  <2>5. EnvTrusted'
    BY <2>1, <2>2, EnvUntouched
  <2> QED
    BY <1>1, <2>2, <2>3, <2>4, <2>5 DEF DeployInv
<1> QED
  BY <1>2, <1>3, <1>4, <1>5, <1>6, <1>7, <1>8, <1>9, <1>10, <1>11
     DEF DeployNext

THEOREM DeployInvariant == DeploySpec => []DeployInv
BY DeployInitInv, DeployStepInv, PTL DEF DeploySpec

\* The state of the scripts, the demos and their transactions has its types,
\* and nobody has read of a deployment that was never begun.
THEOREM DeployTypeCorrect == DeploySpec => []DeployTypeOK
<1>1. DeployInv => DeployTypeOK
  BY DEF DeployInv, DeployShape, ClientInv, DeployTypeOK
<1> QED
  BY <1>1, DeployInvariant, PTL

\* However often the script fails and is started again, and however many demos
\* run meanwhile, no call of a cycle is mined before its deployment is
\* complete, nor from another wallet than the one that gave the approval.
THEOREM DeployedBeforeUseAlways == DeploySpec => []DeployedBeforeUse
<1>1. DeployInv => DeployedBeforeUse
  BY DEF DeployInv
<1> QED
  BY <1>1, DeployInvariant, PTL

\* Scripts and demos are processes of ChainClient: what is proved of those
\* holds of them, together with any number of the others.
THEOREM DeploymentIsClient == DeploySpec => ClientSpec
<1>1. DeployInit => ClientInit
  BY DEF DeployInit
<1> QED
  BY <1>1, DeployInvariant, ClientSimulation, PTL DEF DeploySpec, ClientSpec

\* The calls of scripts and demos alike take effect at most once and, account
\* by account, in the order of their issue, and none waits behind a gap.
THEOREM DeploymentOrdered == DeploySpec => []NeverGapped /\ ImplementsCallLog
BY DeploymentIsClient, NeverGappedAlways, ClientImplementsCallLog, PTL
=============================================================================
