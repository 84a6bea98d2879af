------------------------------ MODULE Bidding ------------------------------
(***************************************************************************)
(* One requirement from announcement to award: announce_task,              *)
(* collect_bids, evaluate_bids and the re-evaluation that follows a        *)
(* rejected award, seen as a computation on bids.  The chain and the       *)
(* consumer are left to module BrokerGraph.                                *)
(***************************************************************************)
EXTENDS BidEvaluation

CONSTANTS
  Registrations, \* lists of producers a broker is built with, each a
                 \* sequence of [id, tariff] records
  Requested,     \* the service types consumers ask for
  Days,          \* lengths of the window, (end_time - start_time).days
  Budgets,       \* values of budget_ceiling_usdc
  Criteria,      \* [price, availability, performance] weights in percent
  MAX_RE_EVALS   \* BrokerGraph.MAX_RE_EVALS

ASSUME BiddingAssumption ==
  /\ Registrations \subseteq Seq([id : STRING, tariff : Tariff])
  /\ Requested \subseteq ServiceType
  /\ Days \subseteq Int
  /\ Budgets \subseteq Nat
  /\ Criteria \subseteq EvaluationCriteria
  /\ MAX_RE_EVALS \in Nat \ {0}

VARIABLES
  registered,    \* self.producers, in registration order
  phase,         \* the node about to run
  requirement,   \* state["requirement"], as posted
  announcement,  \* state["announcement"]
  bids,          \* state["bids"]
  winner,        \* the bid the last evaluation chose
  rejections     \* state["re_eval_count"]

taskVars == <<registered, requirement, announcement>>
vars == <<taskVars, phase, bids, winner, rejections>>

\* What a consumer posts; what the broker sends out is copied from it.
ServiceRequirement == [serviceType : Requested, days : Days,
                       budget : Budgets, criteria : Criteria]
TaskAnnouncement == ServiceRequirement

\* The demonstration's requirement: two days of surveillance.
DefaultRequirement ==
  [serviceType |-> "DRONE_SURVEILLANCE", days |-> 2, budget |-> 3000,
   criteria |-> [price |-> 40, availability |-> 35, performance |-> 25]]

\* The producers the demonstration registers in each of its phases.
ProducersOf(demoPhase) ==
  IF demoPhase = 3
  THEN << [id |-> "PROD-DRONEDEPLOY", tariff |-> DroneDeploy],
          [id |-> "PROD-SKYDIO", tariff |-> Skydio] >>
  ELSE << [id |-> "PROD-DRONE-OPS-SW", tariff |-> AeroPlan],
          [id |-> "PROD-DRONE-SVC", tariff |-> SkyWatch] >>

NoAnnouncement == [serviceType |-> "none"]
NoBid == [producer |-> "none", price |-> 0, available |-> FALSE,
          performance |-> 0]

Registered == {registered[i].id : i \in DOMAIN registered}

TariffOf(producer) ==
  LET i == CHOOSE k \in DOMAIN registered : registered[k].id = producer
  IN  registered[i].tariff

\* The variables hold what the nodes put in them; no evaluation starts once
\* the rejections have reached their limit.
TypeOK ==
  /\ registered \in Registrations
  /\ phase \in {"announce_task", "collect_bids", "evaluate_bids",
                "award_contract", "execute", "fail", "raised"}
  /\ requirement \in ServiceRequirement
  /\ announcement \in TaskAnnouncement \cup {NoAnnouncement}
  /\ \A i \in DOMAIN bids : bids[i] \in ProducerBid(Registered)
  /\ winner \in ProducerBid(Registered) \cup {NoBid}
  /\ rejections \in 0 .. MAX_RE_EVALS
  /\ phase = "evaluate_bids" => rejections < MAX_RE_EVALS

Init ==
  /\ registered \in Registrations
  /\ phase = "announce_task"
  /\ requirement \in ServiceRequirement
  /\ announcement = NoAnnouncement
  /\ bids = <<>>
  /\ winner = NoBid
  /\ rejections = 0

\* _announce_task: the requirement is broadcast as it stands.
AnnounceTask ==
  /\ phase = "announce_task"
  /\ announcement' = requirement
  /\ phase' = "collect_bids"
  /\ UNCHANGED <<registered, requirement, bids, winner, rejections>>

\* _collect_bids and _route_after_bids.  A simulated producer bids whenever
\* its tariff fits the budget; one behind an HTTP API may still decline: the
\* partner reports no account, no free vehicle, or an error.
CollectBids ==
  /\ phase = "collect_bids"
  /\ LET able == {i \in DOMAIN registered :
                    CanFulfil(registered[i].tariff, announcement)}
         mayDecline == {i \in able : registered[i].tariff.http}
     IN \E declined \in SUBSET mayDecline :
          bids' = [i \in able \ declined |->
                     SubmitBid(registered[i].id, registered[i].tariff,
                               announcement)]
  /\ phase' = IF DOMAIN bids' = {} THEN "fail" ELSE "evaluate_bids"
  /\ UNCHANGED <<taskVars, winner, rejections>>

\* _evaluate_bids; min() and max() of no prices raise ValueError.
EvaluateBids ==
  /\ phase = "evaluate_bids"
  /\ IF DOMAIN bids = {}
     THEN phase' = "raised" /\ UNCHANGED winner
     ELSE /\ winner' = Winner(bids, requirement.criteria)
          /\ phase' = "award_contract"
  /\ UNCHANGED <<taskVars, bids, rejections>>

\* _award_contract when accept_award() returns True.
AcceptAward ==
  /\ phase = "award_contract"
  /\ phase' = "execute"
  /\ UNCHANGED <<taskVars, bids, winner, rejections>>

\* Wrong on purpose: the limit is compared with the count before this one.
RejectAwardStaleCount ==
  /\ phase = "award_contract"
  /\ TariffOf(winner.producer).http
  /\ bids' = Without(bids, winner.producer)
  /\ rejections' = rejections + 1
  /\ phase' = IF rejections < MAX_RE_EVALS THEN "evaluate_bids" ELSE "fail"
  /\ UNCHANGED <<taskVars, winner>>

\* Wrong on purpose: the node's updates are lost and the award tried again.
RejectAwardLost ==
  /\ phase = "award_contract"
  /\ TariffOf(winner.producer).http
  /\ phase' = "evaluate_bids"
  /\ UNCHANGED <<taskVars, bids, winner, rejections>>

\* _award_contract when accept_award() returns False, and _route_after_award.
\* Only the HTTP adapters ever reject.
RejectAward ==
  /\ phase = "award_contract"
  /\ TariffOf(winner.producer).http
  /\ bids' = Without(bids, winner.producer)
  /\ rejections' = rejections + 1
  /\ phase' = IF rejections' < MAX_RE_EVALS THEN "evaluate_bids" ELSE "fail"
  /\ UNCHANGED <<taskVars, winner>>

Done == phase \in {"execute", "fail", "raised"} /\ UNCHANGED vars

Next ==
  AnnounceTask \/ CollectBids \/ EvaluateBids \/ AcceptAward \/ RejectAward
  \/ Done

Spec == Init /\ [][Next]_vars
FairSpec == Spec /\ WF_vars(Next)

-----------------------------------------------------------------------------
(* Properties *)

\* budget_ceiling_usdc is the "max spend in USDC" (cnp_messages.py:97): no
\* bid the broker holds, hence no award, asks for more.
WithinBudget == \A i \in DOMAIN bids : bids[i].price <= requirement.budget

\* No bid on the table beats the chosen one: at least as good on price,
\* availability and record, and strictly better on a criterion that counts.
\* Normalisation, weights and sort order must all point the same way.
Dominates(a, b, criteria) ==
  /\ a.price <= b.price
  /\ b.available => a.available
  /\ a.performance >= b.performance
  /\ \/ criteria.price > 0 /\ a.price < b.price
     \/ criteria.availability > 0 /\ a.available /\ ~b.available
     \/ criteria.performance > 0 /\ a.performance > b.performance

WinnerUndominated ==
  phase \in {"award_contract", "execute"} =>
    \A i \in DOMAIN bids :
      ~ Dominates(bids[i], winner, requirement.criteria)

\* The choice depends on prices only up to unit and offset: quoting every bid
\* in another currency, or adding the same fee to all, elects the same
\* producer.  (The price score is normalised over the bids on the table.)
Requoted(unit, fee) ==
  [i \in DOMAIN bids |-> [bids[i] EXCEPT !.price = unit * @ + fee]]

WinnerUnitFree ==
  phase = "award_contract" =>
    \A unit \in 1 .. 3, fee \in {0, 75} :
      Winner(Requoted(unit, fee), requirement.criteria).producer
        = winner.producer

\* Every requirement is decided: an award is accepted, or the cycle ends.
Decided == <>(phase \in {"execute", "fail", "raised"})
=============================================================================
