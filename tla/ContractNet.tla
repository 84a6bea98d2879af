---------------------------- MODULE ContractNet ----------------------------
(***************************************************************************)
(* What the broker promises of a procurement, as anyone who reads the      *)
(* chain sees it: for each requirement the last stage of its public audit  *)
(* trail and the producer that has been paid.  The stages and their order  *)
(* are those of shared/cnp_messages.py:11-20 with the re-evaluation loop   *)
(* of agents/broker/broker_graph.py:6-34.  Module BrokerGraph is shown to  *)
(* implement this specification.                                           *)
(***************************************************************************)
CONSTANTS
  Requirement,   \* requirements posted by consumers
  Producer,      \* registered producers
  Nobody         \* not a producer

VARIABLES
  stage,         \* requirement -> last stage recorded, or "NONE"
  payee          \* requirement -> the producer paid for it, or Nobody

netVars == <<stage, payee>>

\* A trail starts with ANNOUNCED, may loop from AWARDED to EVALUATING when a
\* producer withdraws, and ends with SETTLED or FAILED.
Succession ==
  {<<"NONE", "ANNOUNCED">>, <<"ANNOUNCED", "BIDDING">>,
   <<"BIDDING", "EVALUATING">>, <<"BIDDING", "FAILED">>,
   <<"EVALUATING", "AWARDED">>, <<"AWARDED", "EVALUATING">>,
   <<"AWARDED", "EXECUTING">>, <<"AWARDED", "FAILED">>,
   <<"EXECUTING", "DELIVERED">>, <<"DELIVERED", "SETTLED">>}

Stages == {edge[1] : edge \in Succession} \cup {edge[2] : edge \in Succession}

NetInit ==
  /\ stage = [r \in Requirement |-> "NONE"]
  /\ payee = [r \in Requirement |-> Nobody]

\* The trail of one requirement grows by one stage.  Delivery and settlement
\* are recorded of what has been paid, failure of what has not.
Record(r, next) ==
  /\ <<stage[r], next>> \in Succession
  /\ next \in {"DELIVERED", "SETTLED"} => payee[r] # Nobody
  /\ next = "FAILED" => payee[r] = Nobody
  /\ stage' = [stage EXCEPT ![r] = next]
  /\ UNCHANGED payee

\* A producer is paid once, after its execution is on record.
Pay(r, producer) ==
  /\ stage[r] = "EXECUTING"
  /\ payee[r] = Nobody
  /\ payee' = [payee EXCEPT ![r] = producer]
  /\ UNCHANGED stage

NetNext ==
  \E r \in Requirement :
    \/ \E next \in Stages : Record(r, next)
    \/ \E producer \in Producer : Pay(r, producer)

NetSpec == NetInit /\ [][NetNext]_netVars

-----------------------------------------------------------------------------
(* Properties *)

\* A trail shows a stage of the protocol, and only producers are paid.
NetTypeOK ==
  /\ stage \in [Requirement -> Stages]
  /\ payee \in [Requirement -> Producer \cup {Nobody}]

\* The public trail and the money agree: what is on record as delivered or
\* settled has been paid, what is on record as failed never was, and no
\* payment precedes the record of the execution.
PaidAsRecorded ==
  \A r \in Requirement :
    /\ stage[r] \in {"DELIVERED", "SETTLED"} => payee[r] # Nobody
    /\ payee[r] # Nobody => stage[r] \in {"EXECUTING", "DELIVERED", "SETTLED"}

\* Payment and the end of a trail are irrevocable: a producer that was paid
\* stays the one paid, and nothing is recorded after SETTLED or FAILED.
Irrevocable ==
  [][\A r \in Requirement :
       /\ payee[r] # Nobody => payee'[r] = payee[r]
       /\ stage[r] \in {"SETTLED", "FAILED"} => stage'[r] = stage[r]]_netVars
=============================================================================
