---------------------------- MODULE HttpProducer ----------------------------
(***************************************************************************)
(* A producer reached over HTTP: the DroneDeploy or the Skydio adapter of  *)
(* one broker process, and the partner behind it.  An award is placed with *)
(* one or two POSTs, polled, and confirmed, as the broker graph calls the  *)
(* adapter; every request may be retried, refused, lost or answered after  *)
(* the partner acted.  The partner moves as the mock servers do.           *)
(*                                                                         *)
(* Both adapters keep the ids of what they last placed and use them for    *)
(* whatever award they are asked about: the first id placed for evidence,  *)
(* the last one for status.  DroneDeploy places a project and a mission in *)
(* it, Skydio one order.                                                   *)
(***************************************************************************)
EXTENDS Integers, Sequences, FiniteSets

CONSTANTS
  Apis,         \* adapters of the instance
  MaxAttempts,  \* stop_after_attempt of the retry policy
  MaxAwards,    \* bound on the awards given to the adapter
  MaxOrders     \* bound on what the partner holds

ASSUME HttpAssumption ==
  /\ Apis \subseteq {"DroneDeploy", "Skydio"}
  /\ MaxAttempts \in Nat \ {0}
  /\ MaxAwards \in Nat
  /\ MaxOrders \in Nat

VARIABLES
  api,       \* which adapter this is
  phase,     \* the adapter method the broker is in, or "idle"
  award,     \* the award it was called with, numbered in order
  step,      \* the POST of accept_award() under way
  attempt,   \* attempts of the request under way, this one included
  ids,       \* _project_id and _mission_id, or _order_id
  orders,    \* the partner's projects and missions, or orders; by id
  outcome,   \* how each award went, as the broker saw it
  evidence   \* the delivery_evidence of each award

vars == <<api, phase, award, step, attempt, ids, orders, outcome, evidence>>

NoId == 0

Award == 1 .. MaxAwards

Outcome == {"none", "accepted", "withdrawn", "raised", "delivered"}

\* The POSTs of accept_award().
Posts == IF api = "DroneDeploy" THEN 2 ELSE 1

EvidenceId == ids[1]
StatusId == ids[Posts]

-----------------------------------------------------------------------------
(* The partner.                                                              *)

FirstStatus == IF api = "DroneDeploy" THEN "pending" ELSE "created"
LastStatus == IF api = "DroneDeploy" THEN "complete" ELSE "completed"

\* Where a flight may end that the mocks never enter: "failed" (which stands
\* for "cancelled" too, the adapters do not tell them apart), and a status the
\* adapters do not know.
OtherStatus == {"failed", "on_hold"}

MissionNextStatus(o) ==
  CASE o.status = "pending" ->
         [o EXCEPT !.status = "processing", !.progress = 25]
    [] o.status = "processing" /\ o.progress < 60 ->
         [o EXCEPT !.progress = 60]
    [] o.status = "processing" /\ o.progress >= 60 /\ o.progress < 100 ->
         [o EXCEPT !.status = "complete", !.progress = 100]
    [] OTHER -> o

OrderNextStatus(o) ==
  CASE o.status = "created" ->
         [o EXCEPT !.status = "in_transit", !.progress = 10]
    [] o.status = "in_transit" ->
         [o EXCEPT !.status = "flying", !.progress = 50]
    [] o.status = "flying" /\ o.progress < 85 ->
         [o EXCEPT !.progress = 85]
    [] o.status = "flying" /\ o.progress >= 85 ->
         [o EXCEPT !.status = "completed", !.progress = 100]
    [] OTHER -> o

NextStatus(o) ==
  IF api = "DroneDeploy" THEN MissionNextStatus(o) ELSE OrderNextStatus(o)

\* What the POST under way leaves with the partner when it is acted on.  A
\* mission names its project; nothing else belongs to anything.
NewOrder == [award |-> award, kind |-> step,
             project |-> IF step = 1 THEN NoId ELSE EvidenceId,
             status |-> FirstStatus, progress |-> 0]

Created == Append(orders, NewOrder)

Polled == [orders EXCEPT ![StatusId] = NextStatus(@)]

\* Wrong on purpose: the filter by project or order is dropped.
FlightsOfAll(id) ==
  {o \in DOMAIN orders :
     orders[o].kind = Posts /\ orders[o].status = LastStatus}

\* What the exports of the project, or the media of the order, are made of:
\* its completed flights.
Flights(id) ==
  {o \in DOMAIN orders :
     /\ orders[o].kind = Posts
     /\ orders[o].status = LastStatus
     /\ (IF Posts = 2 THEN orders[o].project ELSE o) = id}

\* The first item of /exports or /media; none while the partner is still
\* processing it.
FirstItem(id) ==
  {NoId} \cup {o \in Flights(id) : \A other \in Flights(id) : o <= other}

-----------------------------------------------------------------------------
(* The adapter's view of the partner's answers.                              *)

\* Wrong on purpose: DroneDeploy's final status spelt as Skydio's.
DroneDeployStatusMapMisspelt ==
  [pending |-> "PENDING", processing |-> "IN_FLIGHT",
   in_progress |-> "IN_FLIGHT", completed |-> "COMPLETE",
   failed |-> "FAILED", cancelled |-> "FAILED"]

DroneDeployStatusMap ==
  [pending |-> "PENDING", processing |-> "IN_FLIGHT",
   in_progress |-> "IN_FLIGHT", complete |-> "COMPLETE",
   failed |-> "FAILED", cancelled |-> "FAILED"]

SkydioStatusMap ==
  [created |-> "PENDING", scheduled |-> "PENDING",
   in_transit |-> "MOBILISING", flying |-> "IN_FLIGHT",
   landing |-> "IN_FLIGHT", completed |-> "COMPLETE",
   failed |-> "FAILED", cancelled |-> "FAILED"]

StatusMap ==
  IF api = "DroneDeploy" THEN DroneDeployStatusMap ELSE SkydioStatusMap

ReportedStatus(status) ==
  IF status \in DOMAIN StatusMap THEN StatusMap[status] ELSE "IN_FLIGHT"

\* Wrong on purpose: the adapter makes a project once and keeps it for later awards.
StoredOnce(id) == IF ids[step] = NoId THEN [ids EXCEPT ![step] = id] ELSE ids

\* The adapter keeps the id that its POST returned.
Stored(id) == [ids EXCEPT ![step] = id]

\* A method returns or raises, and the broker moves on.
Leave(how) ==
  /\ phase' = "idle"
  /\ outcome' = [outcome EXCEPT ![award] = how]

\* Wrong on purpose: the caught error falls through to "return True".
WithdrawSwallowed ==
  /\ phase' = "monitoring"
  /\ outcome' = [outcome EXCEPT ![award] = "accepted"]

\* accept_award() turns every ProducerApiError into False.
Withdraw == Leave("withdrawn")

\* accept_award() returns True and the broker starts polling.
Accept ==
  /\ phase' = "monitoring"
  /\ attempt' = 1
  /\ outcome' = [outcome EXCEPT ![award] = "accepted"]

\* Wrong on purpose: one attempt too many.
RetryOrOnceMore(GiveUp) ==
  \/ /\ attempt <= MaxAttempts
     /\ attempt' = attempt + 1
     /\ UNCHANGED <<phase, outcome>>
  \/ /\ attempt > MaxAttempts
     /\ GiveUp
     /\ UNCHANGED attempt

\* Wrong on purpose: a policy without a stop.
RetryOrForever(GiveUp) ==
  /\ attempt' = (attempt % MaxAttempts) + 1
  /\ UNCHANGED <<phase, outcome>>

\* A 429 or a 5xx: the request is sent again until the policy gives up.
RetryOr(GiveUp) ==
  \/ /\ attempt < MaxAttempts
     /\ attempt' = attempt + 1
     /\ UNCHANGED <<phase, outcome>>
  \/ /\ attempt = MaxAttempts
     /\ GiveUp
     /\ UNCHANGED attempt

-----------------------------------------------------------------------------
Init ==
  /\ api \in Apis
  /\ phase = "idle"
  /\ award = 0
  /\ step = 1
  /\ attempt = 1
  /\ ids = [k \in 1 .. 2 |-> NoId]
  /\ orders = <<>>
  /\ outcome = [a \in Award |-> "none"]
  /\ evidence = [a \in Award |-> [id |-> NoId, item |-> NoId]]

\* The broker has an award for this producer.
AcceptAward ==
  /\ phase = "idle"
  /\ award < MaxAwards
  /\ award' = award + 1
  /\ phase' = "placing"
  /\ step' = 1
  /\ attempt' = 1
  /\ UNCHANGED <<api, ids, orders, outcome, evidence>>

\* The partner acted and said so.
PostAnswered ==
  /\ phase = "placing"
  /\ Len(orders) < MaxOrders
  /\ orders' = Created
  /\ ids' = Stored(Len(orders) + 1)
  /\ \/ /\ step < Posts
        /\ step' = step + 1
        /\ attempt' = 1
        /\ UNCHANGED <<phase, outcome>>
     \/ /\ step = Posts
        /\ Accept
        /\ UNCHANGED step
  /\ UNCHANGED <<api, award, evidence>>

\* A success whose answer has no id, whether or not the partner acted:
\* DroneDeploy's adapter looks the id up and raises, Skydio's takes the award
\* for accepted and carries on without one.
PostAnsweredWithoutId ==
  /\ phase = "placing"
  /\ \/ UNCHANGED orders
     \/ Len(orders) < MaxOrders /\ orders' = Created
  /\ \/ /\ api = "DroneDeploy"
        /\ Leave("raised")
        /\ UNCHANGED <<ids, attempt>>
     \/ /\ api = "Skydio"
        /\ ids' = Stored(NoId)
        /\ Accept
  /\ UNCHANGED <<api, award, step, evidence>>

\* A 429 or a 5xx.  The partner may have acted all the same.
PostUnavailable ==
  /\ phase = "placing"
  /\ \/ UNCHANGED orders
     \/ Len(orders) < MaxOrders /\ orders' = Created
  /\ RetryOr(Withdraw)
  /\ UNCHANGED <<api, award, step, ids, evidence>>

\* Any other error status.
PostRefused ==
  /\ phase = "placing"
  /\ Withdraw
  /\ UNCHANGED <<api, award, step, attempt, ids, orders, evidence>>

\* No answer within the timeout, no connection, or one that is not JSON: not a
\* ProducerApiError, and neither retried nor caught.
PostRaises ==
  /\ phase = "placing"
  /\ \/ UNCHANGED orders
     \/ Len(orders) < MaxOrders /\ orders' = Created
  /\ Leave("raised")
  /\ UNCHANGED <<api, award, step, attempt, ids, evidence>>

\* One round of the polling loop.  Without an id the adapter answers PENDING
\* by itself and nothing changes.
GetStatus ==
  /\ phase = "monitoring"
  /\ StatusId # NoId
  /\ orders' = Polled
  /\ attempt' = 1
  /\ phase' = IF ReportedStatus(orders'[StatusId].status) = "COMPLETE"
              THEN "confirming" ELSE "monitoring"
  /\ UNCHANGED <<api, award, step, ids, outcome, evidence>>

\* The poll fails: retried after a 429 or a 5xx, and raised in the end.  The
\* partner may have served it.
GetStatusFails ==
  /\ phase = "monitoring"
  /\ StatusId # NoId
  /\ orders' \in {orders, Polled}
  /\ \/ RetryOr(Leave("raised"))
     \/ Leave("raised") /\ UNCHANGED attempt
  /\ UNCHANGED <<api, award, step, ids, evidence>>

\* The evidence is the first item of the answer, or a URL made of the id.
ConfirmDelivery ==
  /\ phase = "confirming"
  /\ \E item \in FirstItem(EvidenceId) :
       evidence' = [evidence EXCEPT
                      ![award] = [id |-> EvidenceId, item |-> item]]
  /\ Leave("delivered")
  /\ UNCHANGED <<api, award, step, attempt, ids, orders>>

ConfirmDeliveryFails ==
  /\ phase = "confirming"
  /\ \/ RetryOr(Leave("raised"))
     \/ Leave("raised") /\ UNCHANGED attempt
  /\ UNCHANGED <<api, award, step, ids, orders, evidence>>

\* The broker process ends and another one is started: an adapter without ids.
Restart ==
  /\ phase' = "idle"
  /\ ids' = [k \in 1 .. 2 |-> NoId]
  /\ outcome' = IF phase = "idle" THEN outcome
                ELSE [outcome EXCEPT ![award] = "raised"]
  /\ UNCHANGED <<api, award, step, attempt, orders, evidence>>

\* Every flight the partner was asked for goes ahead, polled or not.
PartnerFlies(o) ==
  /\ orders[o].kind = Posts
  /\ orders' = [orders EXCEPT ![o] = NextStatus(@)]
  /\ UNCHANGED <<api, phase, award, step, attempt, ids, outcome, evidence>>

PartnerStops(o) ==
  /\ orders[o].kind = Posts
  /\ orders[o].status # LastStatus
  /\ \E status \in OtherStatus :
       orders' = [orders EXCEPT ![o].status = status]
  /\ UNCHANGED <<api, phase, award, step, attempt, ids, outcome, evidence>>

Request ==
  \/ PostAnswered \/ PostAnsweredWithoutId \/ PostUnavailable
  \/ PostRefused \/ PostRaises
  \/ GetStatus \/ GetStatusFails
  \/ ConfirmDelivery \/ ConfirmDeliveryFails

Partner == \E o \in DOMAIN orders : PartnerFlies(o) \/ PartnerStops(o)

Next == AcceptAward \/ Request \/ Restart \/ Partner

Spec == Init /\ [][Next]_vars

\* A request ends, if only by its timeout, and its caller goes on.
FairSpec == Spec /\ WF_vars(Request)
-----------------------------------------------------------------------------
Status == {"pending", "processing", "complete",
           "created", "in_transit", "flying", "completed"} \cup OtherStatus

Order == [award : Award, kind : 1 .. 2, project : 0 .. MaxOrders,
          status : Status, progress : 0 .. 100]

TypeOK ==
  /\ api \in Apis
  /\ phase \in {"idle", "placing", "monitoring", "confirming"}
  /\ award \in 0 .. MaxAwards
  /\ phase # "idle" => award \in Award
  /\ step \in 1 .. Posts
  /\ attempt \in 1 .. MaxAttempts
  /\ ids \in [1 .. 2 -> 0 .. Len(orders)]
  /\ orders \in Seq(Order)
  /\ Len(orders) <= MaxOrders
  /\ outcome \in [Award -> Outcome]
  /\ evidence \in [Award -> [id : 0 .. Len(orders), item : 0 .. Len(orders)]]

\* The id is that of the k-th thing placed for an award.
PlacedFor(a, k, id) ==
  /\ id \in DOMAIN orders
  /\ orders[id].award = a
  /\ orders[id].kind = k

\* get_status() and confirm_delivery() ignore the award they are asked about
\* and use the ids kept from the last accept_award().  They are those of this
\* very award all the same, although earlier calls may have failed between
\* their POSTs; only Skydio's may be missing.
StatusOfAward ==
  phase \in {"monitoring", "confirming"} =>
    \A k \in 1 .. Posts :
      \/ PlacedFor(award, k, ids[k])
      \/ ids[k] = NoId /\ api = "Skydio" /\ phase = "monitoring"

\* A mission lies in a project made for the same award, never in one that a
\* failed attempt at an earlier award left on the adapter.
MissionInOwnProject ==
  \A o \in DOMAIN orders :
    orders[o].kind = 2 => PlacedFor(orders[o].award, 1, orders[o].project)

\* The evidence put on record for an award is that of a completed flight of
\* that award: the file named, and the project or order named when there is no
\* file, even if retries made the partner hold several.
EvidenceOfAward ==
  \A a \in Award : outcome[a] = "delivered" =>
    LET e == evidence[a] IN
    /\ PlacedFor(a, 1, e.id)
    /\ \E o \in Flights(e.id) : orders[o].award = a
    /\ e.item # NoId => e.item \in Flights(e.id) /\ orders[e.item].award = a

\* A POST is not idempotent and its retries may each leave a project, mission
\* or order behind; the retry policy bounds how many of each an award costs.
DuplicatesBounded ==
  \A a \in Award, k \in 1 .. 2 :
    Cardinality({o \in DOMAIN orders : PlacedFor(a, k, o)}) <= MaxAttempts

\* accept_award() returns or raises, however the partner answers.
AcceptReturns == phase = "placing" ~> phase # "placing"

\* The partner ended the flight otherwise than by completing it, or the
\* adapter has no id to ask for: it then answers PENDING for ever, of an award
\* that it reported as accepted and that may never have been placed.
Unfinishable ==
  \/ StatusId = NoId
  \/ orders[StatusId].status \in OtherStatus

\* The broker's polling ends unless the flight is one that cannot complete:
\* every status the partner goes through is one the adapter understands.
PollingEnds == phase = "monitoring" ~> (phase # "monitoring" \/ Unfinishable)
=============================================================================
