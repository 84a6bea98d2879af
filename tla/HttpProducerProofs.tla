------------------------- MODULE HttpProducerProofs -------------------------
(* What the HTTP adapters guarantee for any number of awards, attempts and   *)
(* orders, whatever the partner answers and does.                            *)
EXTENDS HttpProducer, FiniteSetTheorems, TLAPS

\* Between the two POSTs of DroneDeploy the adapter already holds the new
\* award's project.
ProjectOfAward ==
  phase = "placing" /\ step = 2 => PlacedFor(award, 1, EvidenceId)

\* DroneDeploy's two ids belong together: evidence is asked of the project that
\* the polled mission lies in.
IdsBelongTogether ==
  phase \in {"monitoring", "confirming"} /\ Posts = 2 =>
    orders[StatusId].project = EvidenceId

\* confirm_delivery() is called on a flight that is over.
ConfirmsCompleted ==
  phase = "confirming" => orders[StatusId].status = LastStatus

\* The inductive invariant.  That the evidence is the award's own needs the ids
\* to be the award's own while it is polled, which needs the project's id to be
\* so between the two POSTs.
HttpInv ==
  /\ TypeOK
  /\ ProjectOfAward /\ StatusOfAward /\ IdsBelongTogether
  /\ ConfirmsCompleted
  /\ MissionInOwnProject /\ EvidenceOfAward

\* What no step does to what the partner holds: forget it, give it to another
\* award or project, or take back a completed flight.
OrdersGrow ==
  /\ api' = api
  /\ orders' \in Seq(Order)
  /\ Len(orders') \in Len(orders) .. MaxOrders
  /\ \A o \in 1 .. Len(orders) :
       /\ orders'[o].award = orders[o].award
       /\ orders'[o].kind = orders[o].kind
       /\ orders'[o].project = orders[o].project
       /\ orders[o].status = LastStatus => orders'[o].status = LastStatus

-----------------------------------------------------------------------------
(* The partner *)

\* Appending to a sequence of orders, and replacing one of them.
LEMMA AppendOrder ==
  ASSUME NEW s \in Seq(Order), NEW o \in Order
  PROVE  /\ Append(s, o) \in Seq(Order)
         /\ Len(Append(s, o)) = Len(s) + 1
         /\ \A k \in 1 .. Len(s) : Append(s, o)[k] = s[k]
         /\ Append(s, o)[Len(s) + 1] = o
  OBVIOUS

LEMMA ReplaceOrder ==
  ASSUME NEW s \in Seq(Order), NEW k \in 1 .. Len(s), NEW o \in Order
  PROVE  /\ [s EXCEPT ![k] = o] \in Seq(Order)
         /\ Len([s EXCEPT ![k] = o]) = Len(s)
         /\ [s EXCEPT ![k] = o][k] = o
         /\ \A j \in 1 .. Len(s) : j # k => [s EXCEPT ![k] = o][j] = s[j]
  OBVIOUS

LEMMA StatusSet ==
  ASSUME NEW o \in Order, NEW s \in Status
  PROVE  /\ [o EXCEPT !.status = s] \in Order
         /\ [o EXCEPT !.status = s].award = o.award
         /\ [o EXCEPT !.status = s].kind = o.kind
         /\ [o EXCEPT !.status = s].project = o.project
  BY DEF Order

LEMMA PostsType == api \in {"DroneDeploy", "Skydio"} => Posts \in 1 .. 2
  BY DEF Posts

\* A poll moves a flight on and changes nothing else; a completed flight stays
\* completed.
LEMMA NextStatusKeeps ==
  ASSUME NEW o \in Order
  PROVE  /\ NextStatus(o) \in Order
         /\ NextStatus(o).award = o.award
         /\ NextStatus(o).kind = o.kind
         /\ NextStatus(o).project = o.project
         /\ o.status = LastStatus => NextStatus(o).status = LastStatus
<1> DEFINE Moved(s, p) == [o EXCEPT !.status = s, !.progress = p]
<1>1. ASSUME NEW s \in Status, NEW p \in 0 .. 100
      PROVE  /\ Moved(s, p) \in Order
             /\ Moved(s, p).award = o.award
             /\ Moved(s, p).kind = o.kind
             /\ Moved(s, p).project = o.project
             /\ Moved(s, p).status = s
  BY DEF Order
<1>2. ASSUME NEW p \in 0 .. 100
      PROVE  [o EXCEPT !.progress = p] = Moved(o.status, p)
  BY DEF Order
<1>3. o.status \in Status /\ o.progress \in 0 .. 100
  BY DEF Order
<1> DEFINE Kept == /\ NextStatus(o) \in Order
                   /\ NextStatus(o).award = o.award
                   /\ NextStatus(o).kind = o.kind
                   /\ NextStatus(o).project = o.project
                   /\ o.status = LastStatus => NextStatus(o).status = LastStatus
<1> HIDE DEF Moved
<1>a. ASSUME NEW s \in Status, NEW p \in 0 .. 100,
             o.status # LastStatus, NextStatus(o) = Moved(s, p)
      PROVE  Kept
  BY <1>1, <1>a
<1>b. ASSUME NextStatus(o) = o PROVE Kept
  BY <1>b
<1> HIDE DEF Kept
<1> SUFFICES Kept
  BY DEF Kept
<1>4. CASE api = "DroneDeploy"
  <2>1. NextStatus(o) = MissionNextStatus(o) /\ LastStatus = "complete"
    BY <1>4 DEF NextStatus, LastStatus
  <2>2. \/ o.status # "complete" /\ MissionNextStatus(o) = Moved("processing", 25)
        \/ o.status # "complete" /\ MissionNextStatus(o) = Moved(o.status, 60)
        \/ o.status # "complete" /\ MissionNextStatus(o) = Moved("complete", 100)
        \/ MissionNextStatus(o) = o
    BY <1>2, <1>3 DEF MissionNextStatus, Moved
  <2>3. /\ {"processing", "complete", o.status} \subseteq Status
        /\ {25, 60, 100} \subseteq 0 .. 100
    BY <1>3 DEF Status
  <2>4. ASSUME NEW s \in {"processing", "complete", o.status},
               NEW p \in {25, 60, 100},
               o.status # "complete", MissionNextStatus(o) = Moved(s, p)
        PROVE  Kept
    BY <1>a, <2>1, <2>3, <2>4
  <2> QED
    BY <1>b, <2>1, <2>2, <2>4
<1>5. CASE api # "DroneDeploy"
  <2>1. NextStatus(o) = OrderNextStatus(o) /\ LastStatus = "completed"
    BY <1>5 DEF NextStatus, LastStatus
  <2>2. \/ o.status # "completed"
           /\ \/ OrderNextStatus(o) = Moved("in_transit", 10)
              \/ OrderNextStatus(o) = Moved("flying", 50)
              \/ OrderNextStatus(o) = Moved(o.status, 85)
              \/ OrderNextStatus(o) = Moved("completed", 100)
        \/ OrderNextStatus(o) = o
    BY <1>2, <1>3 DEF OrderNextStatus, Moved
  <2>3. /\ {"in_transit", "flying", "completed", o.status} \subseteq Status
        /\ {10, 50, 85, 100} \subseteq 0 .. 100
    BY <1>3 DEF Status
  <2>4. ASSUME NEW s \in {"in_transit", "flying", "completed", o.status},
               NEW p \in {10, 50, 85, 100},
               o.status # "completed", OrderNextStatus(o) = Moved(s, p)
        PROVE  Kept
    BY <1>a, <2>1, <2>3, <2>4
  <2> QED
    BY <1>b, <2>1, <2>2, <2>4
<1> QED
  BY <1>4, <1>5

LEMMA NewOrderType ==
  ASSUME TypeOK, phase = "placing"
  PROVE  NewOrder \in Order
<1>1. EvidenceId \in 0 .. MaxOrders
  BY HttpAssumption DEF TypeOK, EvidenceId
<1>2. step \in 1 .. 2
  BY HttpAssumption, PostsType DEF TypeOK
<1>3. FirstStatus \in Status
  BY DEF FirstStatus, Status
<1>4. award \in Award
  BY DEF TypeOK
<1>5. (IF step = 1 THEN NoId ELSE EvidenceId) \in 0 .. MaxOrders
  BY <1>1, HttpAssumption DEF NoId
<1> QED
  BY <1>2, <1>3, <1>4, <1>5 DEF NewOrder, Order

\* The three things that can happen to the partner's orders.
LEMMA CreatedGrows ==
  ASSUME TypeOK, phase = "placing", Len(orders) < MaxOrders,
         orders' = Created, api' = api
  PROVE  OrdersGrow /\ Len(orders') = Len(orders) + 1
                    /\ orders'[Len(orders) + 1] = NewOrder
<1>1. NewOrder \in Order /\ orders \in Seq(Order)
  BY NewOrderType DEF TypeOK
<1> QED
  BY <1>1, AppendOrder, HttpAssumption DEF Created, OrdersGrow

LEMMA MovedGrows ==
  ASSUME TypeOK, NEW k \in 1 .. Len(orders),
         orders' = [orders EXCEPT ![k] = NextStatus(@)], api' = api
  PROVE  OrdersGrow /\ Len(orders') = Len(orders)
                    /\ orders'[k] = NextStatus(orders[k])
<1> DEFINE next == NextStatus(orders[k])
<1>1. orders \in Seq(Order) /\ orders[k] \in Order /\ Len(orders) <= MaxOrders
  BY DEF TypeOK
<1>2. next \in Order
  BY <1>1, NextStatusKeeps
<1>3. orders' = [orders EXCEPT ![k] = next]
  OBVIOUS
<1>4. /\ orders' \in Seq(Order) /\ Len(orders') = Len(orders)
      /\ orders'[k] = next
      /\ \A j \in 1 .. Len(orders) : j # k => orders'[j] = orders[j]
  BY <1>1, <1>2, <1>3, ReplaceOrder
<1>5. /\ next.award = orders[k].award
      /\ next.kind = orders[k].kind
      /\ next.project = orders[k].project
      /\ orders[k].status = LastStatus => next.status = LastStatus
  BY <1>1, NextStatusKeeps
<1> HIDE DEF next
<1>6. OrdersGrow
  BY <1>1, <1>4, <1>5, HttpAssumption DEF OrdersGrow
<1> QED
  BY <1>4, <1>6 DEF next

LEMMA SameGrows ==
  ASSUME TypeOK, UNCHANGED orders, api' = api
  PROVE  OrdersGrow
  BY HttpAssumption DEF TypeOK, OrdersGrow

LEMMA StatusIdType ==
  ASSUME TypeOK, StatusId # NoId
  PROVE  StatusId \in 1 .. Len(orders)
  BY HttpAssumption, PostsType DEF TypeOK, StatusId, NoId

\* Whatever happens, the partner forgets nothing.
LEMMA NextGrows == TypeOK /\ [Next]_vars => OrdersGrow
<1> SUFFICES ASSUME TypeOK, [Next]_vars PROVE OrdersGrow
  OBVIOUS
<1>1. CASE AcceptAward \/ PostRefused \/ ConfirmDelivery
           \/ ConfirmDeliveryFails \/ Restart \/ UNCHANGED vars
  BY <1>1, SameGrows DEF AcceptAward, PostRefused, ConfirmDelivery,
     ConfirmDeliveryFails, Restart, vars
<1>2. CASE PostAnswered
  BY <1>2, CreatedGrows DEF PostAnswered
<1>3. CASE PostAnsweredWithoutId \/ PostUnavailable \/ PostRaises
  BY <1>3, CreatedGrows, SameGrows
     DEF PostAnsweredWithoutId, PostUnavailable, PostRaises
<1>4. CASE GetStatus \/ GetStatusFails
  BY <1>4, StatusIdType, MovedGrows, SameGrows
     DEF GetStatus, GetStatusFails, Polled
<1>5. CASE Partner
  <2>1. PICK k \in DOMAIN orders : PartnerFlies(k) \/ PartnerStops(k)
    BY <1>5 DEF Partner
  <2>2. k \in 1 .. Len(orders) /\ orders \in Seq(Order) /\ orders[k] \in Order
    BY <2>1 DEF TypeOK
  <2>3. CASE PartnerFlies(k)
    BY <2>2, <2>3, MovedGrows DEF PartnerFlies
  <2>4. CASE PartnerStops(k)
    <3>1. PICK status \in OtherStatus :
            orders' = [orders EXCEPT ![k].status = status]
      BY <2>4 DEF PartnerStops
    <3> DEFINE stopped == [orders[k] EXCEPT !.status = status]
    <3>2. /\ stopped \in Order
          /\ stopped.award = orders[k].award
          /\ stopped.kind = orders[k].kind
          /\ stopped.project = orders[k].project
      BY <2>2, StatusSet DEF Status
    <3>3. orders' = [orders EXCEPT ![k] = stopped]
      BY <3>1
    <3> HIDE DEF stopped
    <3>4. /\ orders' \in Seq(Order) /\ Len(orders') = Len(orders)
          /\ orders'[k] = stopped
          /\ \A j \in 1 .. Len(orders) : j # k => orders'[j] = orders[j]
      BY <2>2, <3>2, <3>3, ReplaceOrder
    <3>5. orders[k].status # LastStatus /\ api' = api
      BY <2>4 DEF PartnerStops
    <3>6. Len(orders) <= MaxOrders
      BY DEF TypeOK
    <3> QED
      BY <2>2, <3>2, <3>4, <3>5, <3>6, HttpAssumption DEF OrdersGrow
  <2> QED
    BY <2>1, <2>3, <2>4
<1> QED
  BY <1>1, <1>2, <1>3, <1>4, <1>5 DEF Next, Request
-----------------------------------------------------------------------------
(* Types *)

\* What is typed by the number of orders stays so as they grow.
LEMMA GrowsTyped ==
  ASSUME TypeOK, OrdersGrow
  PROVE  /\ api' \in Apis /\ Posts' = Posts /\ LastStatus' = LastStatus
         /\ Posts \in 1 .. 2
         /\ orders' \in Seq(Order) /\ Len(orders') <= MaxOrders
         /\ ids \in [1 .. 2 -> 0 .. Len(orders')]
         /\ evidence \in [Award -> [id : 0 .. Len(orders'),
                                   item : 0 .. Len(orders')]]
<1>1. /\ orders \in Seq(Order) /\ orders' \in Seq(Order)
      /\ Len(orders') \in Len(orders) .. MaxOrders
      /\ Len(orders) \in Nat /\ Len(orders') \in Nat
  BY HttpAssumption DEF TypeOK, OrdersGrow
<1>2. 0 .. Len(orders) \subseteq 0 .. Len(orders')
  BY <1>1
<1>3. [id : 0 .. Len(orders), item : 0 .. Len(orders)]
        \subseteq [id : 0 .. Len(orders'), item : 0 .. Len(orders')]
  BY <1>2
<1>4. Len(orders') <= MaxOrders
  BY <1>1, HttpAssumption
<1> QED
  BY <1>1, <1>2, <1>3, <1>4, HttpAssumption, PostsType
     DEF TypeOK, OrdersGrow, Posts, LastStatus

\* A method that ends leaves the types alone.
LEMMA LeaveType ==
  ASSUME TypeOK, phase # "idle", NEW how \in Outcome, Leave(how)
  PROVE  phase' = "idle" /\ outcome' \in [Award -> Outcome]
  BY DEF TypeOK, Leave

LEMMA RetryType ==
  ASSUME TypeOK, phase # "idle", NEW how \in Outcome, RetryOr(Leave(how))
  PROVE  /\ attempt' \in 1 .. MaxAttempts
         /\ phase' \in {phase, "idle"}
         /\ outcome' \in [Award -> Outcome]
  BY HttpAssumption, LeaveType DEF TypeOK, RetryOr, Leave

LEMMA AcceptType ==
  ASSUME TypeOK, phase # "idle", Accept
  PROVE  /\ attempt' \in 1 .. MaxAttempts
         /\ phase' = "monitoring"
         /\ outcome' \in [Award -> Outcome]
  BY HttpAssumption DEF TypeOK, Accept, Outcome

\* The adapter starts empty.
LEMMA InitType == Init => TypeOK
  BY HttpAssumption, PostsType DEF Init, TypeOK, NoId, Posts, Outcome

LEMMA NextType == TypeOK /\ [Next]_vars => TypeOK'
<1> SUFFICES ASSUME TypeOK, [Next]_vars PROVE TypeOK'
  OBVIOUS
<1> USE HttpAssumption
<1>1. OrdersGrow
  BY NextGrows
<1>2. /\ api' \in Apis /\ Posts' = Posts /\ Posts \in 1 .. 2
      /\ orders' \in Seq(Order) /\ Len(orders') <= MaxOrders
      /\ ids \in [1 .. 2 -> 0 .. Len(orders')]
      /\ evidence \in [Award -> [id : 0 .. Len(orders'),
                                item : 0 .. Len(orders')]]
  BY <1>1, GrowsTyped
<1>3. {"withdrawn", "raised", "delivered"} \subseteq Outcome
  BY DEF Outcome
<1>4. CASE AcceptAward
  BY <1>2, <1>4 DEF AcceptAward, TypeOK, Award
<1>5. CASE PostAnswered
  <2>1. Len(orders') = Len(orders) + 1
    BY <1>5, CreatedGrows, <1>2, <1>1 DEF PostAnswered, OrdersGrow
  <2>2. ids' \in [1 .. 2 -> 0 .. Len(orders')]
    BY <1>2, <1>5, <2>1 DEF PostAnswered, Stored, TypeOK
  <2>3. CASE step < Posts /\ step' = step + 1 /\ attempt' = 1
             /\ UNCHANGED <<phase, outcome>>
    BY <1>2, <1>5, <2>2, <2>3 DEF PostAnswered, TypeOK
  <2>4. CASE Accept /\ UNCHANGED step
    BY <1>2, <1>5, <2>2, <2>4, AcceptType DEF PostAnswered, TypeOK
  <2> QED
    BY <1>5, <2>3, <2>4 DEF PostAnswered
<1>6. CASE PostAnsweredWithoutId
  <2>1. CASE api = "DroneDeploy" /\ Leave("raised")
             /\ UNCHANGED <<ids, attempt>>
    BY <1>2, <1>3, <1>6, <2>1, LeaveType DEF PostAnsweredWithoutId, TypeOK
  <2>2. CASE ids' = Stored(NoId) /\ Accept
    <3>1. ids' \in [1 .. 2 -> 0 .. Len(orders')]
      <4>1. 0 \in 0 .. Len(orders')
        BY <1>2
      <4> QED
        BY <1>2, <2>2, <4>1 DEF Stored, NoId
    <3> QED
      BY <1>2, <1>6, <2>2, <3>1, AcceptType DEF PostAnsweredWithoutId, TypeOK
  <2> QED
    BY <1>6, <2>1, <2>2 DEF PostAnsweredWithoutId
<1>7. CASE PostUnavailable
  BY <1>2, <1>3, <1>7, RetryType DEF PostUnavailable, Withdraw, TypeOK
<1>8. CASE PostRefused \/ PostRaises
  BY <1>2, <1>3, <1>8, LeaveType DEF PostRefused, PostRaises, Withdraw, TypeOK
<1>9. CASE GetStatus
  BY <1>2, <1>9 DEF GetStatus, TypeOK
<1>10. CASE GetStatusFails
  BY <1>2, <1>3, <1>10, RetryType, LeaveType DEF GetStatusFails, TypeOK
<1>11. CASE ConfirmDelivery
  <2>1. PICK item \in FirstItem(EvidenceId) :
          evidence' = [evidence EXCEPT
                         ![award] = [id |-> EvidenceId, item |-> item]]
    BY <1>11 DEF ConfirmDelivery
  <2>2. orders' = orders /\ Len(orders) \in Nat /\ DOMAIN orders = 1 .. Len(orders)
    BY <1>11 DEF ConfirmDelivery, TypeOK
  <2>3. item \in 0 .. Len(orders) /\ EvidenceId \in 0 .. Len(orders)
    BY <2>1, <2>2 DEF FirstItem, Flights, NoId, EvidenceId, TypeOK
  <2>4. evidence' \in [Award -> [id : 0 .. Len(orders'),
                                item : 0 .. Len(orders')]]
    BY <1>2, <2>1, <2>2, <2>3
  <2> QED
    BY <1>2, <1>3, <1>11, <2>4, LeaveType DEF ConfirmDelivery, TypeOK
<1>12. CASE ConfirmDeliveryFails
  BY <1>2, <1>3, <1>12, RetryType, LeaveType DEF ConfirmDeliveryFails, TypeOK
<1>13. CASE Restart
  <2>1. ids' \in [1 .. 2 -> 0 .. Len(orders')]
    BY <1>2, <1>13 DEF Restart, NoId
  <2>2. outcome' \in [Award -> Outcome]
    BY <1>3, <1>13 DEF Restart, TypeOK
  <2> QED
    BY <1>2, <1>13, <2>1, <2>2 DEF Restart, TypeOK
<1>14. CASE Partner
  BY <1>2, <1>14 DEF Partner, PartnerFlies, PartnerStops, TypeOK
<1>15. CASE UNCHANGED vars
  BY <1>2, <1>15 DEF vars, TypeOK
<1> QED
  BY <1>4, <1>5, <1>6, <1>7, <1>8, <1>9, <1>10, <1>11, <1>12, <1>13, <1>14,
     <1>15 DEF Next, Request
-----------------------------------------------------------------------------
(* The ids on the adapter *)

\* What was placed for an award stays placed for it.
LEMMA PlacedStays ==
  ASSUME TypeOK, OrdersGrow
  PROVE  \A a, k, id : PlacedFor(a, k, id) =>
           /\ id \in DOMAIN orders' /\ id \in DOMAIN orders
           /\ orders'[id].award = a
           /\ orders'[id].kind = k
           /\ orders'[id].project = orders[id].project
<1>1. /\ DOMAIN orders = 1 .. Len(orders) /\ DOMAIN orders' = 1 .. Len(orders')
      /\ Len(orders) \in Nat /\ Len(orders') \in Nat
      /\ Len(orders) <= Len(orders')
  BY HttpAssumption DEF TypeOK, OrdersGrow
<1> QED
  BY <1>1 DEF OrdersGrow, PlacedFor

\* What a POST that is acted on places is placed for the award in hand.
LEMMA CreatedPlaced ==
  ASSUME TypeOK, phase = "placing", Len(orders) < MaxOrders,
         orders' = Created, api' = api
  PROVE  /\ Len(orders) + 1 \in DOMAIN orders'
         /\ orders'[Len(orders) + 1].award = award
         /\ orders'[Len(orders) + 1].kind = step
         /\ step = 2 => orders'[Len(orders) + 1].project = EvidenceId
         /\ DOMAIN orders' = DOMAIN orders \cup {Len(orders) + 1}
<1>1. /\ orders \in Seq(Order) /\ Len(orders') = Len(orders) + 1
      /\ orders' \in Seq(Order) /\ Len(orders) \in Nat
      /\ orders'[Len(orders) + 1] = NewOrder
  BY CreatedGrows DEF TypeOK, OrdersGrow
<1> QED
  BY <1>1 DEF NewOrder

LEMMA ProjectStep ==
  ASSUME TypeOK, OrdersGrow, ProjectOfAward, [Next]_vars
  PROVE  ProjectOfAward'
<1> SUFFICES ASSUME phase' = "placing", step' = 2
             PROVE  PlacedFor(award, 1, EvidenceId)'
  BY DEF ProjectOfAward
<1>1. CASE PostAnswered
  <2>1. step = 1
    BY <1>1 DEF PostAnswered, Accept, TypeOK, Posts
  <2>2. EvidenceId' = Len(orders) + 1
    BY <1>1, <2>1 DEF PostAnswered, Stored, EvidenceId, TypeOK
  <2> QED
    BY <1>1, <2>1, <2>2, CreatedPlaced DEF PostAnswered, PlacedFor
<1>2. CASE PostUnavailable \/ Partner \/ UNCHANGED vars
  <2>1. phase = "placing" /\ step = 2 /\ award' = award /\ ids' = ids
    BY <1>2 DEF PostUnavailable, RetryOr, Withdraw, Leave, Partner,
       PartnerFlies, PartnerStops, vars
  <2> QED
    BY <2>1, PlacedStays DEF ProjectOfAward, PlacedFor, EvidenceId
<1>3. CASE ~PostAnswered /\ ~PostUnavailable /\ ~Partner /\ ~UNCHANGED vars
  BY <1>3 DEF Next, Request, AcceptAward, PostAnsweredWithoutId, PostRefused,
     PostRaises, GetStatus, GetStatusFails, ConfirmDelivery,
     ConfirmDeliveryFails, Restart, Leave, Withdraw, Accept, RetryOr
<1> QED
  BY <1>1, <1>2, <1>3

\* COMPLETE is what the adapters make of the partners' last status and of no
\* other.
LEMMA CompleteIsLast ==
  ASSUME NEW status \in Status, ReportedStatus(status) = "COMPLETE"
  PROVE  status = LastStatus
<1>1. CASE api = "DroneDeploy"
  BY <1>1 DEF ReportedStatus, StatusMap, DroneDeployStatusMap, LastStatus
<1>2. CASE api # "DroneDeploy"
  BY <1>2 DEF ReportedStatus, StatusMap, SkydioStatusMap, LastStatus
<1> QED
  BY <1>1, <1>2

\* While an award is polled and confirmed.
IdsInv == StatusOfAward /\ IdsBelongTogether /\ ConfirmsCompleted

\* Polling starts with the ids of what was just placed.
LEMMA AcceptedIds ==
  ASSUME TypeOK, OrdersGrow, ProjectOfAward, IdsInv,
         PostAnswered \/ PostAnsweredWithoutId
  PROVE  IdsInv'
<1>1. /\ api' = api /\ Posts' = Posts /\ Posts \in 1 .. 2
      /\ phase' # "confirming" /\ award' = award
      /\ ids \in [1 .. 2 -> 0 .. Len(orders)] /\ step \in 1 .. Posts
  BY HttpAssumption, GrowsTyped
     DEF PostAnswered, PostAnsweredWithoutId, Accept, Leave, TypeOK
<1> SUFFICES ASSUME phase' = "monitoring"
             PROVE  StatusOfAward' /\ IdsBelongTogether'
  BY <1>1 DEF IdsInv, StatusOfAward, IdsBelongTogether, ConfirmsCompleted
<1>2. CASE PostAnswered
  <2>1. /\ step = Posts /\ ids' = [ids EXCEPT ![Posts] = Len(orders) + 1]
        /\ phase = "placing" /\ Len(orders) < MaxOrders /\ orders' = Created
    BY <1>2 DEF PostAnswered, Stored
  <2>2. StatusId' = Len(orders) + 1
    BY <1>1, <2>1 DEF StatusId
  <2>3. CASE Posts = 1
    BY <1>1, <2>1, <2>3, CreatedPlaced
       DEF StatusOfAward, IdsBelongTogether, PlacedFor
  <2>4. CASE Posts = 2
    <3>1. PlacedFor(award, 1, EvidenceId)
      BY <2>1, <2>4 DEF ProjectOfAward
    <3>2. ids'[1] = ids[1] /\ ids'[2] = Len(orders) + 1
      BY <1>1, <2>1, <2>4
    <3>3. PlacedFor(award, 1, ids[1])' /\ PlacedFor(award, 2, ids[2])'
      BY <1>1, <2>1, <2>4, <3>1, <3>2, PlacedStays, CreatedPlaced
         DEF PlacedFor, EvidenceId
    <3>4. orders'[StatusId'].project = EvidenceId'
      BY <1>1, <2>1, <2>2, <2>4, <3>2, CreatedPlaced DEF EvidenceId
    <3>5. (\A k \in 1 .. Posts : PlacedFor(award, k, ids[k]))'
      BY <1>1, <2>4, <3>3 DEF PlacedFor
    <3> QED
      BY <3>4, <3>5 DEF StatusOfAward, IdsBelongTogether
  <2> QED
    BY <1>1, <2>3, <2>4
<1>3. CASE PostAnsweredWithoutId
  <2>1. api = "Skydio" /\ ids' = [ids EXCEPT ![step] = NoId]
    BY <1>3 DEF PostAnsweredWithoutId, Leave, Stored
  <2>2. Posts = 1 /\ step = 1
    BY <1>1, <2>1 DEF Posts
  <2> QED
    BY <1>1, <2>1, <2>2 DEF StatusOfAward, IdsBelongTogether
<1> QED
  BY <1>2, <1>3

\* A round of polling, and whatever the partner does meanwhile, leaves them.
LEMMA PolledIds ==
  ASSUME TypeOK, OrdersGrow, IdsInv, TypeOK',
         award' = award, ids' = ids,
         \/ phase' = phase
         \/ GetStatus
  PROVE  IdsInv'
<1>1. /\ api' = api /\ Posts' = Posts /\ Posts \in 1 .. 2
      /\ LastStatus' = LastStatus
      /\ DOMAIN orders = 1 .. Len(orders) /\ Len(orders) \in Nat
      /\ ids \in [1 .. 2 -> 0 .. Len(orders)]
  BY HttpAssumption, GrowsTyped DEF TypeOK, OrdersGrow
<1> SUFFICES ASSUME phase' \in {"monitoring", "confirming"}
             PROVE  IdsInv'
  BY DEF IdsInv, StatusOfAward, IdsBelongTogether, ConfirmsCompleted
<1>2. phase \in {"monitoring", "confirming"}
  BY DEF GetStatus
<1>3. StatusOfAward'
  <2>1. ASSUME NEW k \in 1 .. Posts, ids[k] = NoId, api = "Skydio",
               phase = "monitoring"
        PROVE  phase' = "monitoring"
    <3>1. k = Posts
      BY <2>1 DEF Posts
    <3> QED
      BY <2>1, <3>1 DEF GetStatus, StatusId
  <2>2. \A k \in 1 .. Posts :
          \/ PlacedFor(award, k, ids[k])
          \/ ids[k] = NoId /\ api = "Skydio" /\ phase' = "monitoring"
    BY <1>2, <2>1 DEF IdsInv, StatusOfAward
  <2> QED
    BY <1>1, <2>2, PlacedStays DEF StatusOfAward, PlacedFor
<1>4. IdsBelongTogether'
  <2> SUFFICES ASSUME Posts = 2
               PROVE  orders'[StatusId'].project = EvidenceId'
    BY <1>1 DEF IdsBelongTogether
  <2>1. api # "Skydio"
    BY DEF Posts
  <2>2. PlacedFor(award, 2, ids[2])
    BY <1>2, <2>1 DEF IdsInv, StatusOfAward
  <2>3. orders'[ids[2]].project = orders[ids[2]].project
    BY <2>2, PlacedStays
  <2> QED
    BY <1>1, <1>2, <2>3 DEF IdsInv, IdsBelongTogether, StatusId, EvidenceId
<1>5. ConfirmsCompleted'
  <2> SUFFICES ASSUME phase' = "confirming"
               PROVE  orders'[StatusId].status = LastStatus
    BY <1>1 DEF ConfirmsCompleted, StatusId
  <2>1. CASE GetStatus
    <3>1. ReportedStatus(orders'[StatusId].status) = "COMPLETE"
      <4>1. phase' = IF ReportedStatus(orders'[StatusId'].status) = "COMPLETE"
                     THEN "confirming" ELSE "monitoring"
        BY <1>1, <2>1 DEF GetStatus, StatusId
      <4> QED
        BY <1>1, <2>1, <4>1 DEF GetStatus, StatusId, ReportedStatus, StatusMap
    <3>2. StatusId \in 1 .. Len(orders') /\ orders' \in Seq(Order)
      <4>1. StatusId \in 1 .. Len(orders)
        BY <2>1, StatusIdType DEF GetStatus
      <4> QED
        BY <1>1, <4>1, HttpAssumption DEF OrdersGrow
    <3>3. orders'[StatusId].status \in Status
      <4>1. orders'[StatusId] \in Order
        BY <3>2
      <4> QED
        BY <4>1 DEF Order
    <3> QED
      BY <3>1, <3>3, CompleteIsLast
  <2>2. CASE phase' = phase
    <3>1. PlacedFor(award, Posts, StatusId)
      BY <1>1, <2>2 DEF IdsInv, StatusOfAward, StatusId
    <3>2. orders[StatusId].status = LastStatus
      BY <2>2 DEF IdsInv, ConfirmsCompleted
    <3> QED
      BY <1>1, <3>1, <3>2 DEF OrdersGrow, PlacedFor
  <2> QED
    BY <2>1, <2>2
<1> QED
  BY <1>3, <1>4, <1>5 DEF IdsInv

LEMMA IdsStep ==
  ASSUME TypeOK, OrdersGrow, TypeOK', ProjectOfAward, IdsInv, [Next]_vars
  PROVE  IdsInv'
<1>1. CASE PostAnswered \/ PostAnsweredWithoutId
  BY <1>1, AcceptedIds
<1>2. CASE GetStatus \/ Partner \/ UNCHANGED vars
  BY <1>2, PolledIds
     DEF GetStatus, Partner, PartnerFlies, PartnerStops, vars
<1>3. CASE PostUnavailable \/ GetStatusFails \/ ConfirmDeliveryFails
  <2>1. award' = award /\ ids' = ids /\ (phase' = phase \/ phase' = "idle")
    BY <1>3 DEF PostUnavailable, GetStatusFails, ConfirmDeliveryFails, RetryOr,
       Withdraw, Leave
  <2>2. CASE phase' = "idle"
    BY <2>2 DEF IdsInv, StatusOfAward, IdsBelongTogether, ConfirmsCompleted
  <2> QED
    BY <2>1, <2>2, PolledIds
<1>4. CASE AcceptAward \/ PostRefused \/ PostRaises \/ ConfirmDelivery \/ Restart
  <2>1. phase' \in {"idle", "placing"}
    BY <1>4 DEF AcceptAward, PostRefused, PostRaises, ConfirmDelivery, Restart,
       Withdraw, Leave
  <2> QED
    BY <2>1 DEF IdsInv, StatusOfAward, IdsBelongTogether, ConfirmsCompleted
<1> QED
  BY <1>1, <1>2, <1>3, <1>4 DEF Next, Request
-----------------------------------------------------------------------------
(* What the partner holds, and what is on record of it *)

\* A POST adds what it asks for; nothing else changes how much there is.
LEMMA NextOrders ==
  ASSUME TypeOK, [Next]_vars
  PROVE  \/ phase = "placing" /\ Len(orders) < MaxOrders /\ orders' = Created
         \/ DOMAIN orders' = DOMAIN orders
<1>1. DOMAIN orders = 1 .. Len(orders)
  BY DEF TypeOK
<1>2. CASE AcceptAward \/ PostRefused \/ ConfirmDelivery
           \/ ConfirmDeliveryFails \/ Restart \/ UNCHANGED vars
  BY <1>2 DEF AcceptAward, PostRefused, ConfirmDelivery, ConfirmDeliveryFails,
     Restart, vars
<1>3. CASE PostAnswered \/ PostAnsweredWithoutId \/ PostUnavailable \/ PostRaises
  BY <1>3 DEF PostAnswered, PostAnsweredWithoutId, PostUnavailable, PostRaises
<1>4. CASE GetStatus \/ GetStatusFails
  BY <1>4 DEF GetStatus, GetStatusFails, Polled
<1>5. CASE Partner
  BY <1>5 DEF Partner, PartnerFlies, PartnerStops
<1> QED
  BY <1>2, <1>3, <1>4, <1>5 DEF Next, Request

LEMMA MissionStep ==
  ASSUME TypeOK, OrdersGrow, ProjectOfAward, MissionInOwnProject, [Next]_vars
  PROVE  MissionInOwnProject'
<1> SUFFICES ASSUME NEW o \in DOMAIN orders', orders'[o].kind = 2
             PROVE  PlacedFor(orders[o].award, 1, orders[o].project)'
  BY DEF MissionInOwnProject
<1>1. ASSUME o \in DOMAIN orders
      PROVE  PlacedFor(orders[o].award, 1, orders[o].project)'
  <2>1. /\ orders'[o].award = orders[o].award
        /\ orders'[o].kind = orders[o].kind
        /\ orders'[o].project = orders[o].project
    BY <1>1 DEF OrdersGrow, TypeOK
  <2>2. PlacedFor(orders[o].award, 1, orders[o].project)
    BY <1>1, <2>1 DEF MissionInOwnProject
  <2> QED
    BY <2>1, <2>2, PlacedStays DEF PlacedFor
<1>2. ASSUME o \notin DOMAIN orders
      PROVE  PlacedFor(orders[o].award, 1, orders[o].project)'
  <2>1. phase = "placing" /\ Len(orders) < MaxOrders /\ orders' = Created
    BY <1>2, NextOrders
  <2>2. /\ orders'[o].award = award /\ step = 2
        /\ orders'[o].project = EvidenceId
    BY <1>2, <2>1, CreatedPlaced DEF OrdersGrow
  <2>3. PlacedFor(award, 1, EvidenceId)
    BY <2>1, <2>2 DEF ProjectOfAward
  <2> QED
    BY <2>2, <2>3, PlacedStays DEF PlacedFor
<1> QED
  BY <1>1, <1>2

\* The two ways an award comes to be on record as accepted or delivered in a
\* step, besides having been so before.
LEMMA NextOutcome ==
  ASSUME TypeOK, [Next]_vars, NEW a \in Award,
         outcome'[a] \in {"accepted", "delivered"}
  PROVE  \/ outcome'[a] = outcome[a] /\ evidence'[a] = evidence[a]
         \/ a = award /\ outcome'[a] = "delivered" /\ ConfirmDelivery
         \/ /\ a = award /\ outcome'[a] = "accepted"
            /\ \/ PostAnswered /\ step = Posts
               \/ PostAnsweredWithoutId /\ api = "Skydio"
<1>1. outcome \in [Award -> Outcome] /\ evidence \in
        [Award -> [id : 0 .. Len(orders), item : 0 .. Len(orders)]]
  BY DEF TypeOK
<1>2. ASSUME NEW how \in Outcome, Leave(how), how # "delivered",
             how # "accepted"
      PROVE  outcome'[a] = outcome[a]
  BY <1>1, <1>2 DEF Leave
<1>3. CASE AcceptAward \/ GetStatus \/ Partner \/ UNCHANGED vars
  BY <1>3 DEF AcceptAward, GetStatus, Partner, PartnerFlies, PartnerStops, vars
<1>4. CASE PostRefused \/ PostRaises
  BY <1>2, <1>4 DEF PostRefused, PostRaises, Withdraw, Outcome
<1>5. CASE PostUnavailable \/ GetStatusFails \/ ConfirmDeliveryFails
  BY <1>2, <1>5 DEF PostUnavailable, GetStatusFails, ConfirmDeliveryFails,
     RetryOr, Withdraw, Outcome
<1>6. CASE Restart
  BY <1>1, <1>6 DEF Restart
<1>7. CASE ConfirmDelivery
  BY <1>1, <1>7 DEF ConfirmDelivery, Leave
<1>8. CASE PostAnswered
  BY <1>1, <1>8 DEF PostAnswered, Accept
<1>9. CASE PostAnsweredWithoutId
  BY <1>1, <1>2, <1>9 DEF PostAnsweredWithoutId, Accept, Outcome
<1> QED
  BY <1>3, <1>4, <1>5, <1>6, <1>7, <1>8, <1>9 DEF Next, Request

\* At confirmation the ids are known, and belong to the award in hand.
LEMMA ConfirmingIds ==
  ASSUME TypeOK, IdsInv, phase = "confirming"
  PROVE  /\ PlacedFor(award, 1, EvidenceId)
         /\ PlacedFor(award, Posts, StatusId)
         /\ StatusId \in Flights(EvidenceId)
<1>1. Posts \in 1 .. 2
  BY HttpAssumption, PostsType DEF TypeOK
<1>2. PlacedFor(award, 1, EvidenceId) /\ PlacedFor(award, Posts, StatusId)
  BY <1>1 DEF IdsInv, StatusOfAward, EvidenceId, StatusId
<1>3. orders[StatusId].status = LastStatus
  BY DEF IdsInv, ConfirmsCompleted
<1>4. (IF Posts = 2 THEN orders[StatusId].project ELSE StatusId) = EvidenceId
  BY <1>1 DEF IdsInv, IdsBelongTogether, StatusId, EvidenceId
<1> QED
  BY <1>2, <1>3, <1>4 DEF Flights, PlacedFor

\* A completed flight stays one, of the same project or order.
LEMMA FlightsStay ==
  ASSUME TypeOK, OrdersGrow
  PROVE  \A id, o : o \in Flights(id) =>
           /\ o \in DOMAIN orders /\ o \in DOMAIN orders'
           /\ orders'[o].award = orders[o].award
           /\ orders'[o].kind = Posts'
           /\ orders'[o].status = LastStatus'
           /\ (IF Posts' = 2 THEN orders'[o].project ELSE o) = id
<1>1. /\ DOMAIN orders = 1 .. Len(orders) /\ DOMAIN orders' = 1 .. Len(orders')
      /\ Len(orders) \in Nat /\ Len(orders') \in Nat
      /\ Len(orders) <= Len(orders')
      /\ Posts' = Posts /\ LastStatus' = LastStatus
  BY HttpAssumption, GrowsTyped DEF TypeOK, OrdersGrow
<1> QED
  BY <1>1 DEF OrdersGrow, Flights

\* All flights of a project, and the one of an order, are of its award.
LEMMA FlightOfAward ==
  ASSUME TypeOK, MissionInOwnProject,
         NEW a, NEW id, NEW o \in Flights(id), PlacedFor(a, 1, id)
  PROVE  orders[o].award = a
<1>1. Posts \in 1 .. 2
  BY HttpAssumption, PostsType DEF TypeOK
<1>2. CASE Posts = 1
  BY <1>2 DEF Flights, PlacedFor
<1>3. CASE Posts = 2
  BY <1>3 DEF Flights, PlacedFor, MissionInOwnProject
<1> QED
  BY <1>1, <1>2, <1>3

LEMMA EvidenceStep ==
  ASSUME TypeOK, OrdersGrow, IdsInv, MissionInOwnProject, EvidenceOfAward,
         [Next]_vars
  PROVE  EvidenceOfAward'
<1> DEFINE Holds(a, e) ==
      /\ PlacedFor(a, 1, e.id)
      /\ \E o \in Flights(e.id) : orders[o].award = a
      /\ e.item # NoId => e.item \in Flights(e.id) /\ orders[e.item].award = a
<1>1. \A a, e : Holds(a, e) => Holds(a, e)'
  <2> SUFFICES ASSUME NEW a, NEW e, Holds(a, e) PROVE Holds(a, e)'
    OBVIOUS
  <2>1. PlacedFor(a, 1, e.id)'
    BY PlacedStays DEF PlacedFor
  <2>2. \A o \in Flights(e.id) :
          o \in Flights(e.id)' /\ orders'[o].award = orders[o].award
    BY FlightsStay DEF Flights
  <2> QED
    BY <2>1, <2>2
<1> SUFFICES ASSUME NEW a \in Award, outcome'[a] = "delivered"
             PROVE  \E e : e = evidence'[a] /\ Holds(a, e)'
  BY DEF EvidenceOfAward
<1>2. CASE outcome'[a] = outcome[a] /\ evidence'[a] = evidence[a]
  <2>1. Holds(a, evidence[a])
    BY <1>2 DEF EvidenceOfAward
  <2> HIDE DEF Holds
  <2>2. \E e : e = evidence[a] /\ Holds(a, e)
    BY <2>1
  <2> QED
    BY <1>1, <1>2, <2>2
<1>3. CASE a = award /\ ConfirmDelivery
  <2>1. PICK item \in FirstItem(EvidenceId) :
          evidence' = [evidence EXCEPT
                         ![award] = [id |-> EvidenceId, item |-> item]]
    BY <1>3 DEF ConfirmDelivery
  <2> DEFINE e == [id |-> EvidenceId, item |-> item]
  <2>2. evidence'[a] = e
    BY <1>3, <2>1 DEF TypeOK
  <2>3. /\ PlacedFor(award, 1, EvidenceId)
        /\ PlacedFor(award, Posts, StatusId)
        /\ StatusId \in Flights(EvidenceId)
    BY <1>3, ConfirmingIds DEF ConfirmDelivery
  <2>4. item # NoId => item \in Flights(EvidenceId)
    BY DEF FirstItem
  <2>5. item # NoId => orders[item].award = award
    BY <2>3, <2>4, FlightOfAward
  <2>6. Holds(award, e)
    BY <2>3, <2>4, <2>5 DEF PlacedFor
  <2> HIDE DEF Holds
  <2>7. \E f : f = evidence'[a] /\ Holds(a, f)
    BY <1>3, <2>2, <2>6
  <2> QED
    BY <1>1, <2>7
<1> QED
  BY <1>2, <1>3, NextOutcome

-----------------------------------------------------------------------------
(* Duplicates: what the retries of a POST leave behind *)

PlacedSet(a, k) == {o \in DOMAIN orders : PlacedFor(a, k, o)}

\* Each request of a POST leaves at most one order behind, and the attempts are
\* counted: before the request under way there are fewer than attempts.
AttemptsCounted ==
  /\ \A o \in DOMAIN orders : orders[o].award <= award
  /\ phase = "placing" =>
       /\ Cardinality(PlacedSet(award, step)) < attempt
       /\ \A o \in DOMAIN orders :
            orders[o].award = award => orders[o].kind <= step

\* The inductive invariant behind DuplicatesBounded.
DuplicatesInv == AttemptsCounted /\ DuplicatesBounded

LEMMA PlacedFinite ==
  ASSUME TypeOK, NEW a, NEW k
  PROVE  IsFiniteSet(PlacedSet(a, k)) /\ Cardinality(PlacedSet(a, k)) \in Nat
<1>1. DOMAIN orders = 1 .. Len(orders) /\ Len(orders) \in Nat
  BY DEF TypeOK
<1>2. IsFiniteSet(1 .. Len(orders))
  BY <1>1, FS_Interval
<1> QED
  BY <1>1, <1>2, FS_Subset, FS_CardinalityType DEF PlacedSet

\* Without a new order nobody has more, or less, than before.
LEMMA PlacedSame ==
  ASSUME TypeOK, OrdersGrow, DOMAIN orders' = DOMAIN orders
  PROVE  \A a, k : PlacedSet(a, k)' = PlacedSet(a, k)
  BY DEF PlacedSet, PlacedFor, OrdersGrow, TypeOK

\* A new order is one more for the POST under way.
LEMMA PlacedMore ==
  ASSUME TypeOK, OrdersGrow, phase = "placing", Len(orders) < MaxOrders,
         orders' = Created,
         NEW a, NEW k
  PROVE  IF a = award /\ k = step
         THEN Cardinality(PlacedSet(a, k)') = Cardinality(PlacedSet(a, k)) + 1
         ELSE PlacedSet(a, k)' = PlacedSet(a, k)
<1> DEFINE new == Len(orders) + 1
<1>1. /\ DOMAIN orders = 1 .. Len(orders) /\ Len(orders) \in Nat
      /\ DOMAIN orders' = DOMAIN orders \cup {new}
      /\ new \notin DOMAIN orders
      /\ orders'[new].award = award
      /\ orders'[new].kind = step
  BY CreatedPlaced DEF TypeOK, OrdersGrow
<1>2. \A o \in DOMAIN orders :
        orders'[o].award = orders[o].award /\ orders'[o].kind = orders[o].kind
  BY <1>1 DEF OrdersGrow
<1> HIDE DEF new
<1>3. CASE a = award /\ k = step
  <2>1. PlacedSet(a, k)' = PlacedSet(a, k) \cup {new}
    BY <1>1, <1>2, <1>3 DEF PlacedSet, PlacedFor
  <2>2. new \notin PlacedSet(a, k)
    BY <1>1 DEF PlacedSet
  <2> QED
    BY <1>3, <2>1, <2>2, PlacedFinite, FS_AddElement
<1>4. CASE ~(a = award /\ k = step)
  <2>1. PlacedSet(a, k)' = PlacedSet(a, k)
    BY <1>1, <1>2, <1>4 DEF PlacedSet, PlacedFor
  <2> QED
    BY <1>4, <2>1
<1> QED
  BY <1>3, <1>4

\* What a step does to the count of a POST: a new order costs an attempt, and
\* the first attempt of a POST finds none of its own.
LEMMA PlacingSteps ==
  ASSUME TypeOK, TypeOK', [Next]_vars, phase' = "placing"
  PROVE  \/ /\ award' = award + 1 /\ step' = 1 /\ attempt' = 1
            /\ orders' = orders
         \/ /\ award' = award /\ step' = step + 1 /\ attempt' = 1
            /\ phase = "placing"
         \/ /\ award' = award /\ step' = step /\ phase = "placing"
            /\ \/ attempt' = attempt + 1
               \/ attempt' = attempt /\ DOMAIN orders' = DOMAIN orders
  BY DEF TypeOK, Next, Request, AcceptAward, PostAnswered,
     PostAnsweredWithoutId, PostUnavailable, PostRefused, PostRaises,
     GetStatus, GetStatusFails, ConfirmDelivery, ConfirmDeliveryFails, Restart,
     Partner, PartnerFlies, PartnerStops, RetryOr, Withdraw, Leave, Accept,
     vars

LEMMA AwardSteps ==
  ASSUME TypeOK, [Next]_vars
  PROVE  award' \in {award, award + 1}
  BY DEF Next, Request, AcceptAward, PostAnswered,
     PostAnsweredWithoutId, PostUnavailable, PostRefused, PostRaises,
     GetStatus, GetStatusFails, ConfirmDelivery, ConfirmDeliveryFails, Restart,
     Partner, PartnerFlies, PartnerStops, vars

LEMMA BoundedStep ==
  ASSUME TypeOK, TypeOK', OrdersGrow, DuplicatesInv, [Next]_vars
  PROVE  DuplicatesBounded'
<1> SUFFICES ASSUME NEW a \in Award, NEW k \in 1 .. 2
             PROVE  Cardinality(PlacedSet(a, k)') <= MaxAttempts
  BY DEF DuplicatesBounded, PlacedSet
<1>1. Cardinality(PlacedSet(a, k)) <= MaxAttempts
  BY DEF DuplicatesInv, DuplicatesBounded, PlacedSet
<1>2. CASE DOMAIN orders' = DOMAIN orders
  BY <1>1, <1>2, PlacedSame
<1>3. CASE phase = "placing" /\ Len(orders) < MaxOrders /\ orders' = Created
  <2>1. CASE a = award /\ k = step
    <3>1. Cardinality(PlacedSet(a, k)) < attempt /\ attempt \in 1 .. MaxAttempts
      BY <1>3, <2>1 DEF DuplicatesInv, AttemptsCounted, TypeOK
    <3> QED
      BY <1>3, <2>1, <3>1, PlacedMore, PlacedFinite, HttpAssumption
  <2>2. CASE ~(a = award /\ k = step)
    BY <1>1, <1>3, <2>2, PlacedMore
  <2> QED
    BY <2>1, <2>2
<1> QED
  BY <1>2, <1>3, NextOrders

\* No order is of a later award, nor of a later POST of the award in hand.
LEMMA AheadStep ==
  ASSUME TypeOK, TypeOK', OrdersGrow, AttemptsCounted, [Next]_vars,
         NEW o \in DOMAIN orders'
  PROVE  /\ orders'[o].award <= award /\ award <= award'
         /\ phase = "placing" /\ orders'[o].award = award =>
              orders'[o].kind <= step
<1>1. award \in Nat /\ award <= award' /\ step \in Nat
  BY AwardSteps, HttpAssumption, PostsType DEF TypeOK
<1>2. CASE o \in DOMAIN orders
  <2>1. o \in 1 .. Len(orders)
    <3>1. orders \in Seq(Order)
      BY DEF TypeOK
    <3> QED
      BY <1>2, <3>1
  <2>2. /\ orders'[o].award = orders[o].award
        /\ orders'[o].kind = orders[o].kind
    BY <2>1 DEF OrdersGrow
  <2>3. /\ orders[o].award <= award
        /\ phase = "placing" /\ orders[o].award = award =>
             orders[o].kind <= step
    BY <1>2 DEF AttemptsCounted
  <2> QED
    BY <1>1, <2>2, <2>3
<1>3. CASE o \notin DOMAIN orders
  BY <1>1, <1>3, NextOrders, CreatedPlaced DEF OrdersGrow
<1> QED
  BY <1>2, <1>3

LEMMA CountedStep ==
  ASSUME TypeOK, TypeOK', OrdersGrow, DuplicatesInv, [Next]_vars
  PROVE  AttemptsCounted'
<1>1. AttemptsCounted
  BY DEF DuplicatesInv
<1>2. /\ award \in Nat /\ award' \in Nat /\ step \in Nat /\ step' \in Nat
      /\ attempt \in Nat /\ attempt' \in Nat
      /\ DOMAIN orders' = 1 .. Len(orders') /\ orders' \in Seq(Order)
  BY HttpAssumption, PostsType DEF TypeOK
<1>3. \A o \in DOMAIN orders' :
        /\ orders'[o].award <= award /\ award <= award'
        /\ phase = "placing" /\ orders'[o].award = award =>
             orders'[o].kind <= step
  BY <1>1, AheadStep
<1>4. \A o \in DOMAIN orders' : orders'[o].award \in Nat /\ orders'[o].kind \in Nat
  <2> SUFFICES ASSUME NEW o \in DOMAIN orders'
               PROVE  orders'[o].award \in Nat /\ orders'[o].kind \in Nat
    OBVIOUS
  <2>1. orders'[o] \in Order
    BY <1>2
  <2> QED
    BY <2>1, HttpAssumption DEF Order, Award
<1>5. \A o \in DOMAIN orders' : orders'[o].award <= award'
  BY <1>2, <1>3, <1>4
<1>6. ASSUME phase' = "placing", NEW a, NEW k, a = award', k = step'
      PROVE  /\ Cardinality(PlacedSet(a, k)') < attempt'
             /\ \A o \in DOMAIN orders' :
                  orders'[o].award = a => orders'[o].kind <= k
  <2>1. ASSUME \A o \in DOMAIN orders' :
                 ~(orders'[o].award = a /\ orders'[o].kind = k)
        PROVE  Cardinality(PlacedSet(a, k)') = 0
    <3>1. PlacedSet(a, k)' = {}
      BY <2>1 DEF PlacedSet, PlacedFor
    <3> QED
      BY <3>1, FS_EmptySet
  <2>2. CASE award' = award + 1 /\ attempt' = 1
    <3>1. \A o \in DOMAIN orders' : orders'[o].award # a
      BY <1>2, <1>3, <1>4, <1>6, <2>2
    <3> QED
      BY <2>1, <2>2, <3>1
  <2>3. CASE /\ award' = award /\ step' = step + 1 /\ attempt' = 1
             /\ phase = "placing"
    <3>1. \A o \in DOMAIN orders' :
            orders'[o].award = a => orders'[o].kind <= step /\ step < k
      BY <1>2, <1>3, <1>6, <2>3
    <3>2. \A o \in DOMAIN orders' :
            orders'[o].award = a => orders'[o].kind < k
      BY <1>2, <1>4, <1>6, <3>1
    <3>3. \A o \in DOMAIN orders' :
            orders'[o].award = a =>
              orders'[o].kind # k /\ orders'[o].kind <= k
      BY <1>2, <1>4, <1>6, <3>2
    <3> QED
      BY <2>1, <2>3, <3>3
  <2>4. CASE /\ award' = award /\ step' = step /\ phase = "placing"
             /\ \/ attempt' = attempt + 1
                \/ attempt' = attempt /\ DOMAIN orders' = DOMAIN orders
    <3>1. Cardinality(PlacedSet(a, k)) < attempt
      BY <1>1, <1>6, <2>4 DEF AttemptsCounted
    <3>2. Cardinality(PlacedSet(a, k)) \in Nat
      BY PlacedFinite
    <3>3. CASE DOMAIN orders' = DOMAIN orders
      <4>1. PlacedSet(a, k)' = PlacedSet(a, k)
        BY <3>3, PlacedSame
      <4> QED
        BY <1>2, <1>3, <1>6, <2>4, <3>1, <3>2, <4>1
    <3>4. CASE DOMAIN orders' # DOMAIN orders
      <4>1. Cardinality(PlacedSet(a, k)') = Cardinality(PlacedSet(a, k)) + 1
        BY <1>6, <2>4, <3>4, NextOrders, PlacedMore
      <4> QED
        BY <1>2, <1>3, <1>6, <2>4, <3>1, <3>2, <3>4, <4>1
    <3> QED
      BY <3>3, <3>4
  <2> QED
    BY <1>6, <2>2, <2>3, <2>4, PlacingSteps
<1>7. ASSUME phase' = "placing"
      PROVE  /\ Cardinality(PlacedSet(award, step))' < attempt'
             /\ \A o \in DOMAIN orders' :
                  orders'[o].award = award' => orders'[o].kind <= step'
  <2>1. PICK a, k : a = award' /\ k = step'
    OBVIOUS
  <2>2. PlacedSet(a, k)' = PlacedSet(award, step)'
    BY <2>1 DEF PlacedSet, PlacedFor
  <2> QED
    BY <1>6, <1>7, <2>1, <2>2
<1> QED
  BY <1>5, <1>7 DEF AttemptsCounted

-----------------------------------------------------------------------------
(* Theorems *)

LEMMA InitHttpInv == Init => HttpInv
<1> SUFFICES ASSUME Init PROVE HttpInv
  OBVIOUS
<1>1. ProjectOfAward /\ StatusOfAward /\ IdsBelongTogether /\ ConfirmsCompleted
  BY DEF Init, ProjectOfAward, StatusOfAward, IdsBelongTogether,
     ConfirmsCompleted
<1>2. MissionInOwnProject /\ EvidenceOfAward
  BY DEF Init, MissionInOwnProject, EvidenceOfAward
<1> QED
  BY <1>1, <1>2, InitType DEF HttpInv

LEMMA NextHttpInv == HttpInv /\ [Next]_vars => HttpInv'
<1> SUFFICES ASSUME HttpInv, [Next]_vars PROVE HttpInv'
  OBVIOUS
<1>1. TypeOK' /\ OrdersGrow
  BY NextType, NextGrows DEF HttpInv
<1>2. ProjectOfAward'
  BY <1>1, ProjectStep DEF HttpInv
<1>3. StatusOfAward' /\ IdsBelongTogether' /\ ConfirmsCompleted'
  BY <1>1, IdsStep DEF HttpInv, IdsInv
<1>4. MissionInOwnProject'
  BY <1>1, MissionStep DEF HttpInv
<1>5. EvidenceOfAward'
  BY <1>1, EvidenceStep DEF HttpInv, IdsInv
<1> QED
  BY <1>1, <1>2, <1>3, <1>4, <1>5 DEF HttpInv

LEMMA HttpInvHolds == Spec => []HttpInv
  BY InitHttpInv, NextHttpInv, PTL DEF Spec

\* Status and evidence are asked of the award in hand, whatever earlier awards
\* left on the adapter: DroneDeployProducer and SkydioProducer may ignore the
\* award_id they are given.
THEOREM StatusIsOfAward == Spec => []StatusOfAward
<1>1. HttpInv => StatusOfAward
  BY DEF HttpInv
<1> QED
  BY <1>1, HttpInvHolds, PTL

\* Every piece of evidence on record is of a completed flight of its award,
\* however many duplicates the retries of _post() made.
THEOREM EvidenceIsOfAward == Spec => []EvidenceOfAward
<1>1. HttpInv => EvidenceOfAward
  BY DEF HttpInv
<1> QED
  BY <1>1, HttpInvHolds, PTL

\* Every mission lies in a project of its own award.
THEOREM MissionsInOwnProject == Spec => []MissionInOwnProject
<1>1. HttpInv => MissionInOwnProject
  BY DEF HttpInv
<1> QED
  BY <1>1, HttpInvHolds, PTL

\* The adapter's and the partner's state keep their types.
THEOREM HttpTypeCorrect == Spec => []TypeOK
<1>1. HttpInv => TypeOK
  BY DEF HttpInv
<1> QED
  BY <1>1, HttpInvHolds, PTL

\* An award costs at most stop_after_attempt projects, missions or orders of a
\* kind, however its requests fail and whatever the partner acted on.
THEOREM DuplicatesAlwaysBounded == Spec => []DuplicatesBounded
<1>1. Init => DuplicatesInv
  <2> SUFFICES ASSUME Init PROVE DuplicatesInv
    OBVIOUS
  <2>1. orders = << >> /\ phase = "idle"
    BY DEF Init
  <2>2. \A a, k : {o \in DOMAIN orders : PlacedFor(a, k, o)} = {}
    BY <2>1
  <2> QED
    BY <2>1, <2>2, FS_EmptySet, HttpAssumption
       DEF DuplicatesInv, AttemptsCounted, DuplicatesBounded
<1>2. HttpInv /\ HttpInv' /\ DuplicatesInv /\ [Next]_vars => DuplicatesInv'
  <2> SUFFICES ASSUME HttpInv, HttpInv', DuplicatesInv, [Next]_vars
               PROVE  DuplicatesInv'
    OBVIOUS
  <2>1. TypeOK /\ TypeOK' /\ OrdersGrow
    BY NextGrows DEF HttpInv
  <2> QED
    BY <2>1, BoundedStep, CountedStep DEF DuplicatesInv
<1>3. DuplicatesInv => DuplicatesBounded
  BY DEF DuplicatesInv
<1> QED
  BY <1>1, <1>2, <1>3, HttpInvHolds, PTL DEF Spec
=============================================================================
