--------------------------- MODULE BidEvaluation ---------------------------
(***************************************************************************)
(* How producers price a task and how the broker ranks their bids: the     *)
(* can_fulfil() and submit_bid() of the four adapters under                *)
(* agents/producers and the scoring of BrokerGraph._evaluate_bids.         *)
(*                                                                         *)
(* Prices are whole USDC, as every adapter quotes.  Weights and past       *)
(* performance are percentages.  A weighted total is a rational; within    *)
(* one evaluation all totals share the denominator 100 * 100 * PriceRange, *)
(* so the integer numerators below compare exactly as the totals do.       *)
(*                                                                         *)
(* The list of bids is a function on the registration positions of the     *)
(* producers that bid: the broker asks its producers in that order, so the *)
(* order of the positions is the order of the list.                        *)
(***************************************************************************)
EXTENDS Integers, Sequences, FiniteSetsExt

(* The messages, with the fields that decide something.                      *)

ServiceType == {"DRONE_SURVEILLANCE", "DRONE_INSPECTION",
                "GROUND_SURVEILLANCE", "SATELLITE_IMAGING"}

\* The weights are bounded one by one; that they sum to 1.0 is never checked.
EvaluationCriteria ==
  [price : 0..100, availability : 0..100, performance : 0..100]

ProducerBid(producers) ==
  [producer : producers, price : Nat, available : BOOLEAN,
   performance : 0..100]

(* A tariff is what distinguishes the adapters: setup fee, daily rate, past  *)
(* performance, and whether a partner's HTTP API stands behind the adapter.  *)
(* The two HTTP adapters price a window that ends before it starts as one    *)
(* day when they check the budget (max(days, 1)); the two simulated ones     *)
(* only replace a zero there (days or 1).                                    *)

AeroPlan    == [fee |-> 150, daily |-> 350, performance |-> 88, http |-> FALSE]
SkyWatch    == [fee |-> 300, daily |-> 620, performance |-> 92, http |-> FALSE]
DroneDeploy == [fee |-> 200, daily |-> 400, performance |-> 86, http |-> TRUE]
Skydio      == [fee |-> 350, daily |-> 700, performance |-> 93, http |-> TRUE]

Tariff == [fee : Nat, daily : Nat, performance : 0..100, http : BOOLEAN]

\* Every adapter supports exactly these two service types.
Supported == {"DRONE_SURVEILLANCE", "DRONE_INSPECTION"}

AtLeastOne(days) == IF days < 1 THEN 1 ELSE days
NonZero(days) == IF days = 0 THEN 1 ELSE days

Price(tariff, days) == tariff.fee + tariff.daily * days

\* Wrong on purpose: the setup fee is forgotten.
CanFulfilWithoutFee(tariff, req) ==
  /\ req.serviceType \in Supported
  /\ tariff.daily * AtLeastOne(req.days) <= req.budget

\* can_fulfil() up to the partner's own answer (its user or fleet endpoint).
CanFulfil(tariff, req) ==
  /\ req.serviceType \in Supported
  /\ Price(tariff, IF tariff.http THEN AtLeastOne(req.days)
                                  ELSE NonZero(req.days))
       <= req.budget

\* submit_bid(); every adapter declares itself available.
SubmitBid(producer, tariff, req) ==
  [producer |-> producer, price |-> Price(tariff, AtLeastOne(req.days)),
   available |-> TRUE, performance |-> tariff.performance]

-----------------------------------------------------------------------------

Prices(bids) == {bids[i].price : i \in DOMAIN bids}

\* max_p - min_p or 1.0; the denominator of the price score.
PriceRange(bids) ==
  IF Max(Prices(bids)) = Min(Prices(bids))
  THEN 1
  ELSE Max(Prices(bids)) - Min(Prices(bids))

\* Wrong on purpose: a higher price scores better.
WeightedTotalReversed(bid, bids, criteria) ==
  LET range == PriceRange(bids) IN
    100 * criteria.price * (bid.price - Min(Prices(bids)))
    + (IF bid.available THEN 100 * criteria.availability * range ELSE 0)
    + criteria.performance * bid.performance * range

\* Wrong on purpose: a price is compared with the highest, not with the range.
WeightedTotalOfHighest(bid, bids, criteria) ==
  LET highest == Max(Prices(bids)) IN
    100 * criteria.price * (highest - bid.price)
    + (IF bid.available THEN 100 * criteria.availability * highest ELSE 0)
    + criteria.performance * bid.performance * highest

\* weighted_total of one bid, times 100 * 100 * PriceRange(bids).
WeightedTotal(bid, bids, criteria) ==
  LET range == PriceRange(bids) IN
    100 * criteria.price * (range - (bid.price - Min(Prices(bids))))
    + (IF bid.available THEN 100 * criteria.availability * range ELSE 0)
    + criteria.performance * bid.performance * range

\* raw_scores[0] after the descending sort, which is stable: of the bids with
\* the highest total, the one collected first.
Winner(bids, criteria) ==
  LET total(i) == WeightedTotal(bids[i], bids, criteria)
      best == {i \in DOMAIN bids : \A j \in DOMAIN bids : total(j) <= total(i)}
  IN  bids[Min(best)]

\* Wrong on purpose: the rejecting producer keeps its bid.
WithoutNobody(bids, producer) == bids

\* The bids that remain when a producer has rejected the award.
Without(bids, producer) ==
  Restrict(bids, {i \in DOMAIN bids : bids[i].producer # producer})
=============================================================================
