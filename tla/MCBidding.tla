----------------------------- MODULE MCBidding -----------------------------
(* The adapters of the repository, registered as demo.py does for phase 2    *)
(* (simulated) and phase 3 (HTTP) and all together, bidding for windows of   *)
(* up to three days.                                                         *)
EXTENDS Bidding

MCRegistrations ==
  {ProducersOf(2), ProducersOf(3), ProducersOf(3) \o ProducersOf(2)}

MCRequested == {"DRONE_SURVEILLANCE", "SATELLITE_IMAGING"}

\* The demonstration's, price only, performance only, nearly only
\* performance, and weights that do not sum to one.
Valid ==
  { DefaultRequirement.criteria,
    [price |-> 100, availability |-> 0, performance |-> 0],
    [price |-> 0, availability |-> 0, performance |-> 100],
    [price |-> 8, availability |-> 4, performance |-> 88] }
Overweight == [price |-> 90, availability |-> 90, performance |-> 90]

MCCriteria == Valid \cup {Overweight}

\* At and around the price of each adapter for one day and for three, and the
\* demonstration's.
MCBudgets ==
  {499, 500, 600, 920, 1050, 1200, 2159, 2160, 2450, DefaultRequirement.budget}

ForwardDays == 0 .. 3
ReversedDays == {-1, 0, 1}
=============================================================================
