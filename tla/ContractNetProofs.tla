------------------------- MODULE ContractNetProofs -------------------------
(* What the contract net protocol promises, for every set of requirements    *)
(* and producers, and what its choice among bids guarantees, for every list  *)
(* of producers, their tariffs, the weights and the budgets.                 *)
EXTENDS ContractNet, Bidding, FiniteSetTheorems, WellFoundedInduction, TLAPS

-----------------------------------------------------------------------------
(* Stages and payments: module ContractNet *)

NetInv == NetTypeOK /\ PaidAsRecorded

\* No trail has started and nobody has been paid.
LEMMA InitNetInv == NetInit => NetInv
  BY DEF NetInit, NetInv, NetTypeOK, PaidAsRecorded, Stages, Succession

\* Recording a stage keeps trail and money in agreement.
LEMMA RecordNetInv ==
  ASSUME NetInv, NEW r \in Requirement, NEW next \in Stages, Record(r, next)
  PROVE  NetInv'
<1>1. NetTypeOK'
  BY DEF Record, NetInv, NetTypeOK
<1>2. ASSUME NEW q \in Requirement
      PROVE  /\ stage'[q] \in {"DELIVERED", "SETTLED"} => payee'[q] # Nobody
             /\ payee'[q] # Nobody =>
                  stage'[q] \in {"EXECUTING", "DELIVERED", "SETTLED"}
  <2>1. payee' = payee
    BY DEF Record
  <2>2. CASE q # r
    <3>1. stage'[q] = stage[q]
      BY <2>2 DEF Record, NetInv, NetTypeOK
    <3> QED
      BY <2>1, <3>1 DEF NetInv, PaidAsRecorded
  <2>3. CASE q = r
    <3>1. stage'[q] = next
      BY <2>3 DEF Record, NetInv, NetTypeOK
    <3>2. payee[r] # Nobody =>
            /\ stage[r] \in {"EXECUTING", "DELIVERED", "SETTLED"}
            /\ next # "FAILED"
      BY DEF NetInv, PaidAsRecorded, Record
    <3> QED
      BY <2>1, <2>3, <3>1, <3>2 DEF Record, Succession
  <2> QED
    BY <2>2, <2>3
<1> QED
  BY <1>1, <1>2 DEF NetInv, PaidAsRecorded

\* A payment keeps trail and money in agreement.
LEMMA PayNetInv ==
  ASSUME NetInv, NEW r \in Requirement, NEW producer \in Producer,
         Pay(r, producer)
  PROVE  NetInv'
  BY DEF Pay, NetInv, NetTypeOK, PaidAsRecorded

\* Every step of the protocol keeps the invariant.
LEMMA NextNetInv == NetInv /\ [NetNext]_netVars => NetInv'
<1> SUFFICES ASSUME NetInv, [NetNext]_netVars
             PROVE  NetInv'
  OBVIOUS
<1>1. ASSUME NEW r \in Requirement, NEW next \in Stages, Record(r, next)
      PROVE  NetInv'
  BY <1>1, RecordNetInv
<1>2. ASSUME NEW r \in Requirement, NEW producer \in Producer,
             Pay(r, producer)
      PROVE  NetInv'
  BY <1>2, PayNetInv
<1>3. CASE UNCHANGED netVars
  BY <1>3 DEF netVars, NetInv, NetTypeOK, PaidAsRecorded
<1> QED
  BY <1>1, <1>2, <1>3 DEF NetNext

\* Trail and money agree in every behaviour of the protocol.
THEOREM NetPaidAsRecorded == NetSpec => [](NetTypeOK /\ PaidAsRecorded)
<1>1. NetInv => NetTypeOK /\ PaidAsRecorded
  BY DEF NetInv
<1> QED
  BY InitNetInv, NextNetInv, <1>1, PTL DEF NetSpec

-----------------------------------------------------------------------------

IrrevocableStep ==
  \A r \in Requirement :
    /\ payee[r] # Nobody => payee'[r] = payee[r]
    /\ stage[r] \in {"SETTLED", "FAILED"} => stage'[r] = stage[r]

\* A payment and the end of a trail are never taken back.
THEOREM NetIrrevocable == NetSpec => Irrevocable
<1>1. NetInv /\ [NetNext]_netVars => [IrrevocableStep]_netVars
  <2> SUFFICES ASSUME NetInv, [NetNext]_netVars
               PROVE  [IrrevocableStep]_netVars
    OBVIOUS
  <2>1. ASSUME NEW r \in Requirement, NEW next \in Stages, Record(r, next)
        PROVE  IrrevocableStep
    BY <2>1 DEF Record, Succession, IrrevocableStep, NetInv, NetTypeOK
  <2>2. ASSUME NEW r \in Requirement, NEW producer \in Producer,
               Pay(r, producer)
        PROVE  IrrevocableStep
    BY <2>2 DEF Pay, IrrevocableStep, NetInv, NetTypeOK
  <2> QED
    BY <2>1, <2>2 DEF NetNext
<1> QED
  BY InitNetInv, NextNetInv, <1>1, PTL
     DEF NetSpec, Irrevocable, IrrevocableStep

-----------------------------------------------------------------------------
(* The choice among bids: module BidEvaluation *)

\* Every set of subsets of a finite set has a smallest member.
LEMMA SmallestSubset ==
  ASSUME NEW S, IsFiniteSet(S), NEW C, C \subseteq SUBSET S, C # {}
  PROVE  \E T \in C : \A U \in C : ~(U \subseteq T /\ U # T)
<1>1. IsWellFoundedOn(StrictSubsetOrdering(S), SUBSET S)
  BY FS_StrictSubsetOrderingWellFounded, FS_FiniteSubsetsOfFinite
<1>2. PICK T \in C : \A U \in C : ~(<<U, T>> \in StrictSubsetOrdering(S))
  BY <1>1, WFMin
<1> QED
  BY <1>2 DEF StrictSubsetOrdering

\* A finite set has an element at which an integer function is greatest.
LEMMA SomeMaximum ==
  ASSUME NEW S, IsFiniteSet(S), S # {}, NEW f, \A i \in S : f[i] \in Int
  PROVE  \E i \in S : \A j \in S : f[j] <= f[i]
<1> DEFINE above(i) == {j \in S : f[j] > f[i]}
           C == {above(i) : i \in S}
<1>1. PICK T \in C : \A U \in C : ~(U \subseteq T /\ U # T)
  <2>1. C \subseteq SUBSET S /\ C # {}
    OBVIOUS
  <2> HIDE DEF C
  <2> QED
    BY <2>1, SmallestSubset
<1>2. PICK i \in S : T = above(i)
  OBVIOUS
<1>3. ASSUME NEW j \in S, f[j] > f[i]
      PROVE  FALSE
  <2>1. above(j) \subseteq above(i)
    BY <1>3
  <2>2. j \in above(i) /\ j \notin above(j)
    BY <1>3
  <2>3. above(j) \in C
    OBVIOUS
  <2> QED
    BY <1>1, <1>2, <2>1, <2>2, <2>3, Zenon
<1> QED
  BY <1>3

\* A list of bids as the broker holds one.
BidList(bs) ==
  /\ IsFiniteSet(DOMAIN bs) /\ DOMAIN bs \subseteq Nat
  /\ \A i \in DOMAIN bs : /\ bs[i].price \in Nat
                          /\ bs[i].available \in BOOLEAN
                          /\ bs[i].performance \in Nat

\* There is a cheapest and a dearest bid ...
LEMMA PriceBounds ==
  ASSUME NEW bs, BidList(bs), DOMAIN bs # {}
  PROVE  /\ \E i \in DOMAIN bs : Max(Prices(bs)) = bs[i].price
         /\ \E i \in DOMAIN bs : Min(Prices(bs)) = bs[i].price
         /\ \A i \in DOMAIN bs : /\ bs[i].price <= Max(Prices(bs))
                                 /\ Min(Prices(bs)) <= bs[i].price
<1> DEFINE P == Prices(bs)
           up == [j \in DOMAIN bs |-> bs[j].price]
           down == [j \in DOMAIN bs |-> -bs[j].price]
<1>1. /\ IsFiniteSet(DOMAIN bs)
      /\ \A j \in DOMAIN bs : bs[j].price \in Int
  BY DEF BidList
<1>2. \A j \in DOMAIN bs : up[j] \in Int /\ down[j] \in Int
  BY <1>1
<1>3. \A j \in DOMAIN bs : up[j] = bs[j].price /\ down[j] = -bs[j].price
  OBVIOUS
<1> HIDE DEF up, down
<1>4. PICK a \in DOMAIN bs : \A j \in DOMAIN bs : up[j] <= up[a]
  BY <1>1, <1>2, SomeMaximum
<1>5. PICK b \in DOMAIN bs : \A j \in DOMAIN bs : down[j] <= down[b]
  BY <1>1, <1>2, SomeMaximum
<1>6. \E x \in P : \A y \in P : x >= y
  BY <1>1, <1>3, <1>4 DEF Prices
<1>7. \E x \in P : \A y \in P : x <= y
  <2>1. \A j \in DOMAIN bs : bs[b].price <= bs[j].price
    BY <1>1, <1>3, <1>5
  <2> QED
    BY <2>1 DEF Prices
<1> HIDE DEF P
<1>8. Max(P) \in P /\ \A y \in P : Max(P) >= y
  BY <1>6, Zenon DEF Max
<1>9. Min(P) \in P /\ \A y \in P : Min(P) <= y
  BY <1>7, Zenon DEF Min
<1>10. \A i \in DOMAIN bs : bs[i].price \in P
  BY DEF P, Prices
<1>11. \A x \in P : \E i \in DOMAIN bs : x = bs[i].price
  BY DEF P, Prices
<1>12. /\ \E i \in DOMAIN bs : Max(P) = bs[i].price
       /\ \E i \in DOMAIN bs : Min(P) = bs[i].price
  BY <1>8, <1>9, <1>11, Zenon
<1>13. \A i \in DOMAIN bs : bs[i].price <= Max(P) /\ Min(P) <= bs[i].price
  <2> SUFFICES ASSUME NEW i \in DOMAIN bs
               PROVE  bs[i].price <= Max(P) /\ Min(P) <= bs[i].price
    OBVIOUS
  <2>1. bs[i].price \in P
    BY <1>10
  <2>2. PICK hi, p : hi = Max(P) /\ p = bs[i].price
    OBVIOUS
  <2>3. hi >= p /\ hi \in Int /\ p \in Int
    BY <1>1, <1>8, <1>11, <2>1, <2>2
  <2>4. p <= hi
    BY <2>3
  <2> QED
    BY <1>9, <2>1, <2>2, <2>4
<1> QED
  BY <1>12, <1>13 DEF P

\* ... so the range is positive and no bid is further than it from the
\* cheapest.
LEMMA RangeType ==
  ASSUME NEW bs, BidList(bs), DOMAIN bs # {}
  PROVE  /\ PriceRange(bs) \in Nat \ {0}
         /\ Min(Prices(bs)) \in Nat /\ Max(Prices(bs)) \in Nat
<1>1. PICK hi, lo : hi = Max(Prices(bs)) /\ lo = Min(Prices(bs))
  OBVIOUS
<1>2. hi \in Nat /\ lo \in Nat /\ lo <= hi
  BY <1>1, PriceBounds DEF BidList
<1>3. PriceRange(bs) = IF hi = lo THEN 1 ELSE hi - lo
  BY <1>1 DEF PriceRange
<1> QED
  BY <1>1, <1>2, <1>3

\* The weighted total of a bid d above the cheapest.
Score(c, range, d, available, performance) ==
  100 * c.price * (range - d)
  + (IF available THEN 100 * c.availability * range ELSE 0)
  + c.performance * performance * range

LEMMA TotalIsScore ==
  \A b, bs, c : WeightedTotal(b, bs, c)
    = Score(c, PriceRange(bs), b.price - Min(Prices(bs)), b.available,
            b.performance)
BY Zenon DEF WeightedTotal, Score

LEMMA Products ==
  /\ \A x, y \in Int : x * y \in Int
  /\ \A a \in Nat, x, y \in Int : x <= y => a * x <= a * y
  /\ \A a \in Nat, x, y \in Int : a > 0 /\ x < y => a * x < a * y
<1>1. \A x, y \in Int : x * y \in Int
  OBVIOUS
<1>2. ASSUME NEW a \in Nat, NEW x \in Int, NEW y \in Int, x <= y
      PROVE  a * x <= a * y
  <2>1. a * (y - x) \in Nat
    BY <1>2
  <2>2. a * y = a * x + a * (y - x)
    BY <1>2
  <2> QED
    BY <1>1, <2>1, <2>2
<1>3. ASSUME NEW a \in Nat, NEW x \in Int, NEW y \in Int, a > 0, x < y
      PROVE  a * x < a * y
  <2>1. a * (y - x) > 0 /\ a * (y - x) \in Int
    BY <1>3
  <2>2. a * y = a * x + a * (y - x)
    BY <1>3
  <2> QED
    BY <1>1, <2>1, <2>2
<1> QED
  BY <1>1, <1>2, <1>3

\* A bid that is no worse on every criterion and better on one that counts
\* scores higher.
LEMMA BetterScoresHigher ==
  ASSUME NEW c \in EvaluationCriteria, NEW range \in Nat \ {0},
         NEW d1 \in Int, NEW d2 \in Int,
         NEW v1 \in BOOLEAN, NEW v2 \in BOOLEAN,
         NEW f1 \in Nat, NEW f2 \in Nat,
         d1 <= d2, v2 => v1, f1 >= f2,
         \/ c.price > 0 /\ d1 < d2
         \/ c.availability > 0 /\ v1 /\ ~v2
         \/ c.performance > 0 /\ f1 > f2
  PROVE  Score(c, range, d1, v1, f1) > Score(c, range, d2, v2, f2)
<1>1. c.price \in Nat /\ c.availability \in Nat /\ c.performance \in Nat
  BY DEF EvaluationCriteria
<1>2. PICK cp \in Nat, ca \in Nat, cf \in Nat :
        cp = c.price /\ ca = c.availability /\ cf = c.performance
  BY <1>1
<1>3. PICK x1, x2, y, z1, z2 :
        /\ x1 = 100 * cp * (range - d1) /\ x2 = 100 * cp * (range - d2)
        /\ y = 100 * ca * range
        /\ z1 = cf * f1 * range /\ z2 = cf * f2 * range
  OBVIOUS
<1>4. 100 * cp \in Nat /\ range - d1 \in Int /\ range - d2 \in Int
      /\ range - d2 <= range - d1 /\ (d1 < d2 => range - d2 < range - d1)
      /\ (cp > 0 => 100 * cp > 0)
  OBVIOUS
<1>5. x1 \in Int /\ x2 \in Int /\ x2 <= x1 /\ (cp > 0 /\ d1 < d2 => x2 < x1)
  <2>1. PICK a, u, v : a = 100 * cp /\ u = range - d1 /\ v = range - d2
    OBVIOUS
  <2>2. a \in Nat /\ u \in Int /\ v \in Int /\ v <= u
        /\ (d1 < d2 => v < u) /\ (cp > 0 => a > 0)
    BY <1>4, <2>1
  <2>3. a * u \in Int /\ a * v \in Int /\ a * v <= a * u
        /\ (cp > 0 /\ d1 < d2 => a * v < a * u)
    BY <2>2, Products
  <2> QED
    BY <1>3, <2>1, <2>3
<1>6. y \in Nat /\ (ca > 0 => y > 0)
  <2>1. 100 * ca \in Nat /\ (ca > 0 => 100 * ca > 0)
    OBVIOUS
  <2>2. \A a \in Nat : a * range \in Nat /\ (a > 0 => a * range > 0)
    OBVIOUS
  <2> QED
    BY <1>3, <2>1, <2>2
<1>7. z1 \in Int /\ z2 \in Int /\ z2 <= z1 /\ (cf > 0 /\ f1 > f2 => z2 < z1)
  <2>1. PICK g1, g2 : g1 = cf * f1 /\ g2 = cf * f2
    OBVIOUS
  <2>2. g1 \in Int /\ g2 \in Int /\ g2 <= g1 /\ (cf > 0 /\ f1 > f2 => g2 < g1)
    BY <2>1, Products
  <2>3. range * g2 <= range * g1 /\ (g2 < g1 => range * g2 < range * g1)
        /\ range * g1 \in Int /\ range * g2 \in Int
    BY <2>2, Products
  <2>4. z1 = range * g1 /\ z2 = range * g2
    BY <1>3, <2>1, <2>2
  <2> QED
    BY <2>2, <2>3, <2>4
<1>8. /\ Score(c, range, d1, v1, f1) = x1 + (IF v1 THEN y ELSE 0) + z1
      /\ Score(c, range, d2, v2, f2) = x2 + (IF v2 THEN y ELSE 0) + z2
  BY <1>2, <1>3, Zenon DEF Score
<1>9. x1 + (IF v1 THEN y ELSE 0) + z1 > x2 + (IF v2 THEN y ELSE 0) + z2
  BY <1>2, <1>5, <1>6, <1>7
<1> QED
  BY <1>8, <1>9

LEMMA TotalType ==
  ASSUME NEW bs, BidList(bs), NEW i \in DOMAIN bs,
         NEW c \in EvaluationCriteria
  PROVE  WeightedTotal(bs[i], bs, c) \in Int
<1>1. PICK cp, ca, cf, p, f, range, low :
        /\ cp = c.price /\ ca = c.availability /\ cf = c.performance
        /\ p = bs[i].price /\ f = bs[i].performance
        /\ range = PriceRange(bs) /\ low = Min(Prices(bs))
  OBVIOUS
<1>2. /\ cp \in Int /\ ca \in Int /\ cf \in Int /\ p \in Int /\ f \in Int
      /\ range \in Int /\ low \in Int
  BY <1>1, RangeType DEF EvaluationCriteria, BidList
<1>3. /\ 100 * cp \in Int /\ range - (p - low) \in Int
      /\ 100 * ca \in Int /\ cf * f \in Int
  BY <1>2, Products
<1>4. PICK x, y, z : /\ x = 100 * cp * (range - (p - low))
                     /\ y = 100 * ca * range
                     /\ z = cf * f * range
  OBVIOUS
<1>5. x \in Int /\ y \in Int /\ z \in Int
  BY <1>2, <1>3, <1>4, Products
<1>6. WeightedTotal(bs[i], bs, c)
        = x + (IF bs[i].available THEN y ELSE 0) + z
  BY <1>1, <1>4, Zenon DEF WeightedTotal
<1> QED
  BY <1>5, <1>6

\* The winner is a bid of the list that no other outscores; of several, the
\* one collected first.
LEMMA WinnerChosen ==
  ASSUME NEW bs, BidList(bs), DOMAIN bs # {}, NEW c \in EvaluationCriteria
  PROVE  LET total(i) == WeightedTotal(bs[i], bs, c)
             best == {i \in DOMAIN bs :
                        \A j \in DOMAIN bs : total(j) <= total(i)}
         IN  Min(best) \in best /\ Winner(bs, c) = bs[Min(best)]
<1> DEFINE D == DOMAIN bs
           score == [i \in D |-> WeightedTotal(bs[i], bs, c)]
           best == {i \in D : \A j \in D : score[j] <= score[i]}
           first == [i \in best |-> -i]
<1>1. \A i \in D : score[i] \in Int /\ i \in Nat
  BY TotalType DEF BidList
<1>2. \A i \in D : score[i] = WeightedTotal(bs[i], bs, c)
  OBVIOUS
<1> HIDE DEF score
<1>3. best # {} /\ best \subseteq D /\ IsFiniteSet(best)
  <2>1. \E i \in D : \A j \in D : score[j] <= score[i]
    BY <1>1, SomeMaximum DEF BidList
  <2> QED
    BY <2>1, FS_Subset DEF BidList
<1>4. \A i \in best : i \in Nat /\ first[i] \in Int /\ first[i] = -i
  BY <1>1, <1>3
<1>5. best = {i \in D : \A j \in D :
                WeightedTotal(bs[j], bs, c) <= WeightedTotal(bs[i], bs, c)}
  BY <1>2
<1> HIDE DEF best, first
<1>6. PICK i \in best : \A j \in best : first[j] <= first[i]
  BY <1>3, <1>4, SomeMaximum
<1>7. \A j \in best : i <= j
  BY <1>4, <1>6
<1>8. Min(best) \in best
  BY <1>6, <1>7, Zenon DEF Min
<1> QED
  BY <1>5, <1>8, Zenon DEF Winner

\* No bid of the list is better than the winner.
LEMMA NoneDominates ==
  ASSUME NEW bs, BidList(bs), NEW c \in EvaluationCriteria,
         NEW i \in DOMAIN bs, Dominates(bs[i], Winner(bs, c), c)
  PROVE  FALSE
<1>1. PICK w \in DOMAIN bs :
        /\ Winner(bs, c) = bs[w]
        /\ WeightedTotal(bs[i], bs, c) <= WeightedTotal(bs[w], bs, c)
  BY WinnerChosen, Zenon
<1>2. PICK range, low : range = PriceRange(bs) /\ low = Min(Prices(bs))
  OBVIOUS
<1>3. /\ range \in Nat \ {0} /\ low \in Nat
      /\ bs[i].price \in Nat /\ bs[w].price \in Nat
      /\ bs[i].available \in BOOLEAN /\ bs[w].available \in BOOLEAN
      /\ bs[i].performance \in Nat /\ bs[w].performance \in Nat
  BY <1>2, RangeType DEF BidList
<1>4. /\ bs[i].price <= bs[w].price
      /\ bs[w].available => bs[i].available
      /\ bs[i].performance >= bs[w].performance
      /\ \/ c.price > 0 /\ bs[i].price < bs[w].price
         \/ c.availability > 0 /\ bs[i].available /\ ~bs[w].available
         \/ c.performance > 0 /\ bs[i].performance > bs[w].performance
  BY <1>1 DEF Dominates
<1>5. PICK d, e : d = bs[i].price - low /\ e = bs[w].price - low
  OBVIOUS
<1>6. d \in Int /\ e \in Int /\ d <= e
      /\ (bs[i].price < bs[w].price => d < e)
  BY <1>3, <1>4, <1>5
<1>7. Score(c, range, d, bs[i].available, bs[i].performance)
        > Score(c, range, e, bs[w].available, bs[w].performance)
  BY <1>3, <1>4, <1>6, BetterScoresHigher
<1>8. WeightedTotal(bs[i], bs, c) > WeightedTotal(bs[w], bs, c)
  BY <1>2, <1>5, <1>7, TotalIsScore
<1>9. WeightedTotal(bs[i], bs, c) \in Int /\ WeightedTotal(bs[w], bs, c) \in Int
  BY TotalType
<1> QED
  BY <1>1, <1>8, <1>9

\* Scaling range and distance scales the score.
LEMMA ScoreScales ==
  ASSUME NEW c \in EvaluationCriteria, NEW range \in Int, NEW d \in Int,
         NEW v \in BOOLEAN, NEW f \in Int, NEW k \in Int
  PROVE  /\ Score(c, k * range, k * d, v, f) = k * Score(c, range, d, v, f)
         /\ Score(c, range, d, v, f) \in Int
<1>1. c.price \in Int /\ c.availability \in Int /\ c.performance \in Int
  BY DEF EvaluationCriteria
<1>2. PICK cp \in Int, ca \in Int, cf \in Int :
        cp = c.price /\ ca = c.availability /\ cf = c.performance
  BY <1>1
<1>3. PICK x, y, z : /\ x = 100 * cp * (range - d)
                     /\ y = 100 * ca * range
                     /\ z = cf * f * range
  OBVIOUS
<1>4. x \in Int /\ y \in Int /\ z \in Int
  BY <1>3
<1>5. /\ 100 * cp * (k * range - k * d) = k * x
      /\ 100 * ca * (k * range) = k * y
      /\ cf * f * (k * range) = k * z
  BY <1>3
<1>6. Score(c, range, d, v, f) = x + (IF v THEN y ELSE 0) + z
  BY <1>2, <1>3, Zenon DEF Score
<1>7. Score(c, k * range, k * d, v, f)
        = k * x + (IF v THEN k * y ELSE 0) + k * z
  BY <1>2, <1>5, Zenon DEF Score
<1>8. k * x + (IF v THEN k * y ELSE 0) + k * z
        = k * (x + (IF v THEN y ELSE 0) + z)
  BY <1>4
<1> QED
  BY <1>4, <1>6, <1>7, <1>8

RequotedList(bs, unit, fee) ==
  [i \in DOMAIN bs |-> [bs[i] EXCEPT !.price = unit * @ + fee]]

LEMMA RequotedFields ==
  ASSUME NEW bs, BidList(bs), NEW P,
         \A i \in DOMAIN bs : bs[i] \in ProducerBid(P),
         NEW unit \in Nat \ {0}, NEW fee \in Nat
  PROVE  LET rs == RequotedList(bs, unit, fee) IN
           /\ BidList(rs) /\ DOMAIN rs = DOMAIN bs
           /\ \A i \in DOMAIN bs :
                /\ rs[i].price = unit * bs[i].price + fee
                /\ rs[i].available = bs[i].available
                /\ rs[i].performance = bs[i].performance
                /\ rs[i].producer = bs[i].producer
<1> DEFINE rs == RequotedList(bs, unit, fee)
<1>1. DOMAIN rs = DOMAIN bs
  BY DEF RequotedList
<1>2. ASSUME NEW i \in DOMAIN bs
      PROVE  /\ rs[i].price = unit * bs[i].price + fee
             /\ rs[i].available = bs[i].available
             /\ rs[i].performance = bs[i].performance
             /\ rs[i].producer = bs[i].producer
  <2>1. PICK q : q = unit * bs[i].price + fee
    OBVIOUS
  <2>2. rs[i] = [bs[i] EXCEPT !.price = q]
    BY <2>1 DEF RequotedList
  <2> QED
    BY <2>1, <2>2 DEF ProducerBid
<1>3. \A i \in DOMAIN bs : rs[i].price \in Nat
  BY <1>2 DEF BidList
<1> HIDE DEF rs
<1>4. BidList(rs)
  BY <1>1, <1>2, <1>3 DEF BidList
<1> QED
  BY <1>1, <1>2, <1>4 DEF rs

\* Dearest and cheapest are requoted like any other price.
LEMMA RequotedBounds ==
  ASSUME NEW bs, BidList(bs), DOMAIN bs # {}, NEW rs, BidList(rs),
         DOMAIN rs = DOMAIN bs, NEW unit \in Nat \ {0}, NEW fee \in Nat,
         \A i \in DOMAIN bs : rs[i].price = unit * bs[i].price + fee
  PROVE  /\ Max(Prices(rs)) = unit * Max(Prices(bs)) + fee
         /\ Min(Prices(rs)) = unit * Min(Prices(bs)) + fee
<1>1. \A x, y \in Int : x <= y => unit * x + fee <= unit * y + fee
  BY Products
<1>2. PICK hi, lo, hi2, lo2 :
        /\ hi = Max(Prices(bs)) /\ lo = Min(Prices(bs))
        /\ hi2 = Max(Prices(rs)) /\ lo2 = Min(Prices(rs))
  OBVIOUS
<1>3. PICK a \in DOMAIN bs, b \in DOMAIN bs :
        hi = bs[a].price /\ lo = bs[b].price
  BY <1>2, PriceBounds, Zenon
<1>4. PICK e \in DOMAIN bs, g \in DOMAIN bs :
        hi2 = rs[e].price /\ lo2 = rs[g].price
  BY <1>2, PriceBounds
<1>5. /\ bs[e].price <= hi /\ lo <= bs[g].price
      /\ rs[a].price <= hi2 /\ lo2 <= rs[b].price
  BY <1>2, PriceBounds
<1>6. /\ bs[e].price \in Nat /\ bs[g].price \in Nat /\ hi \in Nat /\ lo \in Nat
      /\ rs[a].price \in Nat /\ rs[b].price \in Nat
      /\ hi2 \in Nat /\ lo2 \in Nat
  BY <1>3, <1>4 DEF BidList
<1>7. /\ rs[a].price = unit * hi + fee /\ rs[b].price = unit * lo + fee
      /\ hi2 = unit * bs[e].price + fee /\ lo2 = unit * bs[g].price + fee
  BY <1>3, <1>4
<1>8. hi2 <= unit * hi + fee /\ unit * lo + fee <= lo2
  BY <1>1, <1>5, <1>6, <1>7
<1>9. hi2 = unit * hi + fee /\ lo2 = unit * lo + fee
  BY <1>5, <1>6, <1>7, <1>8
<1> QED
  BY <1>2, <1>9

\* Requoting multiplies every total by the same positive number.
Proportional(rs, bs, c) ==
  \E k \in Nat \ {0} : \A i \in DOMAIN bs :
    WeightedTotal(rs[i], rs, c) = k * WeightedTotal(bs[i], bs, c)

LEMMA RequotedTotals ==
  ASSUME NEW bs, BidList(bs), DOMAIN bs # {}, NEW rs, BidList(rs),
         DOMAIN rs = DOMAIN bs, NEW unit \in Nat \ {0}, NEW fee \in Nat,
         NEW c \in EvaluationCriteria,
         \A i \in DOMAIN bs :
           /\ rs[i].price = unit * bs[i].price + fee
           /\ rs[i].available = bs[i].available
           /\ rs[i].performance = bs[i].performance
  PROVE  Proportional(rs, bs, c)
<1>1. PICK hi, lo : hi = Max(Prices(bs)) /\ lo = Min(Prices(bs))
  OBVIOUS
<1>2. /\ hi \in Nat /\ lo \in Nat
      /\ \A i \in DOMAIN bs : bs[i].price \in Nat /\ lo <= bs[i].price
                              /\ bs[i].price <= hi
  BY <1>1, RangeType, PriceBounds DEF BidList
<1>3. PICK hi2, lo2 : hi2 = unit * hi + fee /\ lo2 = unit * lo + fee
  OBVIOUS
<1>4. Max(Prices(rs)) = hi2 /\ Min(Prices(rs)) = lo2
  BY <1>1, <1>3, RequotedBounds
<1>5. PICK k : k = IF hi = lo THEN 1 ELSE unit
  OBVIOUS
<1>6. k \in Nat \ {0}
  BY <1>5
<1>7. PriceRange(rs) = k * PriceRange(bs) /\ PriceRange(bs) \in Int
  <2>1. PriceRange(bs) = IF hi = lo THEN 1 ELSE hi - lo
    BY <1>1 DEF PriceRange
  <2>2. PriceRange(rs) = IF hi2 = lo2 THEN 1 ELSE hi2 - lo2
    BY <1>4 DEF PriceRange
  <2>3. CASE hi = lo
    BY <1>3, <1>5, <2>1, <2>2, <2>3
  <2>4. CASE hi # lo
    <3>1. lo < hi
      BY <1>2, <2>4
    <3>2. unit * lo < unit * hi /\ unit * lo \in Int /\ unit * hi \in Int
      BY <1>2, <3>1, Products
    <3>3. hi2 # lo2 /\ hi2 - lo2 = unit * (hi - lo)
      BY <1>2, <1>3, <3>2
    <3> QED
      BY <1>2, <1>5, <2>1, <2>2, <2>4, <3>3
  <2> QED
    BY <2>3, <2>4
<1>8. ASSUME NEW i \in DOMAIN bs
      PROVE  rs[i].price - lo2 = k * (bs[i].price - lo)
  <2>1. PICK p : p = bs[i].price
    OBVIOUS
  <2>2. p \in Nat /\ lo <= p /\ p <= hi /\ rs[i].price = unit * p + fee
    BY <1>2, <2>1
  <2>3. CASE hi = lo
    <3>1. p = lo /\ k = 1
      BY <1>2, <1>5, <2>2, <2>3
    <3>2. rs[i].price = lo2 /\ lo2 \in Nat
      BY <1>2, <1>3, <2>2, <3>1
    <3> QED
      BY <1>2, <2>1, <3>1, <3>2
  <2>4. CASE hi # lo
    BY <1>2, <1>3, <1>5, <2>1, <2>2, <2>4
  <2> QED
    BY <2>3, <2>4
<1>9. ASSUME NEW i \in DOMAIN bs
      PROVE  WeightedTotal(rs[i], rs, c) = k * WeightedTotal(bs[i], bs, c)
  <2>1. PICK range, d, v, f :
          /\ range = PriceRange(bs) /\ d = bs[i].price - lo
          /\ v = bs[i].available /\ f = bs[i].performance
    OBVIOUS
  <2>2. range \in Int /\ d \in Int /\ v \in BOOLEAN /\ f \in Int
    BY <1>2, <1>7, <2>1 DEF BidList
  <2>3. WeightedTotal(bs[i], bs, c) = Score(c, range, d, v, f)
    BY <1>1, <2>1, TotalIsScore, Zenon
  <2>4. WeightedTotal(rs[i], rs, c) = Score(c, k * range, k * d, v, f)
    BY <1>4, <1>7, <1>8, <2>1, TotalIsScore
  <2> QED
    BY <1>6, <2>2, <2>3, <2>4, ScoreScales
<1> QED
  BY <1>6, <1>9, Zenon DEF Proportional

\* So the same position wins.
LEMMA RequotedWinner ==
  ASSUME NEW bs, BidList(bs), DOMAIN bs # {}, NEW P,
         \A i \in DOMAIN bs : bs[i] \in ProducerBid(P),
         NEW unit \in Nat \ {0}, NEW fee \in Nat,
         NEW c \in EvaluationCriteria
  PROVE  Winner(RequotedList(bs, unit, fee), c).producer
           = Winner(bs, c).producer
<1>1. PICK rs : rs = RequotedList(bs, unit, fee)
  OBVIOUS
<1>2. /\ BidList(rs) /\ DOMAIN rs = DOMAIN bs
      /\ \A i \in DOMAIN bs : /\ rs[i].price = unit * bs[i].price + fee
                              /\ rs[i].available = bs[i].available
                              /\ rs[i].performance = bs[i].performance
                              /\ rs[i].producer = bs[i].producer
  BY <1>1, RequotedFields
<1>3. PICK k \in Nat \ {0} : \A i \in DOMAIN bs :
        WeightedTotal(rs[i], rs, c) = k * WeightedTotal(bs[i], bs, c)
  <2>1. \A i \in DOMAIN bs : /\ rs[i].price = unit * bs[i].price + fee
                             /\ rs[i].available = bs[i].available
                             /\ rs[i].performance = bs[i].performance
    BY <1>2
  <2>2. Proportional(rs, bs, c)
    BY <1>2, <2>1, RequotedTotals
  <2> QED
    BY <2>2 DEF Proportional
<1>4. \A x, y \in Int : k * x <= k * y <=> x <= y
  <2> SUFFICES ASSUME NEW x \in Int, NEW y \in Int
               PROVE  k * x <= k * y <=> x <= y
    OBVIOUS
  <2>1. x <= y => k * x <= k * y
    BY Products
  <2>2. y < x => k * y < k * x
    BY Products
  <2>3. k * x \in Int /\ k * y \in Int
    BY Products
  <2> QED
    BY <2>1, <2>2, <2>3
<1>5. \A i, j \in DOMAIN bs :
        WeightedTotal(rs[j], rs, c) <= WeightedTotal(rs[i], rs, c)
          <=> WeightedTotal(bs[j], bs, c) <= WeightedTotal(bs[i], bs, c)
  BY <1>3, <1>4, TotalType
<1>6. PICK best : best = {i \in DOMAIN bs : \A j \in DOMAIN bs :
        WeightedTotal(bs[j], bs, c) <= WeightedTotal(bs[i], bs, c)}
  OBVIOUS
<1>7. best = {i \in DOMAIN rs : \A j \in DOMAIN rs :
        WeightedTotal(rs[j], rs, c) <= WeightedTotal(rs[i], rs, c)}
  BY <1>2, <1>5, <1>6
<1>8. Min(best) \in best /\ Winner(bs, c) = bs[Min(best)]
  BY <1>6, WinnerChosen, Zenon
<1>9. Winner(rs, c) = rs[Min(best)]
  BY <1>7, Zenon DEF Winner
<1>10. Min(best) \in DOMAIN bs
  BY <1>6, <1>8
<1> QED
  BY <1>1, <1>2, <1>8, <1>9, <1>10

-----------------------------------------------------------------------------
(* One procurement: module Bidding *)

\* The inductive invariant: the bids held are what the adapters submit for the
\* announced task, the winner is the one their scores elect, and while an
\* award may still be rejected the limit has not been reached.
BiddingInv ==
  /\ registered \in Registrations
  /\ phase \in {"announce_task", "collect_bids", "evaluate_bids",
                "award_contract", "execute", "fail", "raised"}
  /\ requirement \in ServiceRequirement
  /\ announcement = IF phase = "announce_task" THEN NoAnnouncement
                                               ELSE requirement
  /\ DOMAIN bids \subseteq DOMAIN registered
  /\ \A i \in DOMAIN bids :
       /\ CanFulfil(registered[i].tariff, requirement)
       /\ bids[i] = SubmitBid(registered[i].id, registered[i].tariff,
                              requirement)
  /\ phase \in {"award_contract", "execute"} =>
       DOMAIN bids # {} /\ winner = Winner(bids, requirement.criteria)
  /\ winner \in ProducerBid(Registered) \cup {NoBid}
  /\ rejections \in 0 .. MAX_RE_EVALS
  /\ phase \in {"announce_task", "collect_bids", "evaluate_bids",
                "award_contract"} => rejections < MAX_RE_EVALS

\* What an adapter quotes is a bid.
LEMMA QuoteType ==
  ASSUME NEW t \in Tariff, NEW req, req.days \in Int, NEW P, NEW id \in P
  PROVE  SubmitBid(id, t, req) \in ProducerBid(P)
<1>1. AtLeastOne(req.days) \in Nat
  BY DEF AtLeastOne
<1>2. PICK n \in Nat : n = AtLeastOne(req.days)
  BY <1>1
<1>3. t.fee \in Nat /\ t.daily \in Nat /\ t.performance \in 0..100
  BY DEF Tariff
<1>4. \A x, y, z \in Nat : x + y * z \in Nat
  OBVIOUS
<1>5. Price(t, AtLeastOne(req.days)) \in Nat
  BY <1>2, <1>3, <1>4 DEF Price
<1> QED
  BY <1>3, <1>5 DEF SubmitBid, ProducerBid

LEMMA RegisteredType ==
  ASSUME registered \in Registrations
  PROVE  /\ IsFiniteSet(DOMAIN registered) /\ DOMAIN registered \subseteq Nat
         /\ \A i \in DOMAIN registered : registered[i].tariff \in Tariff
                                         /\ registered[i].id \in Registered
<1> DEFINE Entry == [id : STRING, tariff : Tariff]
<1>1. registered \in Seq(Entry)
  BY BiddingAssumption
<1>2. \A e \in Entry : e.tariff \in Tariff
  OBVIOUS
<1> HIDE DEF Entry
<1>3. /\ DOMAIN registered = 1 .. Len(registered) /\ Len(registered) \in Nat
      /\ \A i \in DOMAIN registered : registered[i] \in Entry
  BY <1>1
<1>4. IsFiniteSet(DOMAIN registered)
  BY <1>3, FS_Interval
<1> QED
  BY <1>2, <1>3, <1>4 DEF Registered

LEMMA RequirementType ==
  ASSUME requirement \in ServiceRequirement
  PROVE  /\ requirement.days \in Days /\ requirement.days \in Int
         /\ requirement.budget \in Nat
         /\ requirement.criteria \in EvaluationCriteria
BY BiddingAssumption DEF ServiceRequirement

\* The bids held are a list of bids, by registered producers.
LEMMA BidsType ==
  ASSUME BiddingInv
  PROVE  /\ BidList(bids)
         /\ \A i \in DOMAIN bids : bids[i] \in ProducerBid(Registered)
<1>1. \A i \in DOMAIN bids : bids[i] \in ProducerBid(Registered)
  BY QuoteType, RegisteredType, RequirementType DEF BiddingInv
<1>2. IsFiniteSet(DOMAIN bids) /\ DOMAIN bids \subseteq Nat
  BY RegisteredType, FS_Subset DEF BiddingInv
<1> QED
  BY <1>1, <1>2 DEF BidList, ProducerBid

LEMMA InitBiddingInv == Init => BiddingInv
<1> SUFFICES ASSUME Init PROVE BiddingInv
  OBVIOUS
<1>1. 0 < MAX_RE_EVALS /\ 0 \in 0 .. MAX_RE_EVALS
  BY BiddingAssumption
<1>2. DOMAIN bids = {}
  BY DEF Init
<1> QED
  BY <1>1, <1>2 DEF Init, BiddingInv

LEMMA NextBiddingInv == BiddingInv /\ [Next]_vars => BiddingInv'
<1> SUFFICES ASSUME BiddingInv, [Next]_vars PROVE BiddingInv'
  OBVIOUS
<1>1. CASE AnnounceTask
  <2>1. Registered' = Registered
    BY <1>1 DEF AnnounceTask, Registered
  <2> QED
    BY <1>1, <2>1 DEF BiddingInv, AnnounceTask
<1>2. CASE CollectBids
  <2>1. PICK willing \in SUBSET DOMAIN registered :
          /\ bids' = [i \in willing |->
                        SubmitBid(registered[i].id, registered[i].tariff,
                                  announcement)]
          /\ \A i \in willing : CanFulfil(registered[i].tariff, announcement)
    <3> DEFINE able == {i \in DOMAIN registered :
                          CanFulfil(registered[i].tariff, announcement)}
               mayDecline == {i \in able : registered[i].tariff.http}
    <3>1. PICK declined \in SUBSET mayDecline :
            bids' = [i \in able \ declined |->
                       SubmitBid(registered[i].id, registered[i].tariff,
                                 announcement)]
      BY <1>2, Zenon DEF CollectBids
    <3>2. able \ declined \in SUBSET DOMAIN registered
      OBVIOUS
    <3>3. \A i \in able \ declined :
            CanFulfil(registered[i].tariff, announcement)
      OBVIOUS
    <3> HIDE DEF able
    <3> QED
      BY <3>1, <3>2, <3>3
  <2>2. Registered' = Registered
    BY <1>2 DEF CollectBids, taskVars, Registered
  <2>3. announcement = requirement
    BY <1>2 DEF BiddingInv, CollectBids
  <2>4. /\ DOMAIN bids' \subseteq DOMAIN registered
        /\ \A i \in DOMAIN bids' :
             /\ CanFulfil(registered[i].tariff, requirement)
             /\ bids'[i] = SubmitBid(registered[i].id, registered[i].tariff,
                                     requirement)
    BY <2>1, <2>3
  <2>5. /\ UNCHANGED <<taskVars, winner, rejections>>
        /\ phase = "collect_bids" /\ phase' \in {"fail", "evaluate_bids"}
    BY <1>2 DEF CollectBids
  <2> QED
    BY <2>2, <2>3, <2>4, <2>5 DEF BiddingInv, taskVars
<1>3. CASE EvaluateBids
  <2>1. Registered' = Registered
    BY <1>3 DEF EvaluateBids, taskVars, Registered
  <2>2. /\ UNCHANGED <<taskVars, bids, rejections>> /\ phase = "evaluate_bids"
    BY <1>3 DEF EvaluateBids
  <2>3. CASE DOMAIN bids = {}
    BY <1>3, <2>1, <2>2, <2>3 DEF BiddingInv, EvaluateBids, taskVars
  <2>4. CASE DOMAIN bids # {}
    <3>1. winner' = Winner(bids, requirement.criteria)
          /\ phase' = "award_contract"
      BY <1>3, <2>4 DEF EvaluateBids
    <3>2. \E i \in DOMAIN bids : Winner(bids, requirement.criteria) = bids[i]
      BY <2>4, BidsType, RequirementType, WinnerChosen, Zenon DEF BiddingInv
    <3>3. winner' \in ProducerBid(Registered)
      BY <3>1, <3>2, BidsType
    <3> QED
      BY <2>1, <2>2, <2>4, <3>1, <3>3 DEF BiddingInv, taskVars
  <2> QED
    BY <2>3, <2>4
<1>4. CASE AcceptAward
  <2>1. Registered' = Registered
    BY <1>4 DEF AcceptAward, taskVars, Registered
  <2> QED
    BY <1>4, <2>1 DEF BiddingInv, AcceptAward, taskVars
<1>5. CASE RejectAward
  <2>1. Registered' = Registered
    BY <1>5 DEF RejectAward, taskVars, Registered
  <2>2. /\ DOMAIN bids' \subseteq DOMAIN bids
        /\ \A i \in DOMAIN bids' : bids'[i] = bids[i]
    BY <1>5 DEF RejectAward, Without, Restrict
  <2>3. /\ rejections' \in 0 .. MAX_RE_EVALS
        /\ phase' \in {"evaluate_bids", "fail"}
        /\ phase' = "evaluate_bids" => rejections' < MAX_RE_EVALS
    BY <1>5, BiddingAssumption DEF RejectAward, BiddingInv
  <2>4. UNCHANGED <<registered, requirement, announcement, winner>>
        /\ phase = "award_contract"
    BY <1>5 DEF RejectAward, taskVars
  <2> QED
    BY <2>1, <2>2, <2>3, <2>4 DEF BiddingInv
<1>6. CASE UNCHANGED vars
  <2>1. Registered' = Registered
    BY <1>6 DEF vars, taskVars, Registered
  <2> QED
    BY <1>6, <2>1 DEF BiddingInv, vars, taskVars
<1> QED
  BY <1>1, <1>2, <1>3, <1>4, <1>5, <1>6 DEF Next, Done

\* What the nodes put in the broker's state is what its type declares, and no
\* evaluation starts after MAX_RE_EVALS rejections.
THEOREM BiddingTypeCorrect == Spec => []TypeOK
<1>1. BiddingInv => TypeOK
  <2> SUFFICES ASSUME BiddingInv PROVE TypeOK
    OBVIOUS
  <2> QED
    BY BidsType DEF BiddingInv, TypeOK, TaskAnnouncement
<1> QED
  BY <1>1, InitBiddingInv, NextBiddingInv, PTL DEF Spec

\* If no window ends before it starts, no bid the broker holds exceeds the
\* consumer's budget ceiling, whatever the tariffs: what can_fulfil() checks
\* is what submit_bid() quotes.
THEOREM BidsWithinBudget ==
  ASSUME Days \subseteq Nat
  PROVE  Spec => []WithinBudget
<1>1. BiddingInv => WithinBudget
  <2> SUFFICES ASSUME BiddingInv, NEW i \in DOMAIN bids
               PROVE  bids[i].price <= requirement.budget
    BY DEF WithinBudget
  <2>1. requirement.days \in Nat
    BY RequirementType DEF BiddingInv
  <2>2. AtLeastOne(requirement.days) = NonZero(requirement.days)
    BY <2>1 DEF AtLeastOne, NonZero
  <2>3. /\ CanFulfil(registered[i].tariff, requirement)
        /\ bids[i] = SubmitBid(registered[i].id, registered[i].tariff,
                               requirement)
    BY DEF BiddingInv
  <2>4. Price(registered[i].tariff, AtLeastOne(requirement.days))
          <= requirement.budget
    BY <2>2, <2>3 DEF CanFulfil
  <2> QED
    BY <2>3, <2>4 DEF SubmitBid
<1> QED
  BY <1>1, InitBiddingInv, NextBiddingInv, PTL DEF Spec

\* Whatever the weights, even if they do not sum to one, no bid on the table
\* is better than the one chosen.
THEOREM ChoiceUndominated == Spec => []WinnerUndominated
<1>1. BiddingInv => WinnerUndominated
  <2> SUFFICES ASSUME BiddingInv, phase \in {"award_contract", "execute"},
                      NEW i \in DOMAIN bids,
                      Dominates(bids[i], winner, requirement.criteria)
               PROVE  FALSE
    BY DEF WinnerUndominated
  <2>1. winner = Winner(bids, requirement.criteria)
    BY DEF BiddingInv
  <2> QED
    BY <2>1, BidsType, RequirementType, NoneDominates DEF BiddingInv
<1> QED
  BY <1>1, InitBiddingInv, NextBiddingInv, PTL DEF Spec

\* Quoting every bid in another unit, or adding one fee to all, elects the
\* same producer.
THEOREM ChoiceUnitFree == Spec => []WinnerUnitFree
<1>1. BiddingInv => WinnerUnitFree
  <2> SUFFICES ASSUME BiddingInv, phase = "award_contract",
                      NEW unit \in 1 .. 3, NEW fee \in {0, 75}
               PROVE  Winner(Requoted(unit, fee), requirement.criteria).producer
                        = winner.producer
    BY DEF WinnerUnitFree
  <2>1. winner = Winner(bids, requirement.criteria) /\ DOMAIN bids # {}
    BY DEF BiddingInv
  <2>2. Requoted(unit, fee) = RequotedList(bids, unit, fee)
    BY DEF Requoted, RequotedList
  <2>3. unit \in Nat \ {0} /\ fee \in Nat
    OBVIOUS
  <2> QED
    BY <2>1, <2>2, <2>3, BidsType, RequirementType, RequotedWinner
       DEF BiddingInv
<1> QED
  BY <1>1, InitBiddingInv, NextBiddingInv, PTL DEF Spec
=============================================================================
