-------------------------- MODULE StakeScheduleProofs --------------------------
(***************************************************************************)
(* Facts about the stake and refund schedule that hold for every valid     *)
(* configuration and every amount: the buckets stay inside their tables,   *)
(* a refund is a share of the stake, and full delivery refunds all of it.  *)
(***************************************************************************)
EXTENDS StakeSchedule, TLAPS, WellFoundedInduction

(* Every non-empty set of natural numbers has a least element.             *)
LEMMA LeastExists ==
  ASSUME NEW T, T \subseteq Nat, T # {}
  PROVE  \E i \in T : \A j \in T : i <= j
<1> DEFINE R == OpToRel(<, Nat)
<1>1. IsWellFoundedOn(R, Nat)
  BY NatLessThanWellFounded
<1>2. PICK x \in T : \A y \in T : ~(<<y, x>> \in R)
  <2> HIDE DEF R
  <2> QED BY <1>1, WFMin
<1>3. \A y \in T : ~(y < x)
  BY <1>2 DEF OpToRel
<1> QED BY <1>3

LEMMA EntryIn ==
  ASSUME NEW q \in Seq(Nat), NEW i \in 1..Len(q)
  PROVE  q[i] \in Nat
OBVIOUS

(* The bucket loops of DynamicStakeLib return one of the n + 1 buckets     *)
(* that n thresholds make.                                                 *)
LEMMA FirstOrIn ==
  ASSUME NEW n \in Nat, NEW S, S \subseteq 1..n
  PROVE  FirstOr(S, n + 1) \in 1..(n + 1)
<1>1. CASE S = {}
  BY <1>1 DEF FirstOr
<1>2. CASE S # {}
  <2>1. S \subseteq Nat /\ S \subseteq 1..(n + 1)
    OBVIOUS
  <2>2. \E i \in S : \A j \in S : i <= j
    BY <1>2, <2>1, LeastExists, Zenon
  <2>3. (CHOOSE i \in S : \A j \in S : i <= j) \in S
    BY <2>2
  <2>4. FirstOr(S, n + 1) \in S
    BY <1>2, <2>3, Zenon DEF FirstOr
  <2> QED BY <2>1, <2>4, Zenon
<1> QED BY <1>1, <1>2

LEMMA SizeBucketInRange ==
  ASSUME NEW thresholds \in Seq(Nat), NEW notional \in Nat
  PROVE  getOrderSizeBucketETH(notional, thresholds) \in 1..(Len(thresholds) + 1)
BY FirstOrIn DEF getOrderSizeBucketETH

LEMMA TimeBucketInRange ==
  ASSUME NEW thresholds \in Seq(Nat), NEW left \in Int
  PROVE  getTimeBucket(left, thresholds) \in 1..(Len(thresholds) + 1)
BY FirstOrIn DEF getTimeBucket

LEMMA RatioBucketInRange ==
  ASSUME NEW thresholds \in Seq(Nat), NEW fill \in Nat, NEW total \in Nat
  PROVE  getFillRatioBucket(fill, total, thresholds) \in 1..(Len(thresholds) + 1)
BY FirstOrIn DEF getFillRatioBucket

-----------------------------------------------------------------------------
LEMMA MulDivNat ==
  ASSUME NEW a \in Nat, NEW b \in Nat, NEW d \in Nat \ {0}
  PROVE  mulDiv(a, b, d) \in Nat
BY DEF mulDiv

(* Row s of a row-major table with c rows of n entries lies inside it.      *)
LEMMA RowInTable ==
  ASSUME NEW c \in Nat, NEW n \in Nat, NEW s \in 1..c, NEW r \in 1..n
  PROVE  (s - 1) * n + r \in 1..(c * n)
<1>1. s * n <= c * n
  <2>1. PICK d \in Nat : c = s + d
    <3>1. c - s \in Nat /\ c = s + (c - s)
      OBVIOUS
    <3> QED BY <3>1
  <2>2. d * n \in Nat /\ c * n = s * n + d * n
    BY <2>1
  <2> QED BY <2>2
<1>2. (s - 1) * n = s * n - n
  OBVIOUS
<1>3. (s - 1) * n \in Nat
  <2>1. s - 1 \in Nat
    OBVIOUS
  <2>2. \A i, j \in Nat : i * j \in Nat
    OBVIOUS
  <2> QED BY <2>1, <2>2
<1>4. s * n \in Nat /\ c * n \in Nat
  OBVIOUS
<1> QED BY <1>1, <1>2, <1>3, <1>4

(* A share of at most the whole is at most the amount.                     *)
LEMMA ShareAtMost ==
  ASSUME NEW a \in Nat, NEW share \in 0..BPS
  PROVE  mulDiv(a, share, BPS) \in 0..a
<1>1. ASSUME NEW x \in Nat, x <= a * 10000
      PROVE  x \div 10000 \in 0..a
  BY <1>1
<1>2. a * share \in Nat /\ a * share <= a * 10000
  BY DEF BPS
<1>3. (a * share) \div 10000 \in 0..a
  BY <1>1, <1>2
<1> QED BY <1>3 DEF mulDiv, BPS

LEMMA WholeShare ==
  ASSUME NEW a \in Nat
  PROVE  mulDiv(a, BPS, BPS) = a
BY DEF mulDiv, BPS

(* DynamicStakeLib.computeRefund never returns more than the stake.        *)
THEOREM RefundWithinStake ==
  ASSUME NEW stake \in Nat, NEW fill \in Nat, NEW committed \in Nat,
         NEW row, NEW thresholds, RowFits(row, thresholds)
  PROVE  computeRefund(stake, fill, committed, row, thresholds) \in 0..stake
<1> DEFINE b == getFillRatioBucket(fill, committed, thresholds)
<1>1. b \in 1..Len(row)
  BY RatioBucketInRange DEF RowFits
<1>2. row[b] \in 0..BPS
  <2> HIDE DEF b
  <2> QED BY <1>1 DEF RowFits
<1>3. mulDiv(stake, row[b], BPS) \in 0..stake
  BY <1>2, ShareAtMost
<1> QED BY <1>3 DEF computeRefund

(* Delivering all of what was asked for returns all of the stake, whatever *)
(* the thresholds are.                                                     *)
THEOREM FullFillRefundsStake ==
  ASSUME NEW stake \in Nat, NEW fill \in Nat, NEW committed \in Nat,
         fill >= committed,
         NEW row, NEW thresholds, RowFits(row, thresholds)
  PROVE  computeRefund(stake, fill, committed, row, thresholds) = stake
<1>1. getFillRatioBucket(fill, committed, thresholds) = Len(row)
  BY DEF getFillRatioBucket, RowFits
<1>2. row[getFillRatioBucket(fill, committed, thresholds)] = BPS
  BY <1>1 DEF RowFits
<1>3. computeRefund(stake, fill, committed, row, thresholds) = mulDiv(stake, BPS, BPS)
  BY <1>2 DEF computeRefund
<1> QED BY <1>3, WholeShare

-----------------------------------------------------------------------------
(* FillAuction.register takes a natural stake and a row that fits from any *)
(* configuration of the right shape.                                       *)
THEOREM RegistrationTerms ==
  ASSUME NEW cfg \in StakeConfig, WellShaped(cfg), RefundsWellFormed(cfg),
         NEW notional \in Nat, NEW left \in Int
  PROVE  LET terms == computeRegistration(cfg, notional, left)
         IN  /\ terms.required \in Nat
             /\ RowFits(terms.refundRow, terms.ratioSnapshot)
<1> DEFINE s == getOrderSizeBucketETH(notional, cfg.sizeThresholds)
           t == getTimeBucket(left, cfg.timeThresholds)
           n == NumRatioBuckets(cfg)
           row == RefundRow(cfg, s)
<1>1. /\ cfg.sizeThresholds \in Seq(Nat) /\ cfg.collateralRate \in Seq(Nat)
      /\ cfg.timeThresholds \in Seq(Nat) /\ cfg.timeMult \in Seq(Nat)
      /\ cfg.ratioThresholds \in Seq(Nat) /\ cfg.refundTable \in Seq(Nat)
      /\ cfg.minCollateral \in Nat
  BY DEF StakeConfig
<1>2. s \in 1..Len(cfg.collateralRate) /\ t \in 1..Len(cfg.timeMult)
  BY <1>1, SizeBucketInRange, TimeBucketInRange DEF WellShaped
<1>3. n \in Nat /\ n = Len(cfg.ratioThresholds) + 1
  BY <1>1 DEF NumRatioBuckets
<1> HIDE DEF s, t
<1>4. requiredStake(cfg, notional, left) \in Nat
  <2>1. cfg.collateralRate[s] \in Nat /\ cfg.timeMult[t] \in Nat
    BY <1>1, <1>2, EntryIn, Zenon
  <2>2. computeCollateral(cfg, notional, left) \in Nat
    <3>0. BPS \in Nat \ {0}
      BY DEF BPS
    <3>1. mulDiv(notional, cfg.collateralRate[s], BPS) \in Nat
      BY <2>1, <3>0, MulDivNat
    <3>2. mulDiv(mulDiv(notional, cfg.collateralRate[s], BPS), cfg.timeMult[t], BPS) \in Nat
      BY <2>1, <3>0, <3>1, MulDivNat
    <3> QED BY <3>2 DEF computeCollateral, s, t
  <2> QED BY <1>1, <2>2 DEF requiredStake
<1>5. RowFits(row, cfg.ratioThresholds)
  <2>1. \A r \in 1..n : (s - 1) * n + r \in 1..Len(cfg.refundTable)
    <3>1. Len(cfg.refundTable) = Len(cfg.collateralRate) * n
      BY DEF WellShaped
    <3> HIDE DEF n
    <3>2. Len(cfg.collateralRate) \in Nat
      BY <1>1
    <3>3. \A r \in 1..n : (s - 1) * n + r \in 1..(Len(cfg.collateralRate) * n)
      BY <1>2, <1>3, <3>2, RowInTable, Zenon
    <3> QED BY <3>1, <3>3
  <2>2. \A r \in 1..n : cfg.refundTable[(s - 1) * n + r] \in Nat
    BY <1>1, <2>1, EntryIn, Zenon
  <2>3. row \in [1..n -> Nat]
    BY <2>2 DEF RefundRow
  <2>4. row \in Seq(Nat) /\ Len(row) = n
    BY <1>3, <2>3
  <2>5. (\A r \in 1..n : row[r] <= BPS) /\ row[n] = BPS
    BY <1>2 DEF RefundsWellFormed
  <2> QED BY <1>1, <1>3, <2>4, <2>5 DEF RowFits
<1> QED BY <1>4, <1>5 DEF computeRegistration, s
-----------------------------------------------------------------------------
(* What steps up from entry to entry goes up over any distance.            *)
LEMMA StepwiseMonotone ==
  ASSUME NEW n \in Nat, NEW f, \A i \in 1..n : f[i] \in Nat,
         \A i \in 2..n : f[i - 1] <= f[i],
         NEW a \in 1..n, NEW b \in a..n
  PROVE  f[a] <= f[b]
<1> DEFINE T == {k \in a..n : ~(f[a] <= f[k])}
<1>1. SUFFICES ASSUME T # {} PROVE FALSE
  BY <1>1
<1>2. T \subseteq Nat
  OBVIOUS
<1>3. PICK k \in T : \A j \in T : k <= j
  <2> HIDE DEF T
  <2> QED BY <1>1, <1>2, LeastExists, Zenon
<1>4. k \in a..n /\ ~(f[a] <= f[k]) /\ k # a
  OBVIOUS
<1>5. k - 1 \in a..n /\ k \in 2..n /\ k - 1 \in 1..n /\ k \in 1..n
  BY <1>4
<1>6. k - 1 \notin T
  BY <1>3, <1>5
<1>7. f[a] <= f[k - 1]
  BY <1>5, <1>6
<1>8. f[k - 1] <= f[k] /\ f[a] \in Nat /\ f[k - 1] \in Nat /\ f[k] \in Nat
  BY <1>5
<1> HIDE DEF T
<1> QED BY <1>4, <1>7, <1>8

LEMMA GreatestExists ==
  ASSUME NEW n \in Nat, NEW T, T \subseteq 1..n, T # {}
  PROVE  \E i \in T : \A j \in T : j <= i
<1> DEFINE U == {n - x : x \in T}
<1>1. U \subseteq Nat /\ U # {}
  <2>1. \A x \in T : n - x \in Nat
    OBVIOUS
  <2>2. U \subseteq Nat
    BY <2>1
  <2>3. U # {}
    BY Zenon
  <2> QED BY <2>2, <2>3
<1>2. PICK u \in U : \A v \in U : u <= v
  <2> HIDE DEF U
  <2> QED BY <1>1, LeastExists, Zenon
<1>3. PICK i \in T : u = n - i
  OBVIOUS
<1>4. ASSUME NEW j \in T PROVE j <= i
  <2>1. n - j \in U
    OBVIOUS
  <2>2. n - i <= n - j
    BY <1>2, <1>3, <2>1
  <2>3. i \in Int /\ j \in Int /\ n \in Int
    OBVIOUS
  <2> HIDE DEF U
  <2> QED BY <2>2, <2>3
<1> QED BY <1>4

LEMMA ProductMonotone ==
  ASSUME NEW k \in Nat, NEW a \in Nat, NEW b \in Nat, a <= b
  PROVE  k * a <= k * b
<1>1. b - a \in Nat /\ b = a + (b - a)
  OBVIOUS
<1>2. PICK d \in Nat : b = a + d
  BY <1>1
<1>3. k * b = k * a + k * d /\ k * d \in Nat /\ k * a \in Nat
  BY <1>2
<1> QED BY <1>3

(* Whole-number division.                                                  *)
LEMMA Division ==
  ASSUME NEW x \in Nat, NEW e \in Nat \ {0}
  PROVE  /\ x \div e \in Nat /\ (x \div e) * e <= x
         /\ x < (x \div e) * e + e
<1> DEFINE q == x \div e
<1>1. q \in Nat /\ x = q * e + (x % e) /\ x % e \in 0 .. e - 1
  OBVIOUS
<1>2. q * e \in Nat
  <2> HIDE DEF q
  <2> QED BY <1>1
<1> HIDE DEF q
<1>3. q * e <= x /\ x < q * e + e
  BY <1>1, <1>2
<1> QED BY <1>1, <1>3 DEF q

LEMMA CancelFactor ==
  ASSUME NEW k \in Nat \ {0}, NEW a \in Nat, NEW b \in Nat, k * a <= k * b
  PROVE  a <= b
<1> SUFFICES ASSUME b < a PROVE FALSE
  OBVIOUS
<1>1. b + 1 <= a /\ b + 1 \in Nat
  OBVIOUS
<1>2. k * (b + 1) <= k * a
  BY <1>1, ProductMonotone
<1>3. k * (b + 1) = k * b + k /\ k * b \in Nat /\ k * a \in Nat
  OBVIOUS
<1> QED BY <1>2, <1>3

(* A quotient reaches what the product reaches.                            *)
LEMMA QuotientReaches ==
  ASSUME NEW x \in Nat, NEW e \in Nat \ {0}, NEW m \in Nat, m * e <= x
  PROVE  m <= x \div e
<1> DEFINE q == x \div e
<1>1. q \in Nat /\ x < q * e + e
  BY Division
<1> HIDE DEF q
<1> SUFFICES ASSUME q < m PROVE FALSE
  BY <1>1 DEF q
<1>2. q + 1 <= m /\ q + 1 \in Nat
  BY <1>1
<1>3. e * (q + 1) <= e * m
  BY <1>2, ProductMonotone
<1>4. e * (q + 1) = q * e + e /\ e * m = m * e /\ q * e \in Nat /\ m * e \in Nat
  BY <1>1
<1> QED BY <1>1, <1>3, <1>4

LEMMA QuotientMonotone ==
  ASSUME NEW x \in Nat, NEW y \in Nat, NEW e \in Nat \ {0}, x <= y
  PROVE  x \div e <= y \div e
<1> DEFINE q == x \div e
<1>1. q \in Nat /\ q * e <= x
  BY Division
<1>2. q * e \in Nat
  <2> HIDE DEF q
  <2> QED BY <1>1
<1> HIDE DEF q
<1>3. q * e <= y
  BY <1>1, <1>2
<1>4. q <= y \div e
  BY <1>1, <1>3, QuotientReaches
<1> QED BY <1>4 DEF q

(* Where the price for the whole covers the minimum for the whole, the     *)
(* price for a part covers the part of the minimum, roundings included.    *)
LEMMA PartPays ==
  ASSUME NEW minimum \in Nat, NEW whole \in Nat \ {0}, NEW part \in Nat, NEW price \in Nat,
         NEW one \in Nat \ {0}, minimum * one <= whole * price
  PROVE  mulDiv(minimum, part, whole) <= mulDiv(part, price, one)
<1> DEFINE due == (minimum * part) \div whole
<1>1. minimum * part \in Nat /\ part * price \in Nat /\ minimum * one \in Nat /\ whole * price \in Nat
  OBVIOUS
<1>2. due \in Nat /\ due * whole <= minimum * part
  BY <1>1, Division
<1> HIDE DEF due
<1>3. one * (due * whole) <= one * (minimum * part)
  <2>1. due * whole \in Nat
    BY <1>2
  <2> QED BY <1>1, <1>2, <2>1, ProductMonotone
<1>4. part * (minimum * one) <= part * (whole * price)
  BY <1>1, ProductMonotone
<1>5. /\ one * (minimum * part) = part * (minimum * one)
      /\ part * (whole * price) = whole * (part * price)
      /\ one * (due * whole) = whole * (due * one)
  BY <1>2
<1>6. due * one \in Nat /\ one * (due * whole) \in Nat /\ one * (minimum * part) \in Nat
      /\ part * (whole * price) \in Nat
  BY <1>1, <1>2
<1>7. whole * (due * one) <= whole * (part * price)
  BY <1>3, <1>4, <1>5, <1>6
<1>8. due * one <= part * price
  BY <1>1, <1>6, <1>7, CancelFactor
<1>9. due <= (part * price) \div one
  BY <1>1, <1>2, <1>8, QuotientReaches
<1> QED BY <1>9 DEF due, mulDiv

(* A quotient that reaches a bound comes of a product that does.           *)
LEMMA QuotientBound ==
  ASSUME NEW x \in Nat, NEW e \in Nat \ {0}, NEW m \in Nat, x \div e >= m
  PROVE  x >= m * e
<1> DEFINE q == x \div e
<1>1. q \in Nat /\ x = q * e + (x % e) /\ x % e \in Nat
  OBVIOUS
<1>2. e * m <= e * q
  <2> HIDE DEF q
  <2> QED BY <1>1, ProductMonotone
<1>3. q * e \in Nat /\ e * q = q * e /\ e * m = m * e /\ m * e \in Nat
  <2> HIDE DEF q
  <2> QED BY <1>1
<1> HIDE DEF q
<1> QED BY <1>1, <1>2, <1>3

(* The row of a valid configuration, and its last penalised bucket.        *)
LEMMA RowOfConfig ==
  ASSUME NEW cfg \in StakeConfig, WellShaped(cfg), NEW s \in 1..Len(cfg.collateralRate)
  PROVE  \A r \in 1..NumRatioBuckets(cfg) : RefundRow(cfg, s)[r] \in Nat
<1> DEFINE n == NumRatioBuckets(cfg)
<1>1. /\ cfg.collateralRate \in Seq(Nat) /\ cfg.ratioThresholds \in Seq(Nat)
      /\ cfg.refundTable \in Seq(Nat)
  BY DEF StakeConfig
<1>2. n \in Nat /\ Len(cfg.collateralRate) \in Nat
  BY <1>1 DEF NumRatioBuckets
<1>3. Len(cfg.refundTable) = Len(cfg.collateralRate) * n
  BY DEF WellShaped
<1> HIDE DEF n
<1>4. \A r \in 1..n : (s - 1) * n + r \in 1..Len(cfg.refundTable)
  BY <1>2, <1>3, RowInTable, Zenon
<1>5. \A r \in 1..n : cfg.refundTable[(s - 1) * n + r] \in Nat
  BY <1>1, <1>4, EntryIn, Zenon
<1> QED BY <1>5 DEF RefundRow, n

LEMMA LastPenalisedIn ==
  ASSUME NEW cfg \in StakeConfig, NEW s, Penalised(cfg, s) # {}
  PROVE  /\ LastPenalised(cfg, s) \in Penalised(cfg, s)
         /\ \A r \in Penalised(cfg, s) : r <= LastPenalised(cfg, s)
<1>1. Len(cfg.ratioThresholds) \in Nat /\ NumRatioBuckets(cfg) - 1 = Len(cfg.ratioThresholds)
  BY DEF StakeConfig, NumRatioBuckets
<1>2. Penalised(cfg, s) \subseteq 1..Len(cfg.ratioThresholds)
  BY <1>1 DEF Penalised
<1>3. \E i \in Penalised(cfg, s) : \A j \in Penalised(cfg, s) : j <= i
  BY <1>1, <1>2, GreatestExists, Zenon
<1> QED BY <1>3, Zenon DEF LastPenalised

(* A delivered fraction lies under the threshold of its ratio bucket.      *)
LEMMA FillBelowThreshold ==
  ASSUME NEW thresholds \in Seq(Nat), NEW fill \in 0..(BPS - 1),
         NEW r \in 1..Len(thresholds), r = getFillRatioBucket(fill, BPS, thresholds)
  PROVE  fill < thresholds[r]
<1> DEFINE n == Len(thresholds)
           S == {i \in 1..n : mulDiv(fill, BPS, BPS) < thresholds[i]}
<1>1. n \in Nat /\ fill \in Nat /\ ~(fill >= BPS)
  BY DEF BPS
<1>2. r = FirstOr(S, n + 1)
  BY <1>1 DEF getFillRatioBucket
<1>3. S # {}
  <2> HIDE DEF S
  <2> QED BY <1>1, <1>2 DEF FirstOr
<1>4. r = CHOOSE i \in S : \A j \in S : i <= j
  <2> HIDE DEF S
  <2> QED BY <1>2, <1>3, Zenon DEF FirstOr
<1>5. \E i \in S : \A j \in S : i <= j
  <2>1. S \subseteq Nat
    OBVIOUS
  <2> HIDE DEF S
  <2> QED BY <1>3, <2>1, LeastExists, Zenon
<1>6. r \in S
  <2> HIDE DEF S
  <2> QED BY <1>4, <1>5, Zenon
<1>7. mulDiv(fill, BPS, BPS) = fill
  BY <1>1, WholeShare
<1> QED BY <1>6, <1>7

(* The worst case is no better than what any penalised row offers at its   *)
(* last penalised edge.                                                    *)
LEMMA WorstCaseBounds ==
  ASSUME NEW cfg \in StakeConfig, WellShaped(cfg), RefundsWellFormed(cfg),
         NEW minKappa \in Nat \ {0}, worstCaseKappaBps(cfg) >= minKappa,
         NEW s \in 1..Len(cfg.collateralRate), NEW t \in 1..Len(cfg.timeMult)
  PROVE  /\ worstCaseKappaBps(cfg) \in Nat
         /\ LastEdge(cfg, s) \in Nat \ {0} /\ KappaAt(cfg, s, t) >= minKappa
<1> DEFINE S == 1..Len(cfg.collateralRate)
<1>1. /\ cfg.collateralRate \in Seq(Nat) /\ cfg.timeMult \in Seq(Nat)
      /\ cfg.ratioThresholds \in Seq(Nat)
  BY DEF StakeConfig
<1>2. ~(\E x \in S : Penalised(cfg, x) = {} \/ LastEdge(cfg, x) = 0)
  <2>1. (\E x \in S : Penalised(cfg, x) = {} \/ LastEdge(cfg, x) = 0)
           => worstCaseKappaBps(cfg) = 0
    BY Zenon DEF worstCaseKappaBps
  <2> HIDE DEF S
  <2> QED BY <2>1
<1>3. worstCaseKappaBps(cfg) = CHOOSE k \in Kappas(cfg) : \A other \in Kappas(cfg) : k <= other
  BY <1>2, Zenon DEF worstCaseKappaBps
<1>4. ASSUME NEW x \in S
      PROVE  LastEdge(cfg, x) \in Nat \ {0} /\ BPS - RefundRow(cfg, x)[LastPenalised(cfg, x)] \in Nat
  <2>1. LastPenalised(cfg, x) \in Penalised(cfg, x)
    BY <1>2, LastPenalisedIn, Zenon
  <2>2. /\ LastPenalised(cfg, x) \in 1..(NumRatioBuckets(cfg) - 1)
        /\ RefundRow(cfg, x)[LastPenalised(cfg, x)] < BPS
    BY <2>1, Zenon DEF Penalised
  <2>3. Len(cfg.ratioThresholds) \in Nat /\ NumRatioBuckets(cfg) = Len(cfg.ratioThresholds) + 1
    BY <1>1 DEF NumRatioBuckets
  <2>4. /\ LastPenalised(cfg, x) \in 1..Len(cfg.ratioThresholds)
        /\ LastPenalised(cfg, x) \in 1..NumRatioBuckets(cfg)
    BY <2>2, <2>3
  <2>5. LastEdge(cfg, x) \in Nat
    BY <1>1, <2>4, EntryIn, Zenon DEF LastEdge
  <2>6. RefundRow(cfg, x)[LastPenalised(cfg, x)] \in Nat
    BY <2>4, RowOfConfig, Zenon
  <2>7. BPS - RefundRow(cfg, x)[LastPenalised(cfg, x)] \in Nat
    BY <2>2, <2>6 DEF BPS
  <2> QED BY <1>2, <2>5, <2>7
<1>5. ASSUME NEW x \in S, NEW y \in 1..Len(cfg.timeMult)
      PROVE  KappaAt(cfg, x, y) \in Nat
  <2>1. cfg.collateralRate[x] \in Nat /\ cfg.timeMult[y] \in Nat
    BY <1>1, EntryIn, Zenon
  <2>2. BPS \in Nat \ {0}
    BY DEF BPS
  <2>3. mulDiv(cfg.collateralRate[x], cfg.timeMult[y], BPS) \in Nat
    BY <2>1, <2>2, MulDivNat, Zenon
  <2> QED BY <1>4, <2>3, MulDivNat, Zenon DEF KappaAt
<1>6. Kappas(cfg) \subseteq Nat /\ KappaAt(cfg, s, t) \in Kappas(cfg)
  <2>1. \A k \in S \X (1..Len(cfg.timeMult)) : KappaAt(cfg, k[1], k[2]) \in Nat
    BY <1>5
  <2>2. <<s, t>> \in S \X (1..Len(cfg.timeMult)) /\ <<s, t>>[1] = s /\ <<s, t>>[2] = t
    OBVIOUS
  <2> QED BY <2>1, <2>2 DEF Kappas
<1>7. worstCaseKappaBps(cfg) \in Nat /\ worstCaseKappaBps(cfg) <= KappaAt(cfg, s, t)
  <2>1. \E k \in Kappas(cfg) : \A other \in Kappas(cfg) : k <= other
    BY <1>6, LeastExists, Zenon
  <2>2. /\ worstCaseKappaBps(cfg) \in Kappas(cfg)
        /\ \A other \in Kappas(cfg) : worstCaseKappaBps(cfg) <= other
    BY <1>3, <2>1, Zenon
  <2> QED BY <1>6, <2>2, Zenon
<1>8. KappaAt(cfg, s, t) >= minKappa
  BY <1>5, <1>7
<1> QED BY <1>4, <1>7, <1>8

(* FillAuction's kappa floor: under a valid configuration, whoever stops   *)
(* in a penalised ratio bucket forfeits at least minKappa, in basis points *)
(* of what it delivered.                                                   *)
THEOREM AbandoningIsDeterred ==
  ASSUME NEW cfg \in StakeConfig, WellShaped(cfg), WellOrdered(cfg), RefundsWellFormed(cfg),
         NEW minKappa \in Nat, worstCaseKappaBps(cfg) >= minKappa,
         NEW s \in 1..Len(cfg.collateralRate), NEW t \in 1..Len(cfg.timeMult),
         NEW fill \in 0..(BPS - 1),
         RefundRow(cfg, s)[getFillRatioBucket(fill, BPS, cfg.ratioThresholds)] < BPS
  PROVE  mulDiv(cfg.collateralRate[s], cfg.timeMult[t], BPS)
             * (BPS - RefundRow(cfg, s)[getFillRatioBucket(fill, BPS, cfg.ratioThresholds)])
           >= minKappa * fill
<1> DEFINE n == Len(cfg.ratioThresholds)
           row == RefundRow(cfg, s)
           r == getFillRatioBucket(fill, BPS, cfg.ratioThresholds)
           last == LastPenalised(cfg, s)
           edge == cfg.ratioThresholds[last]
           charge == mulDiv(cfg.collateralRate[s], cfg.timeMult[t], BPS)
<1>1. /\ cfg.collateralRate \in Seq(Nat) /\ cfg.timeMult \in Seq(Nat)
      /\ cfg.ratioThresholds \in Seq(Nat) /\ n \in Nat /\ NumRatioBuckets(cfg) = n + 1
  BY DEF StakeConfig, NumRatioBuckets
<1>0. /\ \A i \in 1..n : cfg.ratioThresholds[i] \in Nat
      /\ \A i \in 2..n : cfg.ratioThresholds[i] > cfg.ratioThresholds[i - 1]
  BY <1>1, EntryIn, Zenon DEF WellOrdered, Increasing
<1>a. r \in 1..(n + 1) /\ (r \in 1..n => fill < cfg.ratioThresholds[r])
  <2>1. fill \in Nat /\ BPS \in Nat
    BY DEF BPS
  <2>2. r \in 1..(n + 1)
    BY <1>1, <2>1, RatioBucketInRange, Zenon
  <2> QED BY <1>1, <2>2, FillBelowThreshold, Zenon
<1>b. (n + 1) - 1 = n
  BY <1>1
<1>2. fill \in Nat /\ BPS \in Nat \ {0}
  BY DEF BPS
<1>3. charge \in Nat
  <2>1. cfg.collateralRate[s] \in Nat /\ cfg.timeMult[t] \in Nat
    BY <1>1, EntryIn, Zenon
  <2> QED BY <1>2, <2>1, MulDivNat
<1>4. \A i \in 1..(n + 1) : row[i] \in Nat /\ row[i] <= BPS
  BY <1>1, RowOfConfig DEF RefundsWellFormed
<1>p. \A i \in 1..n : row[i] < BPS => i \in Penalised(cfg, s)
  BY <1>1, <1>b, Zenon DEF Penalised
<1>q. \A i \in Penalised(cfg, s) : i \in 1..n /\ row[i] < BPS
  BY <1>1, <1>b, Zenon DEF Penalised
<1>c. /\ row[n + 1] = BPS
      /\ \A i \in 2..(n + 1) : row[i - 1] <= row[i]
  BY <1>1, Zenon DEF RefundsWellFormed
<1>d. row[r] < BPS
  OBVIOUS
<1> HIDE DEF n, r, row
<1>5. r \in 1..n
  <2>1. row[n + 1] = BPS /\ ~(BPS < BPS)
    <3>1. ~(BPS < BPS)
      BY DEF BPS
    <3> QED BY <1>c, <3>1, Zenon
  <2>2. r # n + 1
    BY <1>d, <2>1, Zenon
  <2> QED BY <1>1, <1>a, <2>2
<1>6. r \in Penalised(cfg, s)
  BY <1>d, <1>p, <1>5
<1>7. last \in 1..n /\ row[last] < BPS /\ r <= last
  <2>1. last \in Penalised(cfg, s) /\ r <= last
    BY <1>6, LastPenalisedIn, Zenon
  <2> QED BY <1>q, <2>1, Zenon
<1> HIDE DEF last, charge
<1>8. fill < edge
  <2>1. fill < cfg.ratioThresholds[r]
    BY <1>5, <1>a
  <2>2. cfg.ratioThresholds[r] <= cfg.ratioThresholds[last]
    <3>1. \A i \in 2..n : cfg.ratioThresholds[i - 1] <= cfg.ratioThresholds[i]
      <4>1. \A i \in 2..n : i \in 1..n /\ i - 1 \in 1..n
        BY <1>1
      <4> QED BY <1>0, <4>1
    <3>2. last \in r..n
      BY <1>1, <1>5, <1>7
    <3> QED BY <1>0, <1>1, <1>5, <3>1, <3>2, StepwiseMonotone, Zenon
  <2>3. cfg.ratioThresholds[r] \in Nat /\ cfg.ratioThresholds[last] \in Nat
    BY <1>0, <1>5, <1>7
  <2> QED BY <1>2, <2>1, <2>2, <2>3
<1>9. row[r] <= row[last] /\ row[r] \in Nat /\ row[last] \in Nat /\ row[r] <= BPS
  <2>1. \A i \in 1..(n + 1) : row[i] \in Nat
    BY <1>4
  <2>2. r \in 1..(n + 1) /\ last \in r..(n + 1) /\ last \in 1..(n + 1) /\ n + 1 \in Nat
    BY <1>1, <1>5, <1>7
  <2>3. row[r] <= row[last]
    BY <1>c, <2>1, <2>2, StepwiseMonotone, Zenon
  <2> QED BY <1>4, <2>2, <2>3
<1>10. CASE minKappa = 0
  <2>1. BPS - row[r] \in Nat
    BY <1>2, <1>9
  <2>2. charge * (BPS - row[r]) \in Nat
    BY <1>3, <2>1
  <2>3. minKappa * fill = 0
    BY <1>2, <1>10
  <2> QED BY <2>2, <2>3 DEF charge, row, r
<1>11. CASE minKappa # 0
  <2>1. edge \in Nat \ {0} /\ mulDiv(charge, BPS - row[last], edge) >= minKappa
    <3>1. minKappa \in Nat \ {0}
      BY <1>11
    <3>2. LastEdge(cfg, s) \in Nat \ {0} /\ KappaAt(cfg, s, t) >= minKappa
      BY <3>1, WorstCaseBounds, Zenon
    <3>3. LastEdge(cfg, s) = edge
      BY Zenon DEF edge, last, LastEdge
    <3>4. KappaAt(cfg, s, t) = mulDiv(charge, BPS - row[last], edge)
      BY <3>3, Zenon DEF KappaAt, charge, row, last
    <3> QED BY <3>2, <3>3, <3>4, Zenon
  <2>2. BPS - row[last] \in Nat /\ BPS - row[r] \in Nat /\ BPS - row[last] <= BPS - row[r]
    BY <1>2, <1>7, <1>9
  <2>3. charge * (BPS - row[last]) >= minKappa * edge
    <3>1. charge * (BPS - row[last]) \in Nat
      BY <1>3, <2>2
    <3> HIDE DEF edge
    <3> QED BY <2>1, <3>1, QuotientBound DEF mulDiv
  <2>4. charge * (BPS - row[last]) <= charge * (BPS - row[r])
    BY <1>3, <2>2, ProductMonotone
  <2>5. minKappa * fill <= minKappa * edge
    <3> HIDE DEF edge
    <3> QED BY <1>2, <1>8, <2>1, ProductMonotone
  <2>6. /\ charge * (BPS - row[last]) \in Nat /\ charge * (BPS - row[r]) \in Nat
        /\ minKappa * fill \in Nat /\ minKappa * edge \in Nat
    <3> HIDE DEF edge
    <3> QED BY <1>2, <1>3, <2>1, <2>2
  <2>7. charge * (BPS - row[r]) >= minKappa * fill
    BY <2>3, <2>4, <2>5, <2>6
  <2> QED BY <2>7 DEF charge, row, r
<1> QED BY <1>10, <1>11
=============================================================================
