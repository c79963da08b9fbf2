---------------------------- MODULE StakeSchedule ----------------------------
(***************************************************************************)
(* The pure part of contract/src/libs/DynamicStakeLib.sol: what a filler   *)
(* must stake to register for part of an order, and which share of the     *)
(* stake comes back when the chunk is delivered.                           *)
(*                                                                         *)
(* Buckets are numbered from 1 here and from 0 in the source; a bucket     *)
(* index is only ever used to pick an entry of an array, so the shift is   *)
(* applied to both.  Amounts are natural numbers: the library multiplies   *)
(* with FullMath.mulDiv, which keeps the 512-bit product, so no product    *)
(* wraps.  A deadline enters only through the blocks (or seconds) left     *)
(* before it; left <= 0 stands for a deadline that has been reached.       *)
(*                                                                         *)
(* An operator X_Something under a comment "Fault", here and in the other  *)
(* modules, is X with a plausible bug put in.  No specification uses it:   *)
(* it shows which property notices the bug.                                *)
(***************************************************************************)
EXTENDS Integers, Sequences

BPS == 10000

(* The fields of the StakeConfig struct.                                   *)
StakeConfig ==
  [ sizeThresholds  : Seq(Nat), collateralRate : Seq(Nat),
    timeThresholds  : Seq(Nat), timeMult       : Seq(Nat),
    ratioThresholds : Seq(Nat), refundTable    : Seq(Nat),
    minCollateral   : Nat ]

(* FullMath.mulDiv(a, b, d): the floor of a * b / d.                       *)
mulDiv(a, b, d) == (a * b) \div d

(* The first index of S, or n when S is empty: the loops of the library    *)
(* return at the first threshold that fits and after the last otherwise.   *)
FirstOr(S, n) == IF S = {} THEN n ELSE CHOOSE i \in S : \A j \in S : i <= j

getOrderSizeBucketETH(notionalEth, thresholds) ==
  FirstOr({i \in 1..Len(thresholds) : notionalEth < thresholds[i]},
          Len(thresholds) + 1)

getFillRatioBucket(fill, total, thresholds) ==
  IF fill >= total
    THEN Len(thresholds) + 1
    ELSE FirstOr({i \in 1..Len(thresholds) :
                     mulDiv(fill, BPS, total) < thresholds[i]},
                 Len(thresholds) + 1)

getTimeBucket(left, thresholds) ==
  IF left <= 0
    THEN Len(thresholds) + 1
    ELSE FirstOr({i \in 1..Len(thresholds) : left > thresholds[i]},
                 Len(thresholds) + 1)

-----------------------------------------------------------------------------
computeCollateral(cfg, notionalEth, left) ==
  LET rateBps  == cfg.collateralRate[getOrderSizeBucketETH(notionalEth, cfg.sizeThresholds)]
      timeMult == cfg.timeMult[getTimeBucket(left, cfg.timeThresholds)]
  IN  mulDiv(mulDiv(notionalEth, rateBps, BPS), timeMult, BPS)

requiredStake(cfg, notionalEth, left) ==
  LET collateral == computeCollateral(cfg, notionalEth, left)
  IN  IF collateral < cfg.minCollateral THEN cfg.minCollateral ELSE collateral

(* The row of the flattened, row-major refund table for a size bucket.     *)
NumRatioBuckets(cfg) == Len(cfg.ratioThresholds) + 1

RefundRow(cfg, s) ==
  [r \in 1..NumRatioBuckets(cfg) |->
      cfg.refundTable[(s - 1) * NumRatioBuckets(cfg) + r]]

(* What FillAuction.register takes from the live configuration: the stake, *)
(* and the refund row and ratio thresholds settlement will use.            *)
computeRegistration(cfg, notionalEth, left) ==
  [ required      |-> requiredStake(cfg, notionalEth, left),
    refundRow     |-> RefundRow(cfg, getOrderSizeBucketETH(notionalEth, cfg.sizeThresholds)),
    ratioSnapshot |-> cfg.ratioThresholds ]

(* What settlement needs of those terms: a refund row with one entry per   *)
(* ratio bucket, none above the whole stake and the last one all of it.    *)
RowFits(refundRow, ratioThresholds) ==
  /\ refundRow \in Seq(Nat)
  /\ ratioThresholds \in Seq(Nat)
  /\ Len(refundRow) = Len(ratioThresholds) + 1
  /\ \A r \in 1..Len(refundRow) : refundRow[r] <= BPS
  /\ refundRow[Len(refundRow)] = BPS

(* Fault: the refund is left in basis points.                              *)
computeRefund_Unscaled(stake, fill, committed, refundRow, ratioThresholds) ==
  stake * refundRow[getFillRatioBucket(fill, committed, ratioThresholds)]

computeRefund(stake, fill, committed, refundRow, ratioThresholds) ==
  mulDiv(stake, refundRow[getFillRatioBucket(fill, committed, ratioThresholds)], BPS)

-----------------------------------------------------------------------------
(* validate.  The bounds are the constants FillAuction passes in; the 100% *)
(* refund is BPS.                                                          *)
Increasing(s) == \A i \in 2..Len(s) : s[i] > s[i - 1]
Decreasing(s) == \A i \in 2..Len(s) : s[i] < s[i - 1]

WellShaped(cfg) ==
  /\ Len(cfg.collateralRate) = Len(cfg.sizeThresholds) + 1
  /\ Len(cfg.timeMult) = Len(cfg.timeThresholds) + 1
  /\ Len(cfg.refundTable) = Len(cfg.collateralRate) * NumRatioBuckets(cfg)

WellOrdered(cfg) ==
  /\ Increasing(cfg.sizeThresholds)
  /\ Increasing(cfg.ratioThresholds)
  /\ Decreasing(cfg.timeThresholds)

RefundsWellFormed(cfg) ==
  \A s \in 1..Len(cfg.collateralRate) :
    LET row == RefundRow(cfg, s)
    IN  /\ \A r \in 1..NumRatioBuckets(cfg) : row[r] <= BPS
        /\ \A r \in 2..NumRatioBuckets(cfg) : row[r - 1] <= row[r]
        /\ row[NumRatioBuckets(cfg)] = BPS

(* The ratio buckets of a row in which a filler forfeits something.        *)
Penalised(cfg, s) ==
  {r \in 1..NumRatioBuckets(cfg) - 1 : RefundRow(cfg, s)[r] < BPS}

(* Fault: the loop stops at the first penalised bucket, not at the last.   *)
LastPenalised_First(cfg, s) ==
  CHOOSE r \in Penalised(cfg, s) : \A other \in Penalised(cfg, s) : r <= other

LastPenalised(cfg, s) ==
  CHOOSE r \in Penalised(cfg, s) : \A other \in Penalised(cfg, s) : other <= r

LastEdge(cfg, s) == cfg.ratioThresholds[LastPenalised(cfg, s)]

(* What stopping just under the last penalised threshold forfeits, in basis*)
(* points of what was delivered.                                           *)
KappaAt(cfg, s, t) ==
  mulDiv(mulDiv(cfg.collateralRate[s], cfg.timeMult[t], BPS),
         BPS - RefundRow(cfg, s)[LastPenalised(cfg, s)], LastEdge(cfg, s))

Kappas(cfg) ==
  {KappaAt(cfg, k[1], k[2]) : k \in (1..Len(cfg.collateralRate)) \X (1..Len(cfg.timeMult))}

(* The price edge at which stopping short starts to pay, in the cheapest   *)
(* bucket; 0 when a row penalises nothing.                                 *)
worstCaseKappaBps(cfg) ==
  LET kappas == Kappas(cfg)
  IN  IF \E s \in 1..Len(cfg.collateralRate) : Penalised(cfg, s) = {} \/ LastEdge(cfg, s) = 0
        THEN 0
        ELSE CHOOSE k \in kappas : \A other \in kappas : k <= other

(* Fault: the refund rows go unchecked.                                    *)
validate_RowsUnchecked(cfg, minRate, maxRate, maxBuckets, minKappa) ==
  /\ WellShaped(cfg)
  /\ WellOrdered(cfg)
  /\ \A s \in 1..Len(cfg.collateralRate) :
        cfg.collateralRate[s] >= minRate /\ cfg.collateralRate[s] <= maxRate
  /\ worstCaseKappaBps(cfg) >= minKappa

validate(cfg, minRate, maxRate, maxBuckets, minKappa) ==
  /\ WellShaped(cfg)
  /\ Len(cfg.collateralRate) <= maxBuckets
  /\ Len(cfg.timeMult) <= maxBuckets
  /\ NumRatioBuckets(cfg) <= maxBuckets
  /\ WellOrdered(cfg)
  /\ \A s \in 1..Len(cfg.collateralRate) :
        cfg.collateralRate[s] >= minRate /\ cfg.collateralRate[s] <= maxRate
  /\ RefundsWellFormed(cfg)
  /\ worstCaseKappaBps(cfg) >= minKappa

-----------------------------------------------------------------------------
(* guardCheck: what a configuration charges and forfeits at a grid of      *)
(* notionals and delivered fractions, far from the deadline.               *)
refundFracBpsAt(cfg, notionalEth, fillBps) ==
  RefundRow(cfg, getOrderSizeBucketETH(notionalEth, cfg.sizeThresholds))
    [getFillRatioBucket(fillBps, BPS, cfg.ratioThresholds)]

PenaltyAt(cfg, notionalEth, left, fillBps) ==
  mulDiv(requiredStake(cfg, notionalEth, left),
         BPS - refundFracBpsAt(cfg, notionalEth, fillBps), BPS)

LowFills == {100, 500, 2000}

(* _bucketEdgePoints: just under each ratio threshold of both.             *)
_bucketEdgePoints(old, new) ==
  LET below(x) == IF x > 0 THEN x - 1 ELSE 0
  IN  {below(old.ratioThresholds[i]) : i \in 1..Len(old.ratioThresholds)}
        \cup {below(new.ratioThresholds[i]) : i \in 1..Len(new.ratioThresholds)}

_withinMaxDelta(new, old, maxDelta) ==
  IF old = 0 THEN new = 0
  ELSE (IF new > old THEN new - old ELSE old - new) * BPS <= old * maxDelta

(* guardCheck passes, and its result.                                      *)
guardCheck(old, new, notionals, left, maxDelta, minPenalty) ==
  \A n \in notionals :
    /\ _withinMaxDelta(requiredStake(new, n, left), requiredStake(old, n, left), maxDelta)
    /\ \A fill \in LowFills \cup _bucketEdgePoints(old, new) :
         LET refundNew == refundFracBpsAt(new, n, fill)
         IN  /\ _withinMaxDelta(PenaltyAt(new, n, left, fill),
                                PenaltyAt(old, n, left, fill), maxDelta)
             /\ fill \in LowFills \/ refundNew < BPS => refundNew <= BPS - minPenalty

isLoosening(old, new, notionals, left) ==
  \E n \in notionals :
    \/ requiredStake(new, n, left) < requiredStake(old, n, left)
    \/ \E fill \in LowFills \cup _bucketEdgePoints(old, new) :
         PenaltyAt(new, n, left, fill) < PenaltyAt(old, n, left, fill)
=============================================================================
