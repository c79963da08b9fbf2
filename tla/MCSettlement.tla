----------------------------- MODULE MCSettlement -----------------------------
(* Instances of Settlement for TLC. *)
EXTENDS SettlementInvariant, FallbackRoute, TLC

CONSTANTS o1, o2, o3, f1, f2, treasury, n1

(* One size bucket, stakes of 1x or 2x the notional, a quarter of the      *)
(* stake back below 60% of the commitment.                                 *)
Plain ==
  [ sizeThresholds |-> << >>, collateralRate |-> <<10000>>,
    timeThresholds |-> <<1>>, timeMult |-> <<10000, 20000>>,
    ratioThresholds |-> <<6000>>, refundTable |-> <<2500, 10000>>,
    minCollateral |-> 15 ]

(* Two size buckets and one more ratio bucket.                             *)
Reshaped ==
  [ sizeThresholds |-> <<30>>, collateralRate |-> <<5000, 10000>>,
    timeThresholds |-> << >>, timeMult |-> <<10000>>,
    ratioThresholds |-> <<4000, 8000>>,
    refundTable |-> <<1000, 5000, 10000, 0, 2000, 10000>>,
    minCollateral |-> 20 ]

OnePlain    == {Plain}
BothConfigs == {Plain, Reshaped}

OneOrder    == {o1}
TwoOrders   == {o1, o2}
ThreeOrders == {o1, o2, o3}
TwoFillers  == {f1, f2}
OneFiller   == {f1}
AllAccounts == {f1, f2, treasury}
OneFillerAccounts == {f1, treasury}
OneNonce    == {n1}

(* o1 is sold in chunks of 2 or more and its floor does not divide evenly; *)
(* o2 is small and keeps its price; o3 is too large to register for.       *)
Input     == [o \in Orders |-> CASE o = o1 -> 4 [] o = o2 -> 2 [] OTHER -> 66]
Floor     == [o \in Orders |-> CASE o = o1 -> 7 [] o = o2 -> 2 [] OTHER -> 2]
SmallFill == [o \in Orders |-> IF o = o1 THEN 2 ELSE 0]
LastBlock == [o \in Orders |-> 2]
Price     == [o \in Orders |-> 3]
Decay     == [o \in Orders |-> IF o = o1 THEN 1 ELSE 0]
OneNonceForAll == [o \in Orders |-> n1]

(* o1 and o2 buy the same token for the same swapper.                      *)
TwoPayees  == {"shared", "own"}
SharedByTwo == [o \in Orders |-> IF o \in {o1, o2} THEN "shared" ELSE "own"]

FillerSymmetry == Permutations({f1, f2})
=============================================================================
