--------------------------- MODULE MCCrossChainSwap ---------------------------
(* Instances of CrossChainSwap for TLC. *)
EXTENDS CrossChainSwap, TLC

CONSTANTS o1, h1, h2

OneOrder   == {o1}
TwoFills   == {h1, h2}
SameOrder  == [h \in Fills |-> o1]
Input      == [o \in Orders |-> 4]
Base       == [o \in Orders |-> 3]

(* Two overlapping requests to sign for one of the fills.                  *)
TwiceOne   == [h \in Fills |-> IF h = h1 THEN 2 ELSE 1]

(* As much as the input is worth, twice that in the last second.           *)
Bonded ==
  [ sizeThresholds |-> << >>, collateralRate |-> <<10000>>,
    timeThresholds |-> <<1>>, timeMult |-> <<10000, 20000>>,
    ratioThresholds |-> << >>, refundTable |-> <<10000>>,
    minCollateral |-> 1 ]
=============================================================================
