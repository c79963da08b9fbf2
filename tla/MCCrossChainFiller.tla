-------------------------- MODULE MCCrossChainFiller --------------------------
(* Instances of CrossChainFiller for TLC. *)
EXTENDS CrossChainFiller, TLC

CONSTANTS o1, h1, h2, p1, p2

OneOrder     == {o1}
OneFill      == {h1}
TwoFills     == {h1, h2}
SameOrder    == [h \in Fills |-> o1]
Input        == [o \in Orders |-> 4]
Base         == [o \in Orders |-> 2]
TwiceEach    == [h \in Fills |-> 2]
TwoProcesses == {p1, p2}

(* As much as the input is worth, twice that in the last second.           *)
Bonded ==
  [ sizeThresholds |-> << >>, collateralRate |-> <<10000>>,
    timeThresholds |-> <<1>>, timeMult |-> <<10000, 20000>>,
    ratioThresholds |-> << >>, refundTable |-> <<10000>>,
    minCollateral |-> 1 ]

BothSymmetries == Permutations(Processes) \cup Permutations(Fills)
=============================================================================
