-------------------------- MODULE MCStakeGovernance --------------------------
(* Instances of StakeConsole for TLC.  Notionals are in thousandths of     *)
(* ETH; the largest of guardCheck's four, 500 ETH, would overflow TLC's    *)
(* integers and is left out.                                               *)
EXTENDS StakeConsole, TLC

CONSTANTS p1, p2

(* defaultStakeConfig, as deployed. *)
Deployed ==
  [ sizeThresholds  |-> <<1000, 10000, 100000>>,
    collateralRate  |-> <<2000, 5000, 10000, 30000>>,
    timeThresholds  |-> <<50, 20, 5>>,
    timeMult        |-> <<10000, 15000, 30000, 50000>>,
    ratioThresholds |-> <<200, 1000, 3000, 7000>>,
    refundTable     |-> << 500, 1000, 2500, 5000, 10000,
                           333, 1000, 2000, 5000, 10000,
                           100,  333, 1000, 3333, 10000,
                           100,  200,  667, 2000, 10000 >>,
    minCollateral   |-> 0 ]

WithRates(rates) == [Deployed EXCEPT !.collateralRate = rates]

(* Two steps up in one bucket, the second of them a step down in another;  *)
(* two steps down, the second below the economic floor.                    *)
Raised     == WithRates(<<2380, 5950, 10000, 30000>>)
RaisedMore == WithRates(<<2300, 7000, 10000, 30000>>)
Lowered    == WithRates(<<1640, 4100, 8200, 30000>>)
TooLow     == [Lowered EXCEPT !.refundTable[4] = 5800]

(* A threshold above the fraction that already refunds everything.         *)
Reshaped ==
  [Deployed EXCEPT
     !.ratioThresholds = <<200, 1000, 3000, 7000, 8000>>,
     !.refundTable = << 500, 1000, 2500, 5000, 10000, 10000,
                        333, 1000, 2000, 5000, 10000, 10000,
                        100,  333, 1000, 3333, 10000, 10000,
                        100,  200,  667, 2000, 10000, 10000 >>]

(* Rows that never return the whole stake; too large a jump.               *)
ShortRows == [Deployed EXCEPT !.refundTable[5] = 9000, !.refundTable[10] = 9000]
Jump      == WithRates(<<4000, 10000, 20000, 30000>>)

(* Cheaper, but only close to the deadline; cheaper between two samples.   *)
UrgentCheaper == [Deployed EXCEPT !.timeMult = <<10000, 10000, 10000, 10000>>]
Dented ==
  [Deployed EXCEPT
     !.sizeThresholds = <<1000, 6000, 10000, 100000>>,
     !.collateralRate = <<2000, 5000, 2000, 10000, 30000>>,
     !.refundTable = << 500, 1000, 2500, 5000, 10000,
                        333, 1000, 2000, 5000, 10000,
                        333, 1000, 2000, 5000, 10000,
                        100,  333, 1000, 3333, 10000,
                        100,  200,  667, 2000, 10000 >>]

AllSubmissions  == {Deployed, Raised, RaisedMore, Lowered, TooLow, Reshaped, ShortRows, Jump,
                    UrgentCheaper, Dented}

(* Of these one is applied at once, the other queued first.                *)
WatchedSubmissions == {Raised, Lowered}

TypedNumbers == {Blank, 900, 10000}

TwoPolls     == {p1, p2}
PollSymmetry == Permutations(Polls)

Samples       == {500, 5000, 50000}
SomeFractions == {0, 1, 99, 100, 199, 200, 999, 1000, 2000, 2999, 3000, 5000, 6999, 7000, 7999, 8000, 9999}
=============================================================================
