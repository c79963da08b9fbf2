----------------------------- MODULE FillStrategy -----------------------------
(***************************************************************************)
(* How a filler bot sizes a fill: filler/WhaleFiller/src/strategy and      *)
(* filler/CoWFiller/src/strategy, with CoWFiller's matcher.  A decision is *)
(* the amount to fill, 0 to leave the order alone.                         *)
(*                                                                         *)
(* BigInt amounts do not overflow.  A bid is a record [price, size]; what  *)
(* the order book and the wallet hold is an argument.                      *)
(***************************************************************************)
EXTENDS StakeSchedule

LOCAL INSTANCE SequencesExt

CONSTANTS
  FAKE_MARKET_PREMIUM_BPS,  \* Whale: the market is this far above the start price
  MIN_SPREAD_BPS,           \* Whale: the least gap to the market it fills at
  MIN_PROFIT_RAW,           \* CoW: the least profit it fills for
  MAX_INVENTORY_USE_BPS,    \* share of the wallet's output tokens put into one fill
  Unit                      \* 10^18

ASSUME StrategyAssumption ==
  /\ FAKE_MARKET_PREMIUM_BPS \in Nat /\ MIN_SPREAD_BPS \in Nat /\ MIN_PROFIT_RAW \in Nat
  /\ MAX_INVENTORY_USE_BPS \in 0..BPS
  /\ Unit \in Nat \ {0}

(* The smaller of two amounts.                                             *)
Least(a, b) == IF a < b THEN a ELSE b

(* Fault: the price is worked out for the block to come.                   *)
DecayedPrice_NextBlock(startPrice, decayPerBlock, firstFillBlock, currentBlock) ==
  LET decay == (currentBlock + 1 - firstFillBlock) * decayPerBlock
  IN  IF startPrice > decay THEN startPrice - decay ELSE 0

(* The decayed price, from the oldest fill the order book lists: the list  *)
(* comes newest first, and its last entry is the one taken.  An unfilled   *)
(* order has not started to decay.                                         *)
DecayedPrice(startPrice, decayPerBlock, firstFillBlock, currentBlock) ==
  LET blocksPassed == IF currentBlock > firstFillBlock THEN currentBlock - firstFillBlock ELSE 0
      decay        == blocksPassed * decayPerBlock
  IN  IF startPrice > decay THEN startPrice - decay ELSE 0

(* What the wallet may spend on one fill, and how much input that buys.    *)
usableBalance(balance) == mulDiv(balance, MAX_INVENTORY_USE_BPS, BPS)

Capacity(balance, price) == mulDiv(usableBalance(balance), Unit, price)

-----------------------------------------------------------------------------
(* Fault: the minimum chunk is not looked at.                              *)
whaleDecide_AnyChunk(startPrice, price, inputAmount, minFill, balance) ==
  IF price = 0 THEN 0 ELSE Least(Capacity(balance, price), inputAmount)

whaleDecide(startPrice, price, inputAmount, minFill, balance) ==
  LET refPrice   == mulDiv(startPrice, BPS + FAKE_MARKET_PREMIUM_BPS, BPS)
      fillAmount == Least(Capacity(balance, price), inputAmount)
  IN  IF /\ price > 0
         /\ price < refPrice
         /\ mulDiv(refPrice - price, BPS, refPrice) >= MIN_SPREAD_BPS
         /\ Capacity(balance, price) > 0
         /\ fillAmount >= minFill
        THEN fillAmount ELSE 0

-----------------------------------------------------------------------------
(* The matcher's counters.                                                 *)
NothingMatched(available) ==
  [remaining |-> available, fillAmount |-> 0, totalRevenue |-> 0, totalCost |-> 0]

(* Fault: every level of the book is taken, also those below the price.    *)
Take_AnyLevel(auctionPrice, bid, m) ==
  LET take == Least(bid.size, m.remaining)
  IN  [remaining    |-> m.remaining - take,
       fillAmount   |-> m.fillAmount + take,
       totalRevenue |-> m.totalRevenue + mulDiv(take, bid.price, Unit),
       totalCost    |-> m.totalCost + mulDiv(take, auctionPrice, Unit)]

Take(auctionPrice, bid, m) ==
  LET take == IF bid.price <= auctionPrice THEN 0 ELSE Least(bid.size, m.remaining)
  IN  [remaining    |-> m.remaining - take,
       fillAmount   |-> m.fillAmount + take,
       totalRevenue |-> m.totalRevenue + mulDiv(take, bid.price, Unit),
       totalCost    |-> m.totalCost + mulDiv(take, auctionPrice, Unit)]

(* The best bid comes first.  Taking nothing from the levels that do not   *)
(* pay, or once nothing remains, is the loop's break.                      *)
match(auctionPrice, available, bids) ==
  FoldLeft(LAMBDA m, bid : Take(auctionPrice, bid, m), NothingMatched(available), bids)

(* The book must cover all the wallet can pay for, at a profit.  The       *)
(* order's minimum chunk is not looked at.                                 *)
cowDecide(price, inputAmount, balance, bids) ==
  LET available == Least(Capacity(balance, price), inputAmount)
      result    == match(price, available, bids)
  IN  IF /\ price > 0
         /\ result.fillAmount > 0
         /\ result.fillAmount = available
         /\ result.totalRevenue - result.totalCost >= MIN_PROFIT_RAW
        THEN result.fillAmount ELSE 0
=============================================================================
