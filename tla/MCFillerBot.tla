------------------------------ MODULE MCFillerBot ------------------------------
(* Instances of FillerBot for TLC: one order, one rival filler.            *)
EXTENDS HandFill, FiniteSets, Functions, TLC

CONSTANTS o1, o2, o3, f1, f2, n1, c1, c2

(* One size bucket, one time bucket, the whole stake back on any delivery.  *)
Plain ==
  [ sizeThresholds |-> << >>, collateralRate |-> <<10000>>,
    timeThresholds |-> << >>, timeMult |-> <<10000>>,
    ratioThresholds |-> <<6000>>, refundTable |-> <<10000, 10000>>,
    minCollateral |-> 10 ]

OnePlain     == {Plain}
OneOrder     == {o1}
TwoFillers   == {f1, f2}
OneNonce     == {n1}
TwoCallbacks == {c1, c2}

(* Chunks of 2 or more of an order for 3; the price falls from 2 to 1,     *)
(* below the floor of 4 for the whole of it.                               *)
Input       == [o \in Orders |-> 3]
LowFloor    == [o \in Orders |-> 4]
SmallFill   == [o \in Orders |-> 2]
BotDeadline == [o \in Orders |-> 2]
Price       == [o \in Orders |-> 2]
Decay       == [o \in Orders |-> 1]
OneNonceForAll == [o \in Orders |-> n1]
OnePayee    == {"swapper"}
OneForAll   == [o \in Orders |-> "swapper"]

(* A book that covers the order at any price, and one that does not.       *)
TwoBooks == { <<[price |-> 6, size |-> 1], [price |-> 4, size |-> 3]>>,
              <<[price |-> 5, size |-> 1], [price |-> 1, size |-> 4]>> }

CallbackSymmetry == Permutations(Callbacks)

(* Two threads in all: two callbacks that overlap, of the bot that matches  *)
(* bids, which may die while both are under way; one callback at a time of  *)
(* the other bot, beside one command; or a command and its repetition,      *)
(* without a bot.                                                           *)
VARIABLE width

Busy == {c \in Callbacks : cb[c].pc # "idle"}

PromptInit ==
  /\ Init /\ BotInit /\ HandInit
  /\ width \in 0..2 /\ commands = width /\ (width = 2 <=> strategy = "cow")

PromptNext ==
  /\ \/ /\ BotNext /\ UNCHANGED handVars
        /\ Cardinality(Busy') <= width
        /\ up /\ ~up' => width = 2 /\ Busy = Callbacks
     \/ HandNext /\ width < 2
  /\ UNCHANGED width

PromptSpec == PromptInit /\ [][PromptNext]_<<handSystemVars, width>>

(* The matcher earns the most the book allows: no way to place up to the   *)
(* available amount on the bids beats the greedy walk.                     *)
Placements(available, bids) ==
  {x \in [1..Len(bids) -> 0..available] :
     /\ \A i \in 1..Len(bids) : x[i] <= bids[i].size
     /\ SumFunction(x) <= available}

Gain(x, price, bids) == SumFunction([i \in 1..Len(bids) |-> x[i] * (bids[i].price - price)])

GreedyIsOptimal ==
  \A c \in Callbacks, bids \in Books : strategy = "cow" /\ At(c, "decide_register") =>
    LET o == cb[c].order
    IN  \A first \in ShownFirstFill(c, o), available \in 1..InputAmount[o] :
          LET price == DecayedPrice(StartPrice[o], DecayPerBlock[o], first, cb[c].now)
              m     == match(price, available, bids)
          IN  \A x \in Placements(available, bids) :
                Gain(x, price, bids) <= m.totalRevenue - m.totalCost
=============================================================================
