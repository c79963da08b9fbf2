---------------------------- MODULE OrderSuggestion ----------------------------
(***************************************************************************)
(* The parameters the backend suggests for an order: prices from the       *)
(* market (backend/src/routes/suggest.ts), and the largest minimum fill at *)
(* which the fillers still cover the order, searched for by asking every   *)
(* filler for its quote, time and again (backend/src/services/fillerSim.ts *)
(* and quote/quoteServer.ts of the fillers, whose strategies are those of  *)
(* FillStrategy).  Fillers come and go between two rounds of quotes.       *)
(*                                                                         *)
(* A market rate is a whole number of the output token's units per         *)
(* OneInput units of the input token; where it comes from (AlphaRouter,    *)
(* CoinGecko, a cached price) is left out.  A filler is a record of its    *)
(* strategy, the balance it holds and the bids it sees.  Candidates are    *)
(* numbered from 1.                                                        *)
(***************************************************************************)
EXTENDS FillStrategy, FiniteSetsExt, Totals

CONSTANTS
  OneInput,             \* 10^inputDecimals
  UINT32_MAX,
  MIN_FILL_CANDIDATES,  \* minFillBps to choose from, ascending
  Quoters,              \* the registered fillers
  Requests,             \* what is asked for
  MaxOutages            \* bound on fillers that stop or start answering

ASSUME SuggestionAssumption ==
  /\ OneInput \in Nat \ {0} /\ UINT32_MAX \in Nat /\ MaxOutages \in Nat
  /\ MIN_FILL_CANDIDATES \in Seq(0..BPS) /\ MIN_FILL_CANDIDATES # << >>
  /\ \A i, j \in 1..Len(MIN_FILL_CANDIDATES) :
       i < j => MIN_FILL_CANDIDATES[i] <= MIN_FILL_CANDIDATES[j]
  /\ IsFiniteSet(Quoters) /\ \A filler \in Quoters : filler.balance \in Nat
  /\ Requests \subseteq [rate : Nat, inputAmount : Nat \ {0}, deadlineBlocks : Nat \ {0},
                         premiumBps : Nat, slippageBps : 0..BPS, targetBps : 0..BPS]

VARIABLES
  request,         \* the body of the POST
  lo, hi, best,    \* the binary search; best = 0: none yet
  coverageCache,   \* the coverage measured, by candidate
  answered,        \* the response is out
  answering,       \* the fillers that answer a quote
  outages

searchVars     == <<lo, hi, best, coverageCache, answered>>
suggestionVars == <<request, searchVars, answering, outages>>

-----------------------------------------------------------------------------
(* The price gate.  A share of the rate, rounded to the nearest unit.      *)
rateToContract(rate, shareBps) ==
  mulDiv((2 * rate * shareBps + BPS) \div (2 * BPS), Unit, OneInput)

startPrice == rateToContract(request.rate, BPS + request.premiumBps)
floorPrice == rateToContract(request.rate, BPS - request.slippageBps)
minOutput  == mulDiv(request.inputAmount, floorPrice, Unit)

(* Fault: the sweep is rounded up.                                         *)
decay_Up ==
  IF startPrice < floorPrice THEN 0
  ELSE Least(UINT32_MAX,
             (startPrice - floorPrice + request.deadlineBlocks - 1) \div request.deadlineBlocks)

(* From the ask down to the floor over the window.                         *)
decay ==
  IF startPrice < floorPrice THEN 0
  ELSE Least(UINT32_MAX, (startPrice - floorPrice) \div request.deadlineBlocks)

-----------------------------------------------------------------------------
(* The size gate.  A filler's quote for the whole order, unfilled, at the  *)
(* floor price ten blocks before the deadline; 0 when it cannot be reached.*)
quote(filler, minFillBps) ==
  LET inputAmount == request.inputAmount
  IN  IF filler \notin answering THEN 0
      ELSE IF filler.strategy = "whale"
        THEN whaleDecide(floorPrice, floorPrice, inputAmount,
                         mulDiv(inputAmount, minFillBps, BPS), filler.balance)
        ELSE cowDecide(floorPrice, inputAmount, filler.balance, filler.bids)

(* Each is asked for the whole order: the sum is cut off at its size.      *)
simulateOrder(minFillBps) ==
  LET totalFillRaw == Total([filler \in Quoters |-> quote(filler, minFillBps)], Quoters)
  IN  mulDiv(Least(totalFillRaw, request.inputAmount), BPS, request.inputAmount)

(* What is measured once is not asked for again.                           *)
coverageAt(i) ==
  IF i \in DOMAIN coverageCache THEN coverageCache[i]
  ELSE simulateOrder(MIN_FILL_CANDIDATES[i])

Measured(i) ==
  coverageCache' = [j \in DOMAIN coverageCache \cup {i} |->
                      IF j = i THEN coverageAt(i) ELSE coverageCache[j]]

SuggestionInit ==
  /\ request \in Requests
  /\ lo = 1 /\ hi = Len(MIN_FILL_CANDIDATES) /\ best = 0
  /\ coverageCache = << >> /\ answered = FALSE
  /\ answering = Quoters /\ outages = 0

(* Fault: the search ends with one candidate still to look at.             *)
Searching_Early == lo < hi

Searching == lo <= hi

(* One round of quotes.                                                    *)
SearchStep ==
  /\ Searching
  /\ LET mid == (lo + hi) \div 2
     IN  /\ Measured(mid)
         /\ IF coverageAt(mid) >= request.targetBps
              THEN best' = mid /\ lo' = mid + 1 /\ UNCHANGED hi
              ELSE hi' = mid - 1 /\ UNCHANGED <<lo, best>>
  /\ UNCHANGED <<request, answered, answering, outages>>

(* The best candidate, or the smallest when none meets the target.         *)
chosen == IF best > 0 THEN best ELSE 1

(* With the projected coverage, measured if it has not been yet.           *)
Respond ==
  /\ ~Searching /\ ~answered
  /\ Measured(chosen)
  /\ answered' = TRUE
  /\ UNCHANGED <<request, lo, hi, best, answering, outages>>

(* A filler stops or starts answering.                                     *)
Outage ==
  /\ ~answered /\ outages < MaxOutages
  /\ outages' = outages + 1
  /\ \E filler \in Quoters :
       answering' = IF filler \in answering THEN answering \ {filler} ELSE answering \cup {filler}
  /\ UNCHANGED <<request, searchVars>>

SuggestionNext == SearchStep \/ Respond \/ Outage

SuggestionSpec == SuggestionInit /\ [][SuggestionNext]_suggestionVars

-----------------------------------------------------------------------------
(* An order with the suggested parameters can be filled at any block of its*)
(* window: however far its price has decayed, any part of it pays the share*)
(* of the minimum output that the reactor asks for (PartialFillReactor.sol:*)
(* 195), so no filler stakes on a chunk that can only revert.              *)
SuggestionStaysPayable ==
  answered =>
    \A blocks \in 0..request.deadlineBlocks, fillAmount \in 1..request.inputAmount :
      mulDiv(minOutput, fillAmount, request.inputAmount)
        <= mulDiv(fillAmount, DecayedPrice(startPrice, decay, 0, blocks), Unit)

(* The search relies on the coverage falling as the minimum fill grows.  It*)
(* does for both strategies: while the fillers stay as they are, the       *)
(* response names the largest of all candidates that meet the target, and  *)
(* the smallest if none does.  When they change, it still stands by what   *)
(* was measured: a candidate found to meet the target is reported to.      *)
LargestMinimum ==
  answered =>
    /\ best > 0 => coverageCache[chosen] >= request.targetBps
    /\ outages = 0 =>
         best = Max({0} \cup {i \in 1..Len(MIN_FILL_CANDIDATES) :
                                simulateOrder(MIN_FILL_CANDIDATES[i]) >= request.targetBps})

(* Why: what a round of quotes would measure of each candidate.  While the *)
(* fillers stay as they are, the candidates below lo meet the target and   *)
(* those above hi do not.                                                  *)
coverage == [i \in 1..Len(MIN_FILL_CANDIDATES) |-> simulateOrder(MIN_FILL_CANDIDATES[i])]

SearchBounds ==
  /\ request \in Requests /\ outages \in Nat /\ answered \in BOOLEAN
  /\ lo \in Nat /\ hi \in Nat /\ 1 <= lo /\ lo <= hi + 1 /\ hi <= Len(MIN_FILL_CANDIDATES)
  /\ best = lo - 1
  /\ answered => lo > hi

BestMeasured ==
  /\ DOMAIN coverageCache \subseteq 1..Len(MIN_FILL_CANDIDATES)
  /\ best > 0 => best \in DOMAIN coverageCache /\ coverageCache[best] >= request.targetBps

FoundOut ==
  /\ \A i \in DOMAIN coverageCache : coverageCache[i] = coverage[i]
  /\ \A i \in 1..Len(MIN_FILL_CANDIDATES) :
       /\ i < lo => coverage[i] >= request.targetBps
       /\ i > hi => coverage[i] < request.targetBps

SearchInv == SearchBounds /\ BestMeasured /\ (outages = 0 => FoundOut)
=============================================================================
