----------------------------- MODULE FallbackRoute -----------------------------
(***************************************************************************)
(* The route the backend sells the rest of an order through, and the dry   *)
(* run of it that the Orders page offers:                                  *)
(* backend/src/watcher/fallbackWatcher.ts over services/aggregators.       *)
(*                                                                         *)
(* The dry run knows what an order has paid from the fills table, which    *)
(* may be behind the chain, and repeats the two checks of the contracts in *)
(* its own words.  What a route would return is an input; so is whether its*)
(* router is allowlisted, which the dry run does not look at.              *)
(***************************************************************************)
EXTENDS Settlement, FiniteSetsExt

CONSTANTS
  Aggregators,   \* the keys of AGGREGATORS
  SLIPPAGE_BPS   \* what the adapters take off a quoted output

ASSUME RouteAssumption ==
  IsFiniteSet(Aggregators) /\ "auto" \notin Aggregators /\ SLIPPAGE_BPS \in 0..BPS

NoRoute == -1

(* An adapter's quote: the output it asks the chain to hold the route to.  *)
minAmountOut(output) ==
  IF output = NoRoute THEN NoRoute ELSE output - mulDiv(output, SLIPPAGE_BPS, BPS)

(* What the aggregators answer: NoRoute when one has none, is not available*)
(* or fails.                                                               *)
Answers == [Aggregators -> {minAmountOut(output) : output \in RouterOutputs \cup {NoRoute}}]

(* The aggregators asked: the one the swapper pinned, where it is one of   *)
(* those there are, or all.                                                *)
Candidates(preferred) == IF preferred \in Aggregators THEN {preferred} ELSE Aggregators

(* getBestQuote, which throws when it comes to NoRoute.                    *)
getBestQuote(answers, preferred) == Max({answers[a] : a \in Candidates(preferred)} \cup {NoRoute})

-----------------------------------------------------------------------------
(* checkFallbackRoute, for an order with paidSoFar in the fills table.     *)
proRataFloor(o) == mulDiv(MinOutput[o], remainingInput(o), InputAmount[o])

remainingOutputOwed(o, paidSoFar) ==
  IF paidSoFar >= MinOutput[o] THEN 0 ELSE MinOutput[o] - paidSoFar

(* Fault: the floor of this leg alone.                                     *)
requiredMinOutput_Leg(o, paidSoFar) == proRataFloor(o)

requiredMinOutput(o, paidSoFar) == Max({proRataFloor(o), remainingOutputOwed(o, paidSoFar)})

(* What the page ticks: a quote not below what is required.                *)
Ticked(o, paidSoFar, answers) ==
  {a \in Aggregators : answers[a] # NoRoute /\ answers[a] >= requiredMinOutput(o, paidSoFar)}

(* What the chain accepts of the same quotes: executeFallback does not     *)
(* revert for its output.                                                  *)
Settles(o, output) ==
  /\ output # NoRoute
  /\ output >= mulDiv(MinOutput[o], remainingInput(o), InputAmount[o])
  /\ paid[o] + output >= MinOutput[o]

(* A tick can be relied on.  Whatever the mix of chunks, roundings and fees*)
(* an order was sold in so far, and however far the fills table is behind: *)
(* while its rest may be sold through a router and the page ticks an       *)
(* aggregator, the quote the watcher picks is one the chain accepts, the   *)
(* pinned one's if the swapper pinned it.  And once the table has caught   *)
(* up, nothing is crossed out that would work.                             *)
TicksSettle(o, answers) ==
  /\ \A paidSoFar \in 0..paid[o] :
       /\ Ticked(o, paidSoFar, answers) # {} => Settles(o, getBestQuote(answers, "auto"))
       /\ \A a \in Ticked(o, paidSoFar, answers) : Settles(o, getBestQuote(answers, a))
  /\ {a \in Aggregators : Settles(o, answers[a])} = Ticked(o, paid[o], answers)

TickMeansFallback ==
  \A o \in Orders :
    frame = {} /\ (\E r \in Routers : FallbackChecks(o, r)) =>
      \A answers \in Answers : TicksSettle(o, answers)
=============================================================================
