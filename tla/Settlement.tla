------------------------------ MODULE Settlement ------------------------------
(***************************************************************************)
(* The single-chain contracts together: PartialFillReactor, FillAuction    *)
(* and contract/src/FallbackExecutor.sol, which near the deadline sells    *)
(* what is left of an order through an allowlisted aggregator.             *)
(*                                                                         *)
(* The aggregator is a call to code outside these contracts, between two   *)
(* readings of the swapper's balance, and the reactor's guard is not held  *)
(* around it.  executeFallback is the call whose route makes no call back  *)
(* to these contracts; EnterRoute and LeaveRoute are the two halves of one *)
(* whose route does, with "route" holding its local variables in between.  *)
(***************************************************************************)
EXTENDS PartialFillReactor, Totals

CONSTANTS
  Routers,         \* aggregators the owner may allow
  FallbackWindow,  \* FALLBACK_WINDOW, in blocks
  RouterOutputs    \* what a route may return

ASSUME FallbackAssumption == FallbackWindow \in Nat /\ RouterOutputs \subseteq Nat

VARIABLES
  allowedRouters,  \* the routers with an approveTargetOf entry
  route,           \* the open route: {} or {its local variables}
  alsoPaid         \* history: what an order's fallback was credited that
                   \* other orders paid while its route ran

routeVars    == <<route, alsoPaid>>
fallbackVars == <<allowedRouters, routeVars>>
vars == <<reactorVars, auctionVars, fallbackVars>>

Route == [order : Orders, remaining : Nat, balBefore : Nat, inCallback : BOOLEAN]

(* The deployer allows one router.                                         *)
Init ==
  /\ ReactorInit
  /\ AuctionInit
  /\ \E r \in Routers : allowedRouters = {r}
  /\ route = {}
  /\ alsoPaid = [o \in Orders |-> 0]

-----------------------------------------------------------------------------
setRouterAllowed(r, allowed) ==
  /\ allowedRouters' = IF allowed THEN allowedRouters \cup {r} ELSE allowedRouters \ {r}
  /\ UNCHANGED <<reactorVars, auctionVars, routeVars>>

(* The guards of executeFallback before the order is marked, its own       *)
(* nonReentrant first.                                                     *)
FallbackChecks(o, r) ==
  /\ route = {}
  /\ r \in allowedRouters
  /\ ValidOrder(o)
  /\ Deadline[o] - block <= FallbackWindow
  /\ remainingInput(o) > 0

(* Fault: the order is flagged and its remaining amount left as it was.    *)
markFallbackInitiated_FlagOnly(o) ==
  /\ ~cancelled[o]
  /\ fallbackInitiated' = [fallbackInitiated EXCEPT ![o] = TRUE]
  /\ UNCHANGED raw

(* PartialFillReactor.markFallbackInitiated.                               *)
markFallbackInitiated(o) ==
  /\ ~cancelled[o]
  /\ fallbackInitiated' = [fallbackInitiated EXCEPT ![o] = TRUE]
  /\ raw' = [raw EXCEPT ![o] = fullyFilled]

(* Fault: only the pro-rata floor of the fallback's own leg is enforced.   *)
recordFallbackOutput_NoTotal(o, amountOut) ==
  paid' = [paid EXCEPT ![o] = @ + amountOut]

(* PartialFillReactor.recordFallbackOutput.                                *)
recordFallbackOutput(o, amountOut) ==
  /\ paid' = [paid EXCEPT ![o] = @ + amountOut]
  /\ paid[o] + amountOut >= MinOutput[o]

(* What the swapper received since the route began has to cover the pro    *)
(* rata share of its floor.  The caller's minAmountOut only narrows the    *)
(* outputs accepted; input the route did not spend goes back to the        *)
(* swapper before the call ends.                                           *)
AcceptOutput(o, remaining, amountOut) ==
  /\ amountOut >= mulDiv(MinOutput[o], remaining, InputAmount[o])
  /\ recordFallbackOutput(o, amountOut)

(* executeFallback up to the call of the router: the order is marked and   *)
(* the rest of its input pulled.                                           *)
StartFallback(o, r) ==
  /\ FallbackChecks(o, r)
  /\ markFallbackInitiated(o)
  /\ pulled' = [pulled EXCEPT ![o] = @ + remainingInput(o)]
  /\ UNCHANGED <<block, cursor, openedAt, cancelled, nonceInvalidated, recorded,
                 frame, auctionVars, allowedRouters>>

(* The executor's guard is its own, so all of this may also happen in the  *)
(* callback of a fill.                                                     *)
executeFallback(o, r) ==
  /\ StartFallback(o, r)
  /\ \E output \in RouterOutputs :
       /\ AcceptOutput(o, remainingInput(o), output)
       /\ outputBalance' = [outputBalance EXCEPT ![PayeeOf[o]] = @ + output]
  /\ UNCHANGED routeVars

EnterRoute(o, r) ==
  /\ StartFallback(o, r)
  /\ route' = {[order |-> o, remaining |-> remainingInput(o),
                balBefore |-> outputBalance[PayeeOf[o]], inCallback |-> frame # {}]}
  /\ UNCHANGED <<payVars, alsoPaid>>

(* The route has returned.  A callback opened inside it is over before it  *)
(* is; what another order paid the swapper meanwhile is part of the        *)
(* difference of the two readings.                                         *)
LeaveRoute ==
  /\ \E rt \in route, output \in RouterOutputs :
       LET p      == PayeeOf[rt.order]
           others == outputBalance[p] - rt.balBefore
       IN  /\ frame = {} \/ rt.inCallback
           /\ AcceptOutput(rt.order, rt.remaining, others + output)
           /\ outputBalance' = [outputBalance EXCEPT ![p] = @ + output]
           /\ alsoPaid' = [alsoPaid EXCEPT ![rt.order] = others]
  /\ route' = {}
  /\ UNCHANGED <<block, fillVars, switchVars, frame, auctionVars, allowedRouters>>

-----------------------------------------------------------------------------
(* A route is over before its block and the callback it was called in are. *)
ReactorNext ==
  \/ route = {} /\ NextBlock
  \/ (\A rt \in route : ~rt.inCallback) /\ LeaveCallback
  \/ \E o \in Orders : cancelOrder(o)
  \/ \E n \in Nonces : invalidateNonce(n)
  \/ \E o \in Orders, f \in Fillers :
       \/ releaseRegistration(o, f)
       \/ \E n \in FillAmounts : \/ Register(o, f, n)
                                 \/ executePartialChunk(o, f, n)
                                 \/ EnterCallback(o, f, n)
       \/ \E caller \in Accounts : slash(o, f, caller)
  \/ \E a \in Accounts : Withdraw(a)
  \/ \E c \in Configs : Reconfigure(c)

FallbackNext ==
  \/ \E o \in Orders, r \in Routers : executeFallback(o, r) \/ EnterRoute(o, r)
  \/ LeaveRoute
  \/ \E r \in Routers, allowed \in BOOLEAN : setRouterAllowed(r, allowed)

Next == (ReactorNext /\ UNCHANGED fallbackVars) \/ FallbackNext

Spec == Init /\ [][Next]_vars

(* Progress: blocks keep coming, and somebody makes each permissionless    *)
(* call that stays possible, the registrant to get its stake back or       *)
(* anyone for the slashing reward.  A callback and a route are over before *)
(* their block is, so whole transactions are all that progress needs.      *)
WholeTransactions == [][Next /\ frame' = {} /\ route' = {}]_vars

Fairness ==
  /\ WF_vars(NextBlock /\ UNCHANGED fallbackVars)
  /\ \A o \in Orders, f \in Fillers :
       /\ WF_vars(releaseRegistration(o, f) /\ UNCHANGED fallbackVars)
       /\ WF_vars((\E caller \in Accounts : slash(o, f, caller)) /\ UNCHANGED fallbackVars)

LiveSpec == Init /\ WholeTransactions /\ Fairness

-----------------------------------------------------------------------------
TypeOK ==
  /\ reg \in [Orders -> [Fillers -> Registration]]
  /\ pendingReturns \in [Accounts -> Nat]
  /\ balance \in Nat
  /\ config \in Configs
  /\ block \in Nat
  /\ raw \in [Orders -> 0..(U256 - 1)]
  /\ cursor \in [Orders -> [price : Nat, resetAt : Nat]]
  /\ paid \in [Orders -> Nat]
  /\ outputBalance \in [Payees -> Nat]
  /\ fallbackInitiated \in [Orders -> BOOLEAN]
  /\ cancelled \in [Orders -> BOOLEAN]
  /\ nonceInvalidated \subseteq Nonces
  /\ recorded \subseteq Orders
  /\ frame \subseteq Frame
  /\ pulled \in [Orders -> Nat]
  /\ openedAt \in [Orders -> Nat]
  /\ allowedRouters \subseteq Routers
  /\ route \subseteq Route
  /\ alsoPaid \in [Orders -> Nat]

(* The stake escrow this system implements.                                *)
PhaseOf(r) == IF ~r.registered THEN "none" ELSE IF Settled(r) THEN "closed" ELSE "held"

Escrow == INSTANCE StakeEscrow WITH
  Keys  <- Orders \X Fillers,
  Owner <- [k \in Orders \X Fillers |-> k[2]],
  phase <- [k \in Orders \X Fillers |-> PhaseOf(reg[k[1]][k[2]])],
  stake <- [k \in Orders \X Fillers |-> reg[k[1]][k[2]].stakeAmount],
  owed  <- pendingReturns,
  vault <- balance

(* Every stake is taken once, closed once and paid out whole, and ETH      *)
(* leaves FillAuction only to those it is owed to: settlement implements   *)
(* the abstract escrow.                                                    *)
ImplementsEscrow == Escrow!Spec

(* FillAuction holds exactly what it owes: the stakes not yet settled and  *)
(* what may be withdrawn (contract/test/invariant/FillAuctionInvariant.md).*)
StakeOf == [k \in Orders \X Fillers |-> reg[k[1]][k[2]].stakeAmount]
Unsettled == {k \in Orders \X Fillers : Active(reg[k[1]][k[2]])}

Solvent == balance = Total(StakeOf, Unsettled) + Total(pendingReturns, Accounts)

(* The swapper never parts with more than the order's input: what was      *)
(* pulled and what is left add up to the amount signed, also inside a      *)
(* callback and after the fallback took the rest.                          *)
InputConserved == \A o \in Orders : pulled[o] + remainingInput(o) = InputAmount[o]

(* An order that is sold out shows the signed minimum as paid, whichever   *)
(* mix of chunks, fees and fallback sold it, and the swapper has received  *)
(* all of it.  The order's own legs brought it, but for one case: where    *)
(* the fallback's route let other orders of the same swapper and output    *)
(* token pay, what they paid is counted for both, and the order's own legs *)
(* brought what is left of its minimum.                                    *)
BroughtByItself(o) == paid[o] - alsoPaid[o]

OthersPaid(o) ==
  \E p \in Orders \ {o} : PayeeOf[p] = PayeeOf[o] /\ BroughtByItself(p) > 0

FloorPaid ==
  \A o \in Orders :
    remainingInput(o) = 0 /\ frame = {} /\ route = {} =>
      /\ paid[o] >= MinOutput[o]
      /\ paid[o] <= outputBalance[PayeeOf[o]]
      /\ BroughtByItself(o) < MinOutput[o] => fallbackInitiated[o] /\ OthersPaid(o)

(* Once open, an order's price is the straight decay from its start price  *)
(* since the first fill: how often it was filled leaves no trace.          *)
PriceFollowsCurve ==
  \A o \in Orders :
    LET decayed == (block - openedAt[o]) * DecayPerBlock[o]
    IN  ~isNewOrder(raw[o]) /\ ~fallbackInitiated[o] =>
          PriceNow(o) = IF decayed >= StartPrice[o] THEN 0 ELSE StartPrice[o] - decayed

(* A swapper who kills an order, by cancelling it or by invalidating its   *)
(* nonce, frees every filler registered for it: the stake can be released  *)
(* and never slashed.                                                      *)
SwapperKillFreesStake ==
  \A o \in Orders, f \in Fillers :
    Active(reg[o][f]) /\ (cancelled[o] \/ NonceOf[o] \in nonceInvalidated) =>
      /\ CanRelease(o, f)
      /\ \A later \in block..MaxBlock :
           ~MaySlash(o, f, later, Deadline[o], cancelled[o],
                     isNonceInvalidatedForOrder(o), remainingInput(o))

(* A filler that delivers all it promised, or all that competing fillers   *)
(* left of the order, is owed its whole stake, whatever happened to the    *)
(* configuration since it registered.                                      *)
DeliveredNow(o) ==
  IF frame = {} THEN pulled'[o] - pulled[o] ELSE (CHOOSE fr \in frame : TRUE).fill

LeftBefore(o) ==
  IF frame = {} THEN remainingInput(o) ELSE (CHOOSE fr \in frame : TRUE).currentRemaining

FilledNow(o, f) == reg'[o][f].filled /\ ~reg[o][f].filled

FullDeliveryRefundsAll ==
  [][\A o \in Orders, f \in Fillers :
       FilledNow(o, f) /\ (\/ DeliveredNow(o) >= reg[o][f].fillAmount
                           \/ DeliveredNow(o) >= LeftBefore(o)) =>
         pendingReturns'[f] = pendingReturns[f] + reg[o][f].stakeAmount]_vars

(* No fill delivers more than its filler staked for, although the amount   *)
(* is narrowed to 128 bits before it is compared with the commitment.      *)
FillWithinCommitment ==
  [][\A o \in Orders, f \in Fillers :
       FilledNow(o, f) => DeliveredNow(o) <= reg[o][f].fillAmount]_vars

(* No stake is locked for good: whatever the swapper, the other fillers,   *)
(* the fallback and governance do, every registration is settled.          *)
EveryStakeSettles ==
  \A o \in Orders, f \in Fillers : Active(reg[o][f]) ~> Settled(reg[o][f])
=============================================================================
