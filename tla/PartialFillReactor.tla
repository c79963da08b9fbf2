-------------------------- MODULE PartialFillReactor --------------------------
(***************************************************************************)
(* contract/src/PartialFillReactor.sol, with DecayCursorLib: a signed      *)
(* order is sold in chunks at a decaying price to fillers that have a      *)
(* stake in FillAuction.                                                   *)
(*                                                                         *)
(* Every action is one external transaction, all the calls it makes        *)
(* included; a transaction that reverts leaves no trace and is no step.    *)
(* The exception is executePartialChunkWithCallback, which hands control   *)
(* to the filler between its input leg and its output leg: it is the pair  *)
(* EnterCallback, LeaveCallback, and "frame" holds its local variables in  *)
(* between.  While a frame is open only the calls that the reactor's       *)
(* nonReentrant guard lets through are enabled, and no block passes.  A    *)
(* frame that can never be left is a transaction that reverts: the state   *)
(* it returns to is the one it started from, reached already.              *)
(***************************************************************************)
EXTENDS FillAuction, RemainingLib

CONSTANTS
  InputAmount,    \* [Orders -> Nat], the amount of input for sale
  MinOutput,      \* [Orders -> Nat], minOutputAmount, the signed floor
  MinFill,        \* [Orders -> Nat], _minFill, from minFillBps
  Deadline,       \* [Orders -> Nat], the last block of the order
  StartPrice,     \* [Orders -> Nat], in PriceUnit-ths of output per input
  DecayPerBlock,  \* [Orders -> Nat]
  Nonces,         \* (swapper, nonce) pairs
  NonceOf,        \* [Orders -> Nonces]
  Payees,         \* (swapper, output token) pairs
  PayeeOf,        \* [Orders -> Payees]
  PriceUnit,      \* 10^18
  OracleRates,    \* what one unit of input may be worth in ETH
  Excesses,       \* what a filler may send above the required stake
  Fees,           \* what the output token may keep of a transfer
  FillAmounts,    \* bound: the amounts fillers try
  MaxBlock        \* bound: the last block of a run

(* No token has a supply near 2^160: the casts to the width Permit2 takes  *)
(* lose nothing, and no order is for 2^256 - 1, the one amount RemainingLib*)
(* could not tell from a fresh order once packed.                          *)
ASSUME OrderAssumption ==
  /\ PriceUnit \in Nat \ {0} /\ U256 \in Nat /\ MaxBlock \in Nat
  /\ InputAmount \in [Orders -> Nat] /\ MinOutput \in [Orders -> Nat]
  /\ MinFill \in [Orders -> Nat] /\ Deadline \in [Orders -> Nat]
  /\ StartPrice \in [Orders -> Nat] /\ DecayPerBlock \in [Orders -> Nat]
  /\ NonceOf \in [Orders -> Nonces] /\ PayeeOf \in [Orders -> Payees]
  /\ \A o \in Orders : 0 < InputAmount[o] /\ InputAmount[o] + 1 < U256
  /\ OracleRates \subseteq Nat /\ Excesses \subseteq Nat
  /\ Fees \subseteq Nat /\ FillAmounts \subseteq Nat

VARIABLES
  block,              \* block.number
  raw,                \* _remaining, packed
  cursor,             \* _cursors
  paid,               \* _paidOutput
  outputBalance,      \* what orders have brought a swapper of an output token
  fallbackInitiated,  \* _fallbackInitiated
  cancelled,          \* _cancelled
  nonceInvalidated,   \* _nonceInvalidated, the set of dead nonces
  recorded,           \* the orders with an entry in _orderSwapper, _orderNonce
  frame,              \* the open callback: {} or {its local variables}
  pulled,             \* history: input taken from the swapper so far
  openedAt            \* history: the block of the first fill

fillVars    == <<raw, cursor, pulled, openedAt>>
switchVars  == <<fallbackInitiated, cancelled, nonceInvalidated, recorded>>
payVars     == <<paid, outputBalance>>
reactorVars == <<block, fillVars, payVars, switchVars, frame>>

Frame == [order : Orders, filler : Fillers, fill : Nat,
          currentRemaining : Nat, newRemaining : Nat, output : Nat]

ReactorInit ==
  /\ block = 0
  /\ raw = [o \in Orders |-> 0]
  /\ cursor = [o \in Orders |-> [price |-> 0, resetAt |-> 0]]
  /\ paid = [o \in Orders |-> 0]
  /\ outputBalance = [p \in Payees |-> 0]
  /\ fallbackInitiated = [o \in Orders |-> FALSE]
  /\ cancelled = [o \in Orders |-> FALSE]
  /\ nonceInvalidated = {}
  /\ recorded = {}
  /\ frame = {}
  /\ pulled = [o \in Orders |-> 0]
  /\ openedAt = [o \in Orders |-> 0]

-----------------------------------------------------------------------------
(* What is left of an order.                                               *)
remainingInput(o) == Unpack(raw[o], InputAmount[o])

(* DecayCursorLib.getCurrentPrice.                                         *)
getCurrentPrice(o) ==
  LET decayed == (block - cursor[o].resetAt) * DecayPerBlock[o]
  IN  IF decayed >= cursor[o].price THEN 0 ELSE cursor[o].price - decayed

(* The price of a chunk filled now: the curve starts at the first fill.    *)
PriceNow(o) == IF isNewOrder(raw[o]) THEN StartPrice[o] ELSE getCurrentPrice(o)

(* Fault: the order's nonce was never recorded.                            *)
isNonceInvalidatedForOrder_Unrecorded(o) == FALSE

isNonceInvalidatedForOrder(o) == o \in recorded /\ NonceOf[o] \in nonceInvalidated

(* _validateOrder.  The orders of the model carry the cosigner's           *)
(* signature: any other is refused here, before anything changes.          *)
ValidOrder(o) ==
  /\ block <= Deadline[o]
  /\ NonceOf[o] \notin nonceInvalidated
  /\ MinOutput[o] <= mulDiv(InputAmount[o], StartPrice[o], PriceUnit)

-----------------------------------------------------------------------------
Register(o, f, fillAmount) ==
  /\ frame = {}
  /\ ~cancelled[o]
  /\ ValidOrder(o)
  /\ recorded' = recorded \cup {o}
  /\ \E rate \in OracleRates, excess \in Excesses :
       RegisterStake(o, f, fillAmount, InputAmount[o], Deadline[o] - block,
                     fillAmount * rate, excess)
  /\ UNCHANGED <<block, fillVars, payVars, fallbackInitiated, cancelled,
                 nonceInvalidated, frame>>

(* _executePartialChunk up to its interactions.                            *)
FillChecks(o, f, fillAmount) ==
  /\ frame = {}
  /\ ~cancelled[o]
  /\ ~fallbackInitiated[o]
  /\ NonceOf[o] \notin nonceInvalidated
  /\ hasValidRegistration(o, f, fillAmount, block, Deadline[o])
  /\ isNewOrder(raw[o]) => ValidOrder(o)
  /\ block <= Deadline[o]
  /\ fillAmount <= remainingInput(o)
  /\ fillAmount = remainingInput(o) \/ fillAmount >= MinFill[o]

(* Fault: the clock restarts and the decay so far is forgotten.            *)
cursorAfterFill_Forgets(o) ==
  [price   |-> IF isNewOrder(raw[o]) THEN StartPrice[o] ELSE cursor[o].price,
   resetAt |-> block]

(* DecayCursorLib.init on the first fill, reset on every one.              *)
cursorAfterFill(o) == [price |-> PriceNow(o), resetAt |-> block]

(* The writes made before control is handed on, and the input leg.         *)
TakeInput(o, fillAmount) ==
  LET newRemaining == remainingInput(o) - fillAmount
  IN  /\ raw' = [raw EXCEPT ![o] =
                   IF newRemaining = 0 THEN fullyFilled ELSE pack(newRemaining)]
      /\ cursor' = [cursor EXCEPT ![o] = cursorAfterFill(o)]
      /\ pulled' = [pulled EXCEPT ![o] = @ + fillAmount]
      /\ openedAt' = [openedAt EXCEPT ![o] = IF isNewOrder(raw[o]) THEN block ELSE @]

(* The output leg: the swapper is credited what the token really moved.    *)
PayOutput(o, f, fillAmount, currentRemaining, newRemaining, output) ==
  \E fee \in Fees :
    LET received == output - fee
    IN  /\ fee <= output
        /\ received >= mulDiv(MinOutput[o], fillAmount, InputAmount[o])
        /\ paid' = [paid EXCEPT ![o] = @ + received]
        /\ outputBalance' = [outputBalance EXCEPT ![PayeeOf[o]] = @ + received]
        /\ newRemaining = 0 => paid[o] + received >= MinOutput[o]
        /\ onFillSuccess(o, f, fillAmount, currentRemaining)

OutputAmount(o, fillAmount) == mulDiv(fillAmount, PriceNow(o), PriceUnit)

executePartialChunk(o, f, fillAmount) ==
  /\ FillChecks(o, f, fillAmount)
  /\ TakeInput(o, fillAmount)
  /\ PayOutput(o, f, fillAmount, remainingInput(o),
               remainingInput(o) - fillAmount, OutputAmount(o, fillAmount))
  /\ UNCHANGED <<block, switchVars, frame>>

(* executePartialChunkWithCallback, before and after the callback.         *)
EnterCallback(o, f, fillAmount) ==
  /\ FillChecks(o, f, fillAmount)
  /\ TakeInput(o, fillAmount)
  /\ frame' = {[order |-> o, filler |-> f, fill |-> fillAmount,
                currentRemaining |-> remainingInput(o),
                newRemaining     |-> remainingInput(o) - fillAmount,
                output           |-> OutputAmount(o, fillAmount)]}
  /\ UNCHANGED <<block, payVars, switchVars, auctionVars>>

LeaveCallback ==
  /\ \E fr \in frame :
       PayOutput(fr.order, fr.filler, fr.fill, fr.currentRemaining,
                 fr.newRemaining, fr.output)
  /\ frame' = {}
  /\ UNCHANGED <<block, fillVars, switchVars>>

(* cancelOrder and invalidateNonce carry no guard but the caller's         *)
(* identity: the swapper may call them at any time, also in a callback.    *)
cancelOrder(o) ==
  /\ ~cancelled[o]
  /\ cancelled' = [cancelled EXCEPT ![o] = TRUE]
  /\ UNCHANGED <<block, fillVars, payVars, fallbackInitiated, nonceInvalidated,
                 recorded, frame, auctionVars>>

invalidateNonce(n) ==
  /\ nonceInvalidated' = nonceInvalidated \cup {n}
  /\ UNCHANGED <<block, fillVars, payVars, fallbackInitiated, cancelled,
                 recorded, frame, auctionVars>>

-----------------------------------------------------------------------------
(* FillAuction's own entry points, which read the order's state through    *)
(* the reactor and are open to anyone, also in a callback.                 *)
CanSlash(o, f) ==
  MaySlash(o, f, block, Deadline[o], cancelled[o],
           isNonceInvalidatedForOrder(o), remainingInput(o))

CanRelease(o, f) ==
  MayRelease(o, f, cancelled[o], isNonceInvalidatedForOrder(o), remainingInput(o))

slash(o, f, caller) ==
  /\ CanSlash(o, f)
  /\ slashStake(o, f, caller)
  /\ UNCHANGED reactorVars

releaseRegistration(o, f) ==
  /\ CanRelease(o, f)
  /\ releaseStake(o, f)
  /\ UNCHANGED reactorVars

Withdraw(a)    == withdraw(a) /\ UNCHANGED reactorVars
Reconfigure(c) == reconfigure(c) /\ UNCHANGED reactorVars

NextBlock ==
  /\ frame = {}
  /\ block < MaxBlock
  /\ block' = block + 1
  /\ UNCHANGED <<fillVars, payVars, switchVars, frame, auctionVars>>
=============================================================================
