--------------------------- MODULE CrossChainEscrows ---------------------------
(***************************************************************************)
(* The contracts of contract/src/crosschain: EscrowSrcFactory and the      *)
(* EscrowSrc clones it deploys on the chain of the input, EscrowDstFactory *)
(* and its EscrowDst clones on the chain of the output.  Each chain has a  *)
(* clock of its own.                                                       *)
(*                                                                         *)
(* A fill stands for its hashlock, which is random and so belongs to one   *)
(* quote: a clone's address is determined by the fill.  The signatures bind*)
(* no filler, and the backend serves them: whoever calls fillSlot first is *)
(* the filler of the clone, the one that quoted or another.  Whether a     *)
(* caller knows the secret is up to CrossChainSwap.tla; so is which terms  *)
(* the swapper signed.                                                     *)
(***************************************************************************)
EXTENDS StakeSchedule, RemainingLib

CONSTANTS
  Orders, Fills,
  OrderOf,       \* [Fills -> Orders]
  InputAmount,   \* [Orders -> Nat], inputAmount
  DeadlineBase,  \* [Orders -> Nat], deadlineBase
  BondConfig,    \* the factory's stake configuration
  OracleRates,   \* what one unit of input may be worth in ETH
  Bonds          \* what a filler may attach to a fill

ASSUME EscrowAssumption ==
  /\ OrderOf \in [Fills -> Orders]
  /\ InputAmount \in [Orders -> Nat] /\ DeadlineBase \in [Orders -> Nat]
  /\ U256 \in Nat
  /\ \A o \in Orders : 0 < InputAmount[o] /\ InputAmount[o] + 1 < U256
  /\ Bonds \subseteq Nat /\ OracleRates \subseteq Nat

VARIABLES
  srcTime, dstTime,  \* block.timestamp on the two chains
  raw,               \* _remaining, packed
  orderAmount,       \* _orderAmount, 0 until the first fill
  src,               \* the EscrowSrc clones
  pendingEth,        \* their pendingEth, by role
  ethHeld,           \* the ETH each of them holds
  dst                \* the EscrowDst clones

srcVars == <<raw, orderAmount, src, pendingEth, ethHeld>>

(* The two a clone pays: its own filler and the swapper.                   *)
Roles == {"filler", "swapper"}

(* msg.sender of fillSlot: the filler that quoted the fill, or another.    *)
Callers == {"filler", "other"}

SrcEscrow == [state : {"none", "open", "claimed", "cancelled"},
              filler : Callers \cup {"none"},
              amount : Nat, expiry : Nat, safetyDeposit : Nat]
DstEscrow == [state : {"none", "open", "claimed", "refunded"}, expiry : Nat]

EscrowsInit ==
  /\ srcTime = 0
  /\ dstTime = 0
  /\ raw = [o \in Orders |-> 0]
  /\ orderAmount = [o \in Orders |-> 0]
  /\ src = [h \in Fills |-> [state |-> "none", filler |-> "none", amount |-> 0, expiry |-> 0,
                          safetyDeposit |-> 0]]
  /\ pendingEth = [h \in Fills |-> [r \in Roles |-> 0]]
  /\ ethHeld = [h \in Fills |-> 0]
  /\ dst = [h \in Fills |-> [state |-> "none", expiry |-> 0]]

remainingInput(o) == Unpack(raw[o], InputAmount[o])

(* requiredStakeByTimestamp: the bond schedule on the source chain's clock.*)
requiredStakeByTimestamp(notionalEth, deadline) ==
  requiredStake(BondConfig, notionalEth, deadline - srcTime)

-----------------------------------------------------------------------------
(* EscrowSrc.initialize: the bond becomes the clone's safety deposit; input*)
(* and bond will go to this filler, whoever withdraws.                     *)
initializeSrc(h, filler, amount, expiry, value) ==
  /\ amount > 0
  /\ expiry > srcTime
  /\ value > 0
  /\ src' = [src EXCEPT ![h] = [state |-> "open", filler |-> filler, amount |-> amount,
                                expiry |-> expiry, safetyDeposit |-> value]]
  /\ ethHeld' = [ethHeld EXCEPT ![h] = value]

(* EscrowSrcFactory.fillSlot, both of the swapper's signatures at hand:    *)
(* the caller becomes the clone's filler.                                  *)
fillSlot(h, caller, auth, value) ==
  LET o            == OrderOf[h]
      newRemaining == remainingInput(o) - auth.fillAmount
  IN  /\ srcTime <= DeadlineBase[o]
      /\ auth.t1 <= DeadlineBase[o]
      /\ auth.t2 > auth.t1
      /\ auth.fillAmount > 0
      /\ auth.fillAmount <= remainingInput(o)
      /\ src[h].state = "none"
      /\ \E rate \in OracleRates :
           value >= requiredStakeByTimestamp(auth.fillAmount * rate, auth.t1)
      /\ orderAmount' = [orderAmount EXCEPT ![o] = InputAmount[o]]
      /\ raw' = [raw EXCEPT ![o] = IF newRemaining = 0 THEN fullyFilled ELSE pack(newRemaining)]
      /\ initializeSrc(h, caller, auth.fillAmount, auth.t1, value)
      /\ UNCHANGED pendingEth

(* _payEth: a push that fails is credited to the recipient instead.        *)
_payEth(h, role) ==
  \/ /\ ethHeld' = [ethHeld EXCEPT ![h] = @ - src[h].safetyDeposit]
     /\ UNCHANGED pendingEth
  \/ /\ pendingEth' = [pendingEth EXCEPT ![h][role] = @ + src[h].safetyDeposit]
     /\ UNCHANGED ethHeld

withdraw(h) ==
  /\ src[h].state = "open"
  /\ srcTime <= src[h].expiry
  /\ src' = [src EXCEPT ![h].state = "claimed"]
  /\ _payEth(h, "filler")
  /\ UNCHANGED <<raw, orderAmount>>

(* Fault: a sold-out order is taken for one with nothing to restore to.    *)
restoreRemaining_OnlyPartial(o, amount) ==
  raw' = [raw EXCEPT ![o] = IF @ = fullyFilled THEN @ ELSE pack(remainingInput(o) + amount)]

(* restoreRemaining, called by the clone that is being cancelled.          *)
restoreRemaining(o, amount) ==
  LET sum      == Unpack(raw[o], orderAmount[o]) + amount
      restored == IF sum > orderAmount[o] THEN orderAmount[o] ELSE sum
  IN  raw' = [raw EXCEPT ![o] = IF restored = 0 THEN 0 ELSE pack(restored)]

cancel(h) ==
  /\ src[h].state = "open"
  /\ srcTime > src[h].expiry
  /\ src' = [src EXCEPT ![h].state = "cancelled"]
  /\ _payEth(h, "swapper")
  /\ restoreRemaining(OrderOf[h], src[h].amount)
  /\ UNCHANGED orderAmount

(* Fault: the credit is paid out and kept.                                 *)
claimEth_KeepsCredit(h, role) ==
  /\ pendingEth[h][role] > 0
  /\ ethHeld[h] >= pendingEth[h][role]
  /\ ethHeld' = [ethHeld EXCEPT ![h] = @ - pendingEth[h][role]]
  /\ UNCHANGED <<raw, orderAmount, src, pendingEth>>

claimEth(h, role) ==
  /\ pendingEth[h][role] > 0
  /\ ethHeld[h] >= pendingEth[h][role]
  /\ ethHeld' = [ethHeld EXCEPT ![h] = @ - pendingEth[h][role]]
  /\ pendingEth' = [pendingEth EXCEPT ![h][role] = 0]
  /\ UNCHANGED <<raw, orderAmount, src>>

-----------------------------------------------------------------------------
(* EscrowDstFactory.deploy, the output already at the clone's address.     *)
deploy(h, expiry) ==
  /\ dst[h].state = "none"
  /\ expiry > dstTime
  /\ dst' = [dst EXCEPT ![h] = [state |-> "open", expiry |-> expiry]]

claim(h) ==
  /\ dst[h].state = "open"
  /\ dstTime <= dst[h].expiry
  /\ dst' = [dst EXCEPT ![h].state = "claimed"]

refund(h) ==
  /\ dst[h].state = "open"
  /\ dstTime > dst[h].expiry
  /\ dst' = [dst EXCEPT ![h].state = "refunded"]
=============================================================================
