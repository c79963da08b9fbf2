---------------------------- MODULE CrossChainSwap ----------------------------
(***************************************************************************)
(* A cross-chain fill, from quote to settlement, as the repository's own   *)
(* clients drive it: the filler (filler/*/src/fill/crossChainFill.ts)      *)
(* quotes, funds the destination, fills the source slot and reveals its    *)
(* secret by withdrawing; the swapper signs what the backend has verified; *)
(* the backend's relayer claims with the revealed secret.                  *)
(*                                                                         *)
(* srcTime also stands for the wall clock the clients read; that it and the*)
(* source chain differ is part of InclusionDelay.  The three delays are    *)
(* upper bounds the clocks respect: a chain includes a transaction, and the*)
(* relayer claims, before the clock is past its bound, as long as they can.*)
(*                                                                         *)
(* Two things leave a fill outside what the clients agreed on (Waived):    *)
(* another caller may have used the swapper's signatures to fill the slot, *)
(* and two requests to sign that overlap may have put two different terms  *)
(* on record.  Both are steps of the model; the atomicity of the swap is   *)
(* claimed of the other fills.                                             *)
(***************************************************************************)
EXTENDS CrossChainEscrows, Totals

CONSTANTS
  T1_BUFFER_SECONDS,           \* how long a filler asks the input to be locked
  T2_BUFFER_SECONDS,           \* how long after that it can take its output back
  DEFAULT_MIN_MARGIN_SECONDS,  \* how long before T1 it still reveals
  FillFractions,               \* shares of the remaining input a filler asks for, in bps
  MaxSignatures,               \* bound: [Fills -> Nat], how many terms are signed for a fill
  InclusionDelay,              \* from sending a withdrawal to its inclusion
  RelayDelay,                  \* from a withdrawal to the relayer's claim
  MaxSkew,                     \* between the two chains' clocks
  MaxTime                      \* bound: the last timestamp of a run

(* The margins the clients keep cover the delays they were chosen for.     *)
ASSUME TimingAssumption ==
  /\ T1_BUFFER_SECONDS \in Nat /\ T2_BUFFER_SECONDS \in Nat \ {0}
  /\ DEFAULT_MIN_MARGIN_SECONDS \in Nat
  /\ FillFractions \subseteq 0..BPS
  /\ InclusionDelay \in Nat /\ RelayDelay \in Nat /\ MaxSkew \in Nat /\ MaxTime \in Nat
  /\ InclusionDelay <= DEFAULT_MIN_MARGIN_SECONDS
  /\ RelayDelay + MaxSkew <= T2_BUFFER_SECONDS

VARIABLES
  quote,     \* the filler's terms, all 0 before it quotes
  auth,      \* the terms the swapper signed; more than one when requests overlap
  revealed,  \* the fills whose secret is out
  sentAt,    \* srcTime when it went out
  takenAt    \* dstTime when the withdrawal took effect

clientVars == <<quote, auth, revealed, sentAt, takenAt>>
vars == <<srcTime, dstTime, srcVars, dst, clientVars>>

FillAuth == [fillAmount : Nat, t1 : Nat, t2 : Nat]
NoTerms  == [fillAmount |-> 0, t1 |-> 0, t2 |-> 0]

Init ==
  /\ EscrowsInit
  /\ quote = [h \in Fills |-> NoTerms]
  /\ auth = [h \in Fills |-> {}]
  /\ revealed = {}
  /\ sentAt = [h \in Fills |-> 0]
  /\ takenAt = [h \in Fills |-> 0]

-----------------------------------------------------------------------------
(* crossChainFill up to the quote: a share of what is left now, locked for *)
(* as long as the order allows.                                            *)
QuotedT1(o) ==
  IF srcTime + T1_BUFFER_SECONDS < DeadlineBase[o]
    THEN srcTime + T1_BUFFER_SECONDS ELSE DeadlineBase[o]

Quote(h) ==
  /\ quote[h] = NoTerms
  /\ QuotedT1(OrderOf[h]) > srcTime
  /\ \E fraction \in FillFractions :
       LET amount == mulDiv(remainingInput(OrderOf[h]), fraction, BPS)
       IN  /\ amount > 0
           /\ quote' = [quote EXCEPT ![h] =
                          [fillAmount |-> amount,
                           t1 |-> QuotedT1(OrderOf[h]),
                           t2 |-> QuotedT1(OrderOf[h]) + T2_BUFFER_SECONDS]]
  /\ UNCHANGED <<srcTime, dstTime, srcVars, dst, auth, revealed, sentAt, takenAt>>

(* ensureDstEscrowDeployed.                                                *)
FundDst(h) ==
  /\ quote[h] # NoTerms
  /\ deploy(h, quote[h].t2)
  /\ UNCHANGED <<srcTime, dstTime, srcVars, clientVars>>

(* Fault: the swapper may also give the filler more time.                  *)
SignFill_Extends(h) ==
  /\ dst[h].state # "none" /\ Cardinality(auth[h]) < MaxSignatures[h]
  /\ \E t1 \in (srcTime + 1)..DeadlineBase[OrderOf[h]] :
       auth' = [auth EXCEPT ![h] = @ \cup {[quote[h] EXCEPT !.t1 = t1]}]
  /\ UNCHANGED <<srcTime, dstTime, srcVars, dst, quote, revealed, sentAt, takenAt>>

(* setFillSwapperSig: once the backend has seen a genuine escrow with the  *)
(* quoted expiry, whatever became of it since.  The swapper may shorten T1 *)
(* and never extend it.  A request that read the fill as unsigned may end  *)
(* after another was recorded; the contract takes either signature.        *)
SignFill(h) ==
  /\ dst[h].state # "none"
  /\ Cardinality(auth[h]) < MaxSignatures[h]
  /\ \E t1 \in (srcTime + 1)..quote[h].t1 :
       auth' = [auth EXCEPT ![h] = @ \cup {[fillAmount |-> quote[h].fillAmount, t1 |-> t1,
                                           t2 |-> quote[h].t2]}]
  /\ UNCHANGED <<srcTime, dstTime, srcVars, dst, quote, revealed, sentAt, takenAt>>

(* The signatures are public: the filler that quoted uses them, or another.*)
FillSlotOn(h, caller, terms) ==
  /\ \E value \in Bonds : fillSlot(h, caller, terms, value)
  /\ UNCHANGED <<srcTime, dstTime, dst, clientVars>>

FillSlot(h, caller) == \E terms \in auth[h] : FillSlotOn(h, caller, terms)

(* Fault: the secret is sent however close T1 is.                          *)
Reveal_NoMargin(h) ==
  /\ src[h].state # "none" /\ h \notin revealed
  /\ revealed' = revealed \cup {h}
  /\ sentAt' = [sentAt EXCEPT ![h] = srcTime]
  /\ UNCHANGED <<srcTime, dstTime, srcVars, dst, quote, auth, takenAt>>

(* The filler sends EscrowSrc.withdraw, once the escrow exists, whoever    *)
(* filled the slot: crossChainFill asks isFilled only.  The margin is kept *)
(* from the T1 the backend has on record.  From then on the secret is      *)
(* public, also if the transaction should fail.                            *)
Reveal(h) ==
  /\ src[h].state # "none"
  /\ h \notin revealed
  /\ \E terms \in auth[h] : srcTime + DEFAULT_MIN_MARGIN_SECONDS <= terms.t1
  /\ revealed' = revealed \cup {h}
  /\ sentAt' = [sentAt EXCEPT ![h] = srcTime]
  /\ UNCHANGED <<srcTime, dstTime, srcVars, dst, quote, auth, takenAt>>

Withdraw(h) ==
  /\ h \in revealed
  /\ withdraw(h)
  /\ takenAt' = [takenAt EXCEPT ![h] = dstTime]
  /\ UNCHANGED <<srcTime, dstTime, dst, quote, auth, revealed, sentAt>>

(* The relayer, or the swapper itself, with the secret now public.         *)
Claim(h) ==
  /\ h \in revealed
  /\ claim(h)
  /\ UNCHANGED <<srcTime, dstTime, srcVars, clientVars>>

(* What the contracts allow anyone, or the filler, once time is up.        *)
Cancel(h) == cancel(h) /\ UNCHANGED <<srcTime, dstTime, dst, clientVars>>

Refund(h) == refund(h) /\ UNCHANGED <<srcTime, dstTime, srcVars, clientVars>>

ClaimEth(h, role) == claimEth(h, role) /\ UNCHANGED <<srcTime, dstTime, dst, clientVars>>

-----------------------------------------------------------------------------
(* The fills another caller took, or that were signed on two terms.  Those *)
(* the backend may have lost sight of: its relayer is not counted on.      *)
Waived(h) == src[h].filler = "other" \/ \E t, u \in auth[h] : t # u

WithdrawalPending(h) == h \in revealed /\ src[h].state = "open" /\ srcTime <= src[h].expiry
ClaimPending(h)      == src[h].state = "claimed" /\ dst[h].state = "open" /\ ~Waived(h)

TickSrc ==
  /\ srcTime < MaxTime
  /\ srcTime + 1 <= dstTime + MaxSkew
  /\ \A h \in Fills : WithdrawalPending(h) => srcTime < sentAt[h] + InclusionDelay
  /\ srcTime' = srcTime + 1
  /\ UNCHANGED <<dstTime, srcVars, dst, clientVars>>

TickDst ==
  /\ dstTime < MaxTime
  /\ dstTime + 1 <= srcTime + MaxSkew
  /\ \A h \in Fills : ClaimPending(h) => dstTime < takenAt[h] + RelayDelay
  /\ dstTime' = dstTime + 1
  /\ UNCHANGED <<srcTime, srcVars, dst, clientVars>>

Next ==
  \/ TickSrc
  \/ TickDst
  \/ \E h \in Fills :
       \/ Quote(h) \/ FundDst(h) \/ SignFill(h)
       \/ \E caller \in Callers : FillSlot(h, caller)
       \/ Reveal(h) \/ Withdraw(h) \/ Claim(h)
       \/ Cancel(h) \/ Refund(h)
       \/ \E role \in Roles : ClaimEth(h, role)

(* A sent transaction is included; of a fill that took the course the      *)
(* clients agreed on, the relayer polls until it has claimed.              *)
RelayerClaim(h) == ~Waived(h) /\ Claim(h)

Fairness == \A h \in Fills : WF_vars(Withdraw(h)) /\ WF_vars(RelayerClaim(h))

Spec     == Init /\ [][Next]_vars
LiveSpec == Spec /\ Fairness

-----------------------------------------------------------------------------
TypeOK ==
  /\ srcTime \in Nat /\ dstTime \in Nat
  /\ raw \in [Orders -> 0..(U256 - 1)]
  /\ orderAmount \in [Orders -> Nat]
  /\ src \in [Fills -> SrcEscrow]
  /\ pendingEth \in [Fills -> [Roles -> Nat]]
  /\ ethHeld \in [Fills -> Nat]
  /\ dst \in [Fills -> DstEscrow]
  /\ quote \in [Fills -> FillAuth]
  /\ auth \in [Fills -> SUBSET FillAuth]
  /\ revealed \subseteq Fills
  /\ sentAt \in [Fills -> Nat]
  /\ takenAt \in [Fills -> Nat]

InputLeg(h) ==
  CASE src[h].state = "open"      -> "locked"
    [] src[h].state = "claimed"   -> "taken"
    [] src[h].state = "cancelled" -> "returned"
    [] OTHER                      -> "none"

OutputLeg(h) ==
  CASE dst[h].state = "open"     -> "locked"
    [] dst[h].state = "claimed"  -> "paid"
    [] dst[h].state = "refunded" -> "returned"
    [] OTHER                     -> "none"

InputLegs  == [h \in Fills |-> InputLeg(h)]
OutputLegs == [h \in Fills |-> OutputLeg(h)]

WaivedFills == {h \in Fills : Waived(h)}

Swap == INSTANCE AtomicSwap WITH
          decided <- revealed, waived <- WaivedFills, input <- InputLegs, output <- OutputLegs

(* Of a fill whose slot the quoting filler itself took, on the one T1 the  *)
(* swapper signed, neither party can end up with both legs or without      *)
(* either: the secret goes out only with both legs locked, and once it is  *)
(* out no clock lets the swapper take the input back or the filler its     *)
(* output.  Of any fill: the secret goes out only with the output locked   *)
(* and the input escrowed, and without the secret no leg changes hands.    *)
ImplementsAtomicSwap == Swap!Spec

(* Each clone holds the ETH it owes: the safety deposit while it is open,  *)
(* afterwards what a failed push left to be claimed.                       *)
EthBacked ==
  \A h \in Fills :
    ethHeld[h] = (IF src[h].state = "open" THEN src[h].safetyDeposit ELSE 0)
                 + pendingEth[h]["filler"] + pendingEth[h]["swapper"]

(* Nothing is lost and nothing sold twice.  What is left of an order and   *)
(* what its fills have locked or taken add up to the amount the swapper    *)
(* signed, however often fills were cancelled and their share filled again;*)
(* and each clone holds the bond it owes, whoever refused it.              *)
Sold(o) == {h \in Fills : OrderOf[h] = o /\ src[h].state \in {"open", "claimed"}}
Amounts == [h \in Fills |-> src[h].amount]

Conserved ==
  /\ EthBacked
  /\ \A o \in Orders : remainingInput(o) + Total(Amounts, Sold(o)) = InputAmount[o]

(* A fill whose secret is out ends with both legs handed over, unless      *)
(* another caller took its slot or it was signed on two terms.             *)
RevealedFillsSettle ==
  \A h \in Fills :
    h \in revealed ~> (src[h].state = "claimed" /\ dst[h].state = "claimed") \/ Waived(h)

-----------------------------------------------------------------------------
(* The inductive invariant behind ImplementsAtomicSwap and EthBacked.      *)
ClocksClose == srcTime <= dstTime + MaxSkew /\ dstTime <= srcTime + MaxSkew

(* Terms pass from the quote to the destination escrow, from the signature *)
(* to the source escrow, and T1 only moves away from T2.                   *)
TermsAgree ==
  \A h \in Fills :
    /\ quote[h] # NoTerms => quote[h].t1 + T2_BUFFER_SECONDS = quote[h].t2
    /\ dst[h].state # "none" => quote[h] # NoTerms /\ dst[h].expiry = quote[h].t2
    /\ \A terms \in auth[h] : dst[h].state # "none" /\ terms.t1 <= quote[h].t1
    /\ IF src[h].state = "none" THEN src[h].filler = "none"
                                ELSE \E terms \in auth[h] : src[h].expiry = terms.t1

(* Where a fill may stand before and after its secret is out.              *)
Undecided(h) ==
  /\ src[h].state # "claimed"
  /\ dst[h].state # "claimed"
  /\ src[h].state = "cancelled" => srcTime > src[h].expiry
  /\ dst[h].state = "refunded" => dstTime > dst[h].expiry

Decided(h) ==
  /\ src[h].state \in {"open", "claimed"}
  /\ dst[h].state \in {"open", "claimed"}
  /\ sentAt[h] + DEFAULT_MIN_MARGIN_SECONDS <= src[h].expiry
  /\ src[h].state = "open" => srcTime <= sentAt[h] + InclusionDelay
  /\ ClaimPending(h) =>
       /\ takenAt[h] <= src[h].expiry + MaxSkew
       /\ dstTime <= takenAt[h] + RelayDelay

LegsAgree ==
  \A h \in Fills :
    IF h \in revealed THEN src[h].state # "none" /\ (Waived(h) \/ Decided(h)) ELSE Undecided(h)

RemainingFits ==
  /\ \A o \in Orders :
       /\ remainingInput(o) \in 0..InputAmount[o]
       /\ raw[o] # 0 => orderAmount[o] = InputAmount[o]
  /\ \A h \in Fills :
       src[h].state # "none" => orderAmount[OrderOf[h]] = InputAmount[OrderOf[h]]

(* Nothing is pushed, and so nothing fails to be, before an escrow closes. *)
OpenOwesNothing ==
  \A h \in Fills :
    src[h].state \in {"none", "open"} => pendingEth[h]["filler"] = 0 /\ pendingEth[h]["swapper"] = 0

IInv ==
  /\ TypeOK
  /\ ClocksClose
  /\ TermsAgree
  /\ LegsAgree
  /\ RemainingFits
  /\ OpenOwesNothing
  /\ EthBacked

(* And behind Conserved: an order is sold in finitely many positive shares.*)
SharesCount ==
  /\ \A o \in Orders : IsFiniteSet(Sold(o))
  /\ \A h \in Fills : src[h].state = "open" => src[h].amount > 0
=============================================================================
