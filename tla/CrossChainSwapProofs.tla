------------------------- MODULE CrossChainSwapProofs -------------------------
(***************************************************************************)
(* Proofs about CrossChainSwap: its inductive invariant, and that it       *)
(* implements the abstract atomic swap, for any orders, fills, amounts and *)
(* delays that satisfy TimingAssumption.                                   *)
(***************************************************************************)
EXTENDS CrossChainFiller, StakeScheduleProofs, TotalsProofs

LEMMA RemainingNat ==
  ASSUME IInv, NEW o \in Orders
  PROVE  /\ remainingInput(o) \in 0..InputAmount[o]
         /\ InputAmount[o] \in Nat /\ InputAmount[o] > 0 /\ InputAmount[o] + 1 < U256
         /\ U256 \in Nat /\ DeadlineBase[o] \in Nat /\ raw[o] \in 0..(U256 - 1)
BY EscrowAssumption DEF IInv, RemainingFits, TypeOK

(* The quote of a share: a positive amount, and T2 at its distance from T1.*)
LEMMA QuoteEffect ==
  ASSUME IInv, NEW h \in Fills, Quote(h)
  PROVE  \E terms \in FillAuth :
           /\ quote' = [quote EXCEPT ![h] = terms]
           /\ terms # NoTerms
           /\ terms.t1 + T2_BUFFER_SECONDS = terms.t2
<1> DEFINE o == OrderOf[h]
<1>1. o \in Orders
  BY EscrowAssumption
<1>2. PICK fraction \in FillFractions :
        /\ mulDiv(remainingInput(o), fraction, BPS) > 0
        /\ quote' = [quote EXCEPT ![h] =
                       [fillAmount |-> mulDiv(remainingInput(o), fraction, BPS),
                        t1 |-> QuotedT1(o), t2 |-> QuotedT1(o) + T2_BUFFER_SECONDS]]
  BY DEF Quote
<1>3. remainingInput(o) \in Nat /\ fraction \in 0..BPS /\ fraction \in Nat
  <2>1. remainingInput(o) \in 0..InputAmount[o] /\ InputAmount[o] \in Nat
    BY <1>1, RemainingNat
  <2>2. fraction \in 0..BPS
    BY TimingAssumption, Zenon
  <2>3. fraction \in Nat
    <3>1. \A x \in 0..BPS : x \in Nat
      BY DEF BPS
    <3> QED BY <2>2, <3>1, Zenon
  <2> HIDE DEF o
  <2>4. remainingInput(o) \in Nat
    BY <2>1
  <2> QED BY <2>2, <2>3, <2>4
<1>4. mulDiv(remainingInput(o), fraction, BPS) \in Nat
  BY <1>3, ShareAtMost
<1>5. QuotedT1(o) \in Nat /\ QuotedT1(o) + T2_BUFFER_SECONDS \in Nat
  BY <1>1, RemainingNat, TimingAssumption DEF QuotedT1, IInv, TypeOK
<1> DEFINE terms == [fillAmount |-> mulDiv(remainingInput(o), fraction, BPS),
                     t1 |-> QuotedT1(o), t2 |-> QuotedT1(o) + T2_BUFFER_SECONDS]
<1>6. terms \in FillAuth /\ terms # NoTerms /\ terms.t1 + T2_BUFFER_SECONDS = terms.t2
  BY <1>2, <1>4, <1>5 DEF FillAuth, NoTerms
<1> QED BY <1>2, <1>6

(* The terms a swapper signs: the quoted ones, T1 possibly earlier.        *)
LEMMA SignEffect ==
  ASSUME IInv, NEW h \in Fills, SignFill(h)
  PROVE  \E terms \in FillAuth :
           /\ auth' = [auth EXCEPT ![h] = @ \cup {terms}]
           /\ terms.t1 <= quote[h].t1
           /\ dst[h].state # "none"
<1>1. PICK t1 \in (srcTime + 1)..quote[h].t1 :
        auth' = [auth EXCEPT ![h] = @ \cup {[fillAmount |-> quote[h].fillAmount, t1 |-> t1,
                                             t2 |-> quote[h].t2]}]
  BY DEF SignFill
<1>2. quote[h] \in FillAuth /\ srcTime \in Nat
  BY DEF IInv, TypeOK
<1>3. t1 \in Nat /\ t1 <= quote[h].t1
  BY <1>2 DEF FillAuth
<1> DEFINE terms == [fillAmount |-> quote[h].fillAmount, t1 |-> t1, t2 |-> quote[h].t2]
<1>4. terms \in FillAuth /\ terms.t1 <= quote[h].t1
  BY <1>2, <1>3 DEF FillAuth
<1>5. dst[h].state # "none" /\ auth' = [auth EXCEPT ![h] = @ \cup {terms}]
  BY <1>1 DEF SignFill
<1> HIDE DEF terms
<1> QED BY <1>4, <1>5

(* Opening a slot: what it takes off the order, and what the clone gets.   *)
LEMMA FillSlotEffect ==
  ASSUME IInv, NEW h \in Fills, NEW caller \in Callers, NEW terms \in auth[h],
         FillSlotOn(h, caller, terms)
  PROVE  /\ src[h].state = "none" /\ terms \in FillAuth /\ srcTime < terms.t1
         /\ terms.fillAmount \in 1..remainingInput(OrderOf[h])
         /\ orderAmount' = [orderAmount EXCEPT ![OrderOf[h]] = InputAmount[OrderOf[h]]]
         /\ LET left == remainingInput(OrderOf[h]) - terms.fillAmount
            IN  raw' = [raw EXCEPT ![OrderOf[h]] = IF left = 0 THEN fullyFilled ELSE pack(left)]
         /\ \E value \in Nat \ {0} :
              /\ src' = [src EXCEPT ![h] =
                           [state |-> "open", filler |-> caller, amount |-> terms.fillAmount,
                            expiry |-> terms.t1, safetyDeposit |-> value]]
              /\ ethHeld' = [ethHeld EXCEPT ![h] = value]
         /\ UNCHANGED <<pendingEth, srcTime, dstTime, dst, clientVars>>
<1>1. PICK value \in Bonds : fillSlot(h, caller, terms, value)
  BY DEF FillSlotOn
<1>2. OrderOf[h] \in Orders /\ value \in Nat
  BY EscrowAssumption
<1>3. remainingInput(OrderOf[h]) \in Nat /\ terms \in FillAuth /\ srcTime \in Nat
  BY <1>2, RemainingNat DEF IInv, TypeOK
<1>4. value \in Nat \ {0} /\ terms.fillAmount \in 1..remainingInput(OrderOf[h])
  BY <1>1, <1>2, <1>3 DEF fillSlot, initializeSrc, FillAuth
<1> QED BY <1>1, <1>3, <1>4 DEF fillSlot, initializeSrc, FillSlotOn, FillAuth
-----------------------------------------------------------------------------
(* What happens to the variables of one fill, and to no other's.           *)
LEMMA SrcClosed ==
  ASSUME TypeOK, NEW h \in Fills, NEW s \in {"claimed", "cancelled"},
         src' = [src EXCEPT ![h].state = s]
  PROVE  /\ src' \in [Fills -> SrcEscrow]
         /\ src'[h].state = s /\ src'[h].amount = src[h].amount
         /\ src'[h].expiry = src[h].expiry /\ src'[h].safetyDeposit = src[h].safetyDeposit
         /\ src'[h].filler = src[h].filler
         /\ \A g \in Fills : g # h => src'[g] = src[g]
<1>1. src[h] \in SrcEscrow /\ src'[h] = [src[h] EXCEPT !.state = s]
  BY DEF TypeOK
<1>2. /\ src'[h] \in SrcEscrow /\ src'[h].state = s /\ src'[h].amount = src[h].amount
      /\ src'[h].expiry = src[h].expiry /\ src'[h].safetyDeposit = src[h].safetyDeposit
      /\ src'[h].filler = src[h].filler
  BY <1>1 DEF SrcEscrow
<1>3. \A g \in Fills : g # h => src'[g] = src[g]
  BY DEF TypeOK
<1> QED BY <1>2, <1>3 DEF TypeOK

LEMMA DstClosed ==
  ASSUME TypeOK, NEW h \in Fills, NEW s \in {"claimed", "refunded"},
         dst' = [dst EXCEPT ![h].state = s]
  PROVE  /\ dst' \in [Fills -> DstEscrow]
         /\ dst'[h].state = s /\ dst'[h].expiry = dst[h].expiry
         /\ \A g \in Fills : g # h => dst'[g] = dst[g]
<1>1. dst[h] \in DstEscrow /\ dst'[h] = [dst[h] EXCEPT !.state = s]
  BY DEF TypeOK
<1>2. dst'[h] \in DstEscrow /\ dst'[h].state = s /\ dst'[h].expiry = dst[h].expiry
  BY <1>1 DEF DstEscrow
<1>3. \A g \in Fills : g # h => dst'[g] = dst[g]
  BY DEF TypeOK
<1> QED BY <1>2, <1>3 DEF TypeOK

(* The clone's safety deposit is pushed out or owed, and nothing else is.  *)
LEMMA EthPaid ==
  ASSUME IInv, NEW h \in Fills, NEW role \in Roles, src[h].state = "open", _payEth(h, role)
  PROVE  /\ ethHeld' \in [Fills -> Nat] /\ pendingEth' \in [Fills -> [Roles -> Nat]]
         /\ ethHeld'[h] = pendingEth'[h]["filler"] + pendingEth'[h]["swapper"]
         /\ \A g \in Fills : g # h => ethHeld'[g] = ethHeld[g] /\ pendingEth'[g] = pendingEth[g]
<1>1. /\ TypeOK
      /\ ethHeld[h] = src[h].safetyDeposit
      /\ pendingEth[h]["filler"] = 0 /\ pendingEth[h]["swapper"] = 0
      /\ src[h].safetyDeposit \in Nat
  <2>1. src[h].safetyDeposit \in Nat
    BY DEF IInv, TypeOK, SrcEscrow
  <2> QED BY <2>1 DEF IInv, EthBacked, OpenOwesNothing
<1>2. CASE ethHeld' = [ethHeld EXCEPT ![h] = @ - src[h].safetyDeposit] /\ UNCHANGED pendingEth
  BY <1>1, <1>2 DEF TypeOK
<1>3. CASE /\ pendingEth' = [pendingEth EXCEPT ![h][role] = @ + src[h].safetyDeposit]
           /\ UNCHANGED ethHeld
  <2>1. /\ pendingEth[h] \in [Roles -> Nat] /\ role \in {"filler", "swapper"}
        /\ pendingEth'[h] = [pendingEth[h] EXCEPT ![role] = @ + src[h].safetyDeposit]
        /\ \A g \in Fills : g # h => pendingEth'[g] = pendingEth[g]
    BY <1>1, <1>3 DEF TypeOK, Roles
  <2>2. /\ pendingEth'[h] \in [Roles -> Nat]
        /\ pendingEth'[h]["filler"] + pendingEth'[h]["swapper"] = src[h].safetyDeposit
    BY <1>1, <2>1 DEF Roles
  <2>3. pendingEth' \in [Fills -> [Roles -> Nat]]
    BY <1>1, <1>3, <2>1, <2>2 DEF TypeOK
  <2> QED BY <1>1, <1>3, <2>1, <2>2, <2>3 DEF TypeOK
<1> QED BY <1>2, <1>3 DEF _payEth

(* Packing what is left of an order and unpacking it again.                *)
LEMMA PackedRemaining ==
  ASSUME NEW total \in Nat, total + 1 < U256, U256 \in Nat, NEW left \in 1..total
  PROVE  /\ pack(left) \in 1..(U256 - 1)
         /\ Unpack(pack(left), total) = left
BY DEF pack, Unpack

LEMMA SoldOut ==
  ASSUME U256 \in Nat, NEW total \in Nat, total > 0, total + 1 < U256
  PROVE  /\ fullyFilled \in 1..(U256 - 1)
         /\ Unpack(fullyFilled, total) = 0
BY DEF fullyFilled, Unpack

(* A packed word written for one order leaves every order's remaining sane.*)
LEMMA RemainingWritten ==
  ASSUME IInv, NEW o \in Orders, NEW word \in 0..(U256 - 1), 
         Unpack(word, InputAmount[o]) \in 0..InputAmount[o],
         raw' = [raw EXCEPT ![o] = word]
  PROVE  /\ raw' \in [Orders -> 0..(U256 - 1)]
         /\ \A p \in Orders : remainingInput(p)' \in 0..InputAmount[p]
         /\ \A p \in Orders : p # o => raw'[p] = raw[p]
BY DEF IInv, TypeOK, RemainingFits, remainingInput

(* EscrowSrcFactory.fillSlot never sells more than is left.                *)
LEMMA FillSlotRemaining ==
  ASSUME IInv, NEW h \in Fills, NEW caller \in Callers, NEW terms \in auth[h],
         FillSlotOn(h, caller, terms)
  PROVE  /\ raw' \in [Orders -> 0..(U256 - 1)]
         /\ orderAmount' \in [Orders -> Nat]
         /\ \A p \in Orders : remainingInput(p)' \in 0..InputAmount[p]
         /\ \A p \in Orders : raw'[p] # 0 => orderAmount'[p] = InputAmount[p]
         /\ orderAmount'[OrderOf[h]] = InputAmount[OrderOf[h]]
         /\ \A p \in Orders : orderAmount[p] = InputAmount[p] => orderAmount'[p] = InputAmount[p]
<1> DEFINE o    == OrderOf[h]
           left == remainingInput(o) - terms.fillAmount
           word == IF left = 0 THEN fullyFilled ELSE pack(left)
<1>1. o \in Orders
  BY EscrowAssumption
<1>2. /\ InputAmount[o] \in Nat /\ InputAmount[o] > 0 /\ InputAmount[o] + 1 < U256
      /\ U256 \in Nat /\ remainingInput(o) \in 0..InputAmount[o]
  BY <1>1, RemainingNat
<1>3. /\ raw' = [raw EXCEPT ![o] = word] /\ left \in 0..InputAmount[o]
      /\ orderAmount' = [orderAmount EXCEPT ![o] = InputAmount[o]]
  BY <1>2, FillSlotEffect
<1>4. word \in 0..(U256 - 1) /\ Unpack(word, InputAmount[o]) \in 0..InputAmount[o]
  <2>1. CASE left = 0
    BY <1>2, <2>1, SoldOut
  <2>2. CASE left # 0
    BY <1>2, <1>3, <2>2, PackedRemaining
  <2> QED BY <2>1, <2>2
<1> HIDE DEF word
<1>5. /\ raw' \in [Orders -> 0..(U256 - 1)]
      /\ \A p \in Orders : remainingInput(p)' \in 0..InputAmount[p]
      /\ \A p \in Orders : p # o => raw'[p] = raw[p]
  BY <1>1, <1>3, <1>4, RemainingWritten
<1> QED BY <1>1, <1>2, <1>3, <1>5 DEF IInv, TypeOK, RemainingFits

(* A cancelled fill gives back at most what the order is short of.         *)
LEMMA RestoredRemaining ==
  ASSUME IInv, NEW h \in Fills, src[h].state = "open",
         restoreRemaining(OrderOf[h], src[h].amount)
  PROVE  /\ raw' \in [Orders -> 0..(U256 - 1)]
         /\ \A p \in Orders : remainingInput(p)' \in 0..InputAmount[p]
         /\ \A p \in Orders : p # OrderOf[h] => raw'[p] = raw[p]
         /\ orderAmount[OrderOf[h]] = InputAmount[OrderOf[h]]
<1> DEFINE o        == OrderOf[h]
           sum      == Unpack(raw[o], orderAmount[o]) + src[h].amount
           restored == IF sum > orderAmount[o] THEN orderAmount[o] ELSE sum
           word     == IF restored = 0 THEN 0 ELSE pack(restored)
<1>1. o \in Orders
  BY EscrowAssumption
<1>2. /\ InputAmount[o] \in Nat /\ InputAmount[o] + 1 < U256
      /\ U256 \in Nat /\ remainingInput(o) \in 0..InputAmount[o]
      /\ orderAmount[o] = InputAmount[o] /\ src[h].amount \in Nat
  <2>1. src[h].amount \in Nat
    BY DEF IInv, TypeOK, SrcEscrow
  <2> QED BY <1>1, <2>1, RemainingNat DEF IInv, RemainingFits
<1>3. restored \in 0..InputAmount[o]
  BY <1>2 DEF remainingInput
<1> HIDE DEF restored
<1>4. word \in 0..(U256 - 1) /\ Unpack(word, InputAmount[o]) \in 0..InputAmount[o]
  <2>1. CASE restored = 0
    BY <1>2, <2>1 DEF Unpack
  <2>2. CASE restored # 0
    BY <1>2, <1>3, <2>2, PackedRemaining
  <2> QED BY <2>1, <2>2
<1>5. raw' = [raw EXCEPT ![o] = word]
  BY DEF restoreRemaining, restored
<1> HIDE DEF word
<1> QED BY <1>1, <1>2, <1>4, <1>5, RemainingWritten

-----------------------------------------------------------------------------
(* Each action keeps the inductive invariant.                              *)
LEMMA TickSrcKeeps ==
  ASSUME IInv, TickSrc
  PROVE  IInv'
<1> USE DEF IInv, TickSrc, srcVars, clientVars
<1>1. TypeOK' /\ ClocksClose'
  BY TimingAssumption DEF TypeOK, ClocksClose
<1>2. TermsAgree' /\ RemainingFits' /\ OpenOwesNothing' /\ EthBacked'
  BY DEF TermsAgree, RemainingFits, OpenOwesNothing, EthBacked, remainingInput
<1>3. LegsAgree'
  <2>1. SUFFICES ASSUME NEW h \in Fills
                 PROVE  IF h \in revealed THEN src[h].state # "none" /\ (Waived(h) \/ Decided(h)')
                                          ELSE Undecided(h)'
    BY DEF LegsAgree, Waived
  <2>2. CASE h \in revealed
    <3>1. src[h].state # "none" /\ (Waived(h) \/ Decided(h))
      BY <2>2 DEF LegsAgree
    <3>2. srcTime \in Nat /\ sentAt[h] \in Nat /\ src[h].expiry \in Nat
      BY DEF TypeOK, SrcEscrow
    <3>3. ASSUME Decided(h), src[h].state = "open"
          PROVE  srcTime' <= sentAt[h] + InclusionDelay
      <4>1. srcTime <= src[h].expiry
        BY <3>2, <3>3, TimingAssumption DEF Decided
      <4>2. srcTime < sentAt[h] + InclusionDelay /\ srcTime' = srcTime + 1
        BY <2>2, <3>3, <4>1 DEF WithdrawalPending
      <4> QED BY <3>2, <4>2, TimingAssumption
    <3> QED BY <2>2, <3>1, <3>3 DEF Decided, ClaimPending, Waived
  <2>3. CASE h \notin revealed
    <3>1. srcTime \in Nat /\ src[h].expiry \in Nat
      BY DEF TypeOK, SrcEscrow
    <3> QED BY <2>3, <3>1 DEF LegsAgree, Undecided
  <2> QED BY <2>2, <2>3
<1> QED BY <1>1, <1>2, <1>3

LEMMA TickDstKeeps ==
  ASSUME IInv, TickDst
  PROVE  IInv'
<1> USE DEF IInv, TickDst, srcVars, clientVars
<1>1. TypeOK' /\ ClocksClose'
  BY TimingAssumption DEF TypeOK, ClocksClose
<1>2. TermsAgree' /\ RemainingFits' /\ OpenOwesNothing' /\ EthBacked'
  BY DEF TermsAgree, RemainingFits, OpenOwesNothing, EthBacked, remainingInput
<1>3. LegsAgree'
  <2>1. SUFFICES ASSUME NEW h \in Fills
                 PROVE  IF h \in revealed THEN src[h].state # "none" /\ (Waived(h) \/ Decided(h)')
                                          ELSE Undecided(h)'
    BY DEF LegsAgree, Waived
  <2>2. CASE h \in revealed
    <3>1. dstTime \in Nat /\ takenAt[h] \in Nat
      BY DEF TypeOK
    <3> QED BY <2>2, <3>1, TimingAssumption DEF LegsAgree, Decided, ClaimPending, Waived
  <2>3. CASE h \notin revealed
    <3>1. dstTime \in Nat /\ dst[h].expiry \in Nat
      BY DEF TypeOK, DstEscrow
    <3> QED BY <2>3, <3>1 DEF LegsAgree, Undecided
  <2> QED BY <2>2, <2>3
<1> QED BY <1>1, <1>2, <1>3

LEMMA QuoteKeeps ==
  ASSUME IInv, NEW h \in Fills, Quote(h)
  PROVE  IInv'
<1>1. PICK terms \in FillAuth :
        /\ quote' = [quote EXCEPT ![h] = terms]
        /\ terms # NoTerms
        /\ terms.t1 + T2_BUFFER_SECONDS = terms.t2
  BY QuoteEffect
<1>2. /\ quote[h] = NoTerms
      /\ UNCHANGED <<srcTime, dstTime, srcVars, dst, auth, revealed, sentAt, takenAt>>
  BY DEF Quote
<1>3. TypeOK
  BY DEF IInv
<1>4. TypeOK'
  BY <1>1, <1>2, <1>3 DEF TypeOK, srcVars
<1>5. TermsAgree'
  BY <1>1, <1>2, <1>3 DEF IInv, TypeOK, TermsAgree, srcVars
<1>6. ClocksClose' /\ LegsAgree' /\ RemainingFits' /\ OpenOwesNothing' /\ EthBacked'
  BY <1>2 DEF IInv, ClocksClose, LegsAgree, Decided, Undecided, ClaimPending, Waived, RemainingFits,
              OpenOwesNothing, EthBacked, remainingInput, srcVars
<1> QED BY <1>4, <1>5, <1>6 DEF IInv

LEMMA FundDstKeeps ==
  ASSUME IInv, NEW h \in Fills, FundDst(h)
  PROVE  IInv'
<1>1. /\ dst[h].state = "none" /\ quote[h] # NoTerms
      /\ dst' = [dst EXCEPT ![h] = [state |-> "open", expiry |-> quote[h].t2]]
      /\ UNCHANGED <<srcTime, dstTime, srcVars, clientVars>>
  BY DEF FundDst, deploy
<1>2. TypeOK /\ quote[h].t2 \in Nat
  BY DEF IInv, TypeOK, FillAuth
<1>3. /\ dst'[h] = [state |-> "open", expiry |-> quote[h].t2]
      /\ \A g \in Fills : g # h => dst'[g] = dst[g]
      /\ dst' \in [Fills -> DstEscrow]
  BY <1>1, <1>2 DEF TypeOK, DstEscrow
<1>4. TypeOK'
  BY <1>1, <1>2, <1>3 DEF TypeOK, srcVars, clientVars
<1>5. TermsAgree'
  BY <1>1, <1>3 DEF IInv, TermsAgree, srcVars, clientVars
<1>6. h \notin revealed /\ src[h].state = "none"
  <2>1. src[h].state = "none"
    BY <1>1 DEF IInv, TermsAgree
  <2> QED BY <2>1 DEF IInv, LegsAgree
<1>7. LegsAgree'
  BY <1>1, <1>3, <1>6 DEF IInv, LegsAgree, Decided, Undecided, ClaimPending, Waived, srcVars, clientVars
<1>8. ClocksClose' /\ RemainingFits' /\ OpenOwesNothing' /\ EthBacked'
  BY <1>1 DEF IInv, ClocksClose, RemainingFits, OpenOwesNothing, EthBacked, remainingInput,
              srcVars, clientVars
<1> QED BY <1>4, <1>5, <1>7, <1>8 DEF IInv

LEMMA SignFillKeeps ==
  ASSUME IInv, NEW h \in Fills, SignFill(h)
  PROVE  IInv'
<1>1. PICK terms \in FillAuth :
        /\ auth' = [auth EXCEPT ![h] = @ \cup {terms}]
        /\ terms.t1 <= quote[h].t1 /\ dst[h].state # "none"
  BY SignEffect
<1>2. UNCHANGED <<srcTime, dstTime, srcVars, dst, quote, revealed, sentAt, takenAt>>
  BY DEF SignFill
<1>3. /\ TypeOK
      /\ auth'[h] = auth[h] \cup {terms} /\ \A g \in Fills : g # h => auth'[g] = auth[g]
  BY <1>1 DEF IInv, TypeOK
<1>4. TypeOK'
  BY <1>1, <1>2, <1>3 DEF TypeOK, srcVars
<1>5. TermsAgree'
  BY <1>1, <1>2, <1>3 DEF IInv, TermsAgree, srcVars
<1>6. LegsAgree'
  <2>1. \A g \in Fills : Waived(g) => Waived(g)'
    BY <1>2, <1>3 DEF Waived, srcVars
  <2>2. \A g \in Fills : ClaimPending(g)' => ClaimPending(g)
    BY <1>2, <2>1 DEF ClaimPending, srcVars
  <2> QED BY <1>2, <2>1, <2>2 DEF IInv, LegsAgree, Decided, Undecided, srcVars
<1>7. ClocksClose' /\ RemainingFits' /\ OpenOwesNothing' /\ EthBacked'
  BY <1>2 DEF IInv, ClocksClose, RemainingFits, OpenOwesNothing, EthBacked, remainingInput, srcVars
<1> QED BY <1>4, <1>5, <1>6, <1>7 DEF IInv

LEMMA FillSlotKeeps ==
  ASSUME IInv, NEW h \in Fills, NEW caller \in Callers, NEW terms \in auth[h],
         FillSlotOn(h, caller, terms)
  PROVE  IInv'
<1>1. /\ src[h].state = "none" /\ terms \in FillAuth
      /\ terms.fillAmount \in 1..remainingInput(OrderOf[h])
      /\ UNCHANGED <<pendingEth, srcTime, dstTime, dst, clientVars>>
  BY FillSlotEffect
<1>2. PICK value \in Nat \ {0} :
        /\ src' = [src EXCEPT ![h] =
                     [state |-> "open", filler |-> caller, amount |-> terms.fillAmount,
                      expiry |-> terms.t1, safetyDeposit |-> value]]
        /\ ethHeld' = [ethHeld EXCEPT ![h] = value]
  BY FillSlotEffect
<1>3. TypeOK /\ terms.fillAmount \in Nat /\ terms.t1 \in Nat
  BY <1>1 DEF IInv, FillAuth
<1>4. /\ src'[h] = [state |-> "open", filler |-> caller, amount |-> terms.fillAmount,
                    expiry |-> terms.t1, safetyDeposit |-> value]
      /\ \A g \in Fills : g # h => src'[g] = src[g] /\ ethHeld'[g] = ethHeld[g]
      /\ ethHeld'[h] = value
      /\ src' \in [Fills -> SrcEscrow] /\ ethHeld' \in [Fills -> Nat]
  BY <1>2, <1>3 DEF TypeOK, SrcEscrow
<1>5. TypeOK'
  BY <1>1, <1>3, <1>4, FillSlotRemaining DEF TypeOK, clientVars
<1>6. ClocksClose'
  BY <1>1 DEF IInv, ClocksClose
<1>7. TermsAgree'
  BY <1>1, <1>4 DEF IInv, TermsAgree, clientVars
<1>8. LegsAgree'
  <2>1. h \notin revealed
    BY <1>1 DEF IInv, LegsAgree
  <2>2. Undecided(h)'
    BY <1>1, <1>4, <2>1 DEF IInv, LegsAgree, Undecided
  <2> QED BY <1>1, <1>4, <2>1, <2>2
          DEF IInv, LegsAgree, Decided, Undecided, ClaimPending, Waived, clientVars
<1>9. RemainingFits'
  BY <1>4, FillSlotRemaining, EscrowAssumption DEF IInv, RemainingFits
<1>10. OpenOwesNothing' /\ EthBacked'
  BY <1>1, <1>4 DEF IInv, OpenOwesNothing, EthBacked
<1> QED BY <1>5, <1>6, <1>7, <1>8, <1>9, <1>10 DEF IInv

(* The secret goes out with the destination escrow still open: T1 is at    *)
(* least the margin away, and the destination cannot be refunded before T2.*)
LEMMA RevealFindsOutput ==
  ASSUME IInv, NEW h \in Fills, NEW terms \in auth[h], h \notin revealed, srcTime <= terms.t1
  PROVE  dst[h].state = "open"
<1>1. /\ terms.t1 <= quote[h].t1
      /\ quote[h].t1 + T2_BUFFER_SECONDS = dst[h].expiry
      /\ dst[h].state # "none"
  BY DEF IInv, TermsAgree
<1>2. dst[h].state # "claimed" /\ (dst[h].state = "refunded" => dstTime > dst[h].expiry)
  BY DEF IInv, LegsAgree, Undecided
<1>3. dstTime <= srcTime + MaxSkew
  BY DEF IInv, ClocksClose
<1>4. /\ srcTime \in Nat /\ dstTime \in Nat /\ terms.t1 \in Nat /\ quote[h].t1 \in Nat
      /\ dst[h] \in DstEscrow
  BY DEF IInv, TypeOK, FillAuth
<1>5. ~(dstTime > dst[h].expiry)
  BY <1>1, <1>3, <1>4, TimingAssumption
<1> QED BY <1>1, <1>2, <1>4, <1>5 DEF DstEscrow

(* And where the quoting filler took the slot on the only terms signed,    *)
(* with the source escrow open.                                            *)
LEMMA RevealFindsInput ==
  ASSUME IInv, NEW h \in Fills, NEW terms \in auth[h], h \notin revealed, srcTime <= terms.t1,
         src[h].state # "none", ~Waived(h)
  PROVE  src[h].state = "open" /\ src[h].expiry = terms.t1
<1>1. src[h].expiry = terms.t1
  BY DEF IInv, TermsAgree, Waived
<1>2. src[h].state # "claimed" /\ (src[h].state = "cancelled" => srcTime > src[h].expiry)
  BY DEF IInv, LegsAgree, Undecided
<1>3. srcTime \in Nat /\ src[h] \in SrcEscrow /\ terms.t1 \in Nat
  BY DEF IInv, TypeOK, FillAuth
<1> QED BY <1>1, <1>2, <1>3 DEF SrcEscrow

LEMMA RevealKeeps ==
  ASSUME IInv, NEW h \in Fills, Reveal(h)
  PROVE  IInv'
<1>1. /\ src[h].state # "none" /\ h \notin revealed
      /\ revealed' = revealed \cup {h}
      /\ sentAt' = [sentAt EXCEPT ![h] = srcTime]
      /\ UNCHANGED <<srcTime, dstTime, srcVars, dst, quote, auth, takenAt>>
  BY DEF Reveal
<1>2. PICK terms \in auth[h] : srcTime + DEFAULT_MIN_MARGIN_SECONDS <= terms.t1
  BY DEF Reveal
<1>3. TypeOK /\ srcTime \in Nat /\ terms.t1 \in Nat
  BY DEF IInv, TypeOK, FillAuth
<1>4. srcTime <= terms.t1
  BY <1>2, <1>3, TimingAssumption
<1>5. TypeOK'
  BY <1>1, <1>3 DEF TypeOK, srcVars
<1>6. LegsAgree'
  <2>1. dst[h].state = "open"
    BY <1>1, <1>4, RevealFindsOutput
  <2>2. sentAt'[h] = srcTime /\ \A g \in Fills : g # h => sentAt'[g] = sentAt[g]
    BY <1>1, <1>3 DEF TypeOK
  <2>3. ASSUME ~Waived(h)
        PROVE  Decided(h)'
    <3>1. src[h].state = "open" /\ src[h].expiry = terms.t1
      BY <1>1, <1>4, <2>3, RevealFindsInput
    <3> QED BY <1>1, <1>2, <1>3, <2>1, <2>2, <3>1, TimingAssumption
            DEF Decided, ClaimPending, srcVars
  <2>4. \A g \in Fills : Waived(g)' <=> Waived(g)
    BY <1>1 DEF Waived, srcVars
  <2>5. ASSUME NEW g \in Fills, g # h
        PROVE  IF g \in revealed' THEN src[g].state # "none" /\ (Waived(g)' \/ Decided(g)')
                                  ELSE Undecided(g)'
    BY <1>1, <2>2, <2>4, <2>5 DEF IInv, LegsAgree, Decided, Undecided, ClaimPending, srcVars
  <2>6. h \in revealed' /\ src' = src /\ (Waived(h)' \/ Decided(h)')
    BY <1>1, <2>3, <2>4 DEF srcVars
  <2> QED BY <1>1, <2>5, <2>6 DEF LegsAgree
<1>7. ClocksClose' /\ TermsAgree' /\ RemainingFits' /\ OpenOwesNothing' /\ EthBacked'
  BY <1>1 DEF IInv, ClocksClose, TermsAgree, RemainingFits, OpenOwesNothing, EthBacked,
              remainingInput, srcVars
<1> QED BY <1>5, <1>6, <1>7 DEF IInv

(* Where the ETH of one fill changed, the books of the others are as before.*)
LEMMA BooksOfOne ==
  ASSUME OpenOwesNothing, EthBacked, NEW h \in Fills,
         src'[h].state \notin {"none", "open"},
         ethHeld'[h] = pendingEth'[h]["filler"] + pendingEth'[h]["swapper"],
         pendingEth'[h]["filler"] \in Nat, pendingEth'[h]["swapper"] \in Nat,
         \A g \in Fills : g # h => /\ src'[g] = src[g] /\ ethHeld'[g] = ethHeld[g]
                                  /\ pendingEth'[g] = pendingEth[g]
  PROVE  OpenOwesNothing' /\ EthBacked'
<1>1. OpenOwesNothing'
  BY DEF OpenOwesNothing
<1>2. ASSUME NEW g \in Fills, g # h
      PROVE  ethHeld'[g] = (IF src'[g].state = "open" THEN src'[g].safetyDeposit ELSE 0)
                           + pendingEth'[g]["filler"] + pendingEth'[g]["swapper"]
  BY <1>2 DEF EthBacked
<1>3. ethHeld'[h] = (IF src'[h].state = "open" THEN src'[h].safetyDeposit ELSE 0)
                    + pendingEth'[h]["filler"] + pendingEth'[h]["swapper"]
  OBVIOUS
<1> QED BY <1>1, <1>2, <1>3 DEF EthBacked

LEMMA WithdrawKeeps ==
  ASSUME IInv, NEW h \in Fills, Withdraw(h)
  PROVE  IInv'
<1>1. /\ h \in revealed /\ src[h].state = "open" /\ srcTime <= src[h].expiry
      /\ src' = [src EXCEPT ![h].state = "claimed"]
      /\ _payEth(h, "filler")
      /\ takenAt' = [takenAt EXCEPT ![h] = dstTime]
      /\ UNCHANGED <<raw, orderAmount, srcTime, dstTime, dst, quote, auth, revealed, sentAt>>
  BY DEF Withdraw, withdraw
<1>2. TypeOK
  BY DEF IInv
<1>3. /\ src' \in [Fills -> SrcEscrow]
      /\ src'[h].state = "claimed" /\ src'[h].expiry = src[h].expiry
      /\ src'[h].filler = src[h].filler
      /\ \A g \in Fills : g # h => src'[g] = src[g]
  BY <1>1, <1>2, SrcClosed
<1>4. /\ ethHeld' \in [Fills -> Nat] /\ pendingEth' \in [Fills -> [Roles -> Nat]]
      /\ ethHeld'[h] = pendingEth'[h]["filler"] + pendingEth'[h]["swapper"]
      /\ \A g \in Fills : g # h => ethHeld'[g] = ethHeld[g] /\ pendingEth'[g] = pendingEth[g]
  BY <1>1, EthPaid DEF Roles
<1>5. /\ takenAt'[h] = dstTime /\ takenAt' \in [Fills -> Nat]
      /\ \A g \in Fills : g # h => takenAt'[g] = takenAt[g]
  BY <1>1, <1>2 DEF TypeOK
<1>6. TypeOK'
  BY <1>1, <1>2, <1>3, <1>4, <1>5 DEF TypeOK
<1>7. TermsAgree'
  BY <1>1, <1>3 DEF IInv, TermsAgree
<1>8. LegsAgree'
  <2>1. /\ srcTime \in Nat /\ dstTime \in Nat /\ src[h].expiry \in Nat
        /\ dstTime <= srcTime + MaxSkew
    BY <1>2 DEF IInv, ClocksClose, TypeOK, SrcEscrow
  <2>2. dstTime <= src[h].expiry + MaxSkew /\ dstTime <= dstTime + RelayDelay
    BY <1>1, <2>1, TimingAssumption
  <2>3. \A g \in Fills : Waived(g)' <=> Waived(g)
    BY <1>1, <1>3 DEF Waived
  <2>4. Waived(h) \/ Decided(h)'
    BY <1>1, <1>3, <1>5, <2>2 DEF IInv, LegsAgree, Decided, ClaimPending
  <2> QED BY <1>1, <1>3, <1>5, <2>3, <2>4 DEF IInv, LegsAgree, Decided, Undecided, ClaimPending
<1>9. ClocksClose' /\ RemainingFits'
  BY <1>1, <1>3 DEF IInv, ClocksClose, RemainingFits, remainingInput
<1>10. OpenOwesNothing' /\ EthBacked'
  BY <1>3, <1>4, BooksOfOne DEF IInv, Roles
<1> QED BY <1>6, <1>7, <1>8, <1>9, <1>10 DEF IInv

LEMMA ClaimKeeps ==
  ASSUME IInv, NEW h \in Fills, Claim(h)
  PROVE  IInv'
<1>1. /\ h \in revealed /\ dst' = [dst EXCEPT ![h].state = "claimed"]
      /\ UNCHANGED <<srcTime, dstTime, srcVars, clientVars>> /\ dst[h].state = "open"
  BY DEF Claim, claim
<1>2. TypeOK
  BY DEF IInv
<1>3. /\ dst' \in [Fills -> DstEscrow]
      /\ dst'[h].state = "claimed" /\ dst'[h].expiry = dst[h].expiry
      /\ \A g \in Fills : g # h => dst'[g] = dst[g]
  BY <1>1, <1>2, DstClosed
<1>4. TypeOK'
  BY <1>1, <1>2, <1>3 DEF TypeOK, srcVars, clientVars
<1>5. TermsAgree'
  BY <1>1, <1>3 DEF IInv, TermsAgree, srcVars, clientVars
<1>6. LegsAgree'
  BY <1>1, <1>3 DEF IInv, LegsAgree, Decided, Undecided, ClaimPending, Waived, srcVars, clientVars
<1>7. ClocksClose' /\ RemainingFits' /\ OpenOwesNothing' /\ EthBacked'
  BY <1>1 DEF IInv, ClocksClose, RemainingFits, OpenOwesNothing, EthBacked, remainingInput,
              srcVars, clientVars
<1> QED BY <1>4, <1>5, <1>6, <1>7 DEF IInv

(* Once the secret is out, no clock lets the swapper take its input back...*)
(* where the fill took the course its parties agreed on.                   *)
LEMMA NoCancelOnceRevealed ==
  ASSUME IInv, NEW h \in revealed, h \in Fills, ~Waived(h), src[h].state = "open"
  PROVE  srcTime <= src[h].expiry
<1>1. /\ sentAt[h] + DEFAULT_MIN_MARGIN_SECONDS <= src[h].expiry
      /\ srcTime <= sentAt[h] + InclusionDelay
  BY DEF IInv, LegsAgree, Decided
<1>2. srcTime \in Nat /\ sentAt[h] \in Nat /\ src[h].expiry \in Nat
  BY DEF IInv, TypeOK, SrcEscrow
<1> QED BY <1>1, <1>2, TimingAssumption

(* ... or the filler its output.                                           *)
LEMMA NoRefundOnceRevealed ==
  ASSUME IInv, NEW h \in revealed, h \in Fills, ~Waived(h), dst[h].state = "open"
  PROVE  dstTime <= dst[h].expiry
<1>1. /\ src[h].state \in {"open", "claimed"}
      /\ ClaimPending(h) => /\ takenAt[h] <= src[h].expiry + MaxSkew
                            /\ dstTime <= takenAt[h] + RelayDelay
  BY DEF IInv, LegsAgree, Decided
<1>2. /\ src[h].expiry <= quote[h].t1
      /\ quote[h].t1 + T2_BUFFER_SECONDS = dst[h].expiry
  BY <1>1 DEF IInv, TermsAgree
<1>3. /\ srcTime \in Nat /\ dstTime \in Nat /\ src[h].expiry \in Nat /\ quote[h].t1 \in Nat
      /\ takenAt[h] \in Nat /\ dstTime <= srcTime + MaxSkew
  BY DEF IInv, ClocksClose, TypeOK, SrcEscrow, FillAuth
<1>4. CASE src[h].state = "open"
  BY <1>2, <1>3, <1>4, NoCancelOnceRevealed, TimingAssumption
<1>5. CASE src[h].state = "claimed"
  BY <1>1, <1>2, <1>3, <1>5, TimingAssumption DEF ClaimPending
<1> QED BY <1>1, <1>4, <1>5

LEMMA CancelKeeps ==
  ASSUME IInv, NEW h \in Fills, Cancel(h)
  PROVE  IInv'
<1>1. /\ src[h].state = "open" /\ srcTime > src[h].expiry
      /\ src' = [src EXCEPT ![h].state = "cancelled"]
      /\ _payEth(h, "swapper") /\ restoreRemaining(OrderOf[h], src[h].amount)
      /\ UNCHANGED <<orderAmount, srcTime, dstTime, dst, clientVars>>
  BY DEF Cancel, cancel
<1>2. TypeOK /\ srcTime \in Nat /\ src[h].expiry \in Nat
  BY DEF IInv, TypeOK, SrcEscrow
<1>3. /\ src' \in [Fills -> SrcEscrow]
      /\ src'[h].state = "cancelled" /\ src'[h].expiry = src[h].expiry
      /\ src'[h].filler = src[h].filler
      /\ \A g \in Fills : g # h => src'[g] = src[g]
  BY <1>1, <1>2, SrcClosed
<1>4. /\ ethHeld' \in [Fills -> Nat] /\ pendingEth' \in [Fills -> [Roles -> Nat]]
      /\ ethHeld'[h] = pendingEth'[h]["filler"] + pendingEth'[h]["swapper"]
      /\ \A g \in Fills : g # h => ethHeld'[g] = ethHeld[g] /\ pendingEth'[g] = pendingEth[g]
  BY <1>1, EthPaid DEF Roles
<1>5. TypeOK'
  BY <1>1, <1>2, <1>3, <1>4, RestoredRemaining DEF TypeOK, clientVars
<1>6. TermsAgree'
  BY <1>1, <1>3 DEF IInv, TermsAgree, clientVars
<1>7. h \notin revealed \/ Waived(h)
  BY <1>1, <1>2, NoCancelOnceRevealed
<1>8. LegsAgree'
  <2>1. \A g \in Fills : Waived(g)' <=> Waived(g)
    BY <1>1, <1>3 DEF Waived, clientVars
  <2> QED BY <1>1, <1>3, <1>7, <2>1
          DEF IInv, LegsAgree, Decided, Undecided, ClaimPending, clientVars
<1>9. RemainingFits'
  BY <1>1, <1>3, RestoredRemaining DEF IInv, RemainingFits
<1>10. ClocksClose'
  BY <1>1 DEF IInv, ClocksClose
<1>11. OpenOwesNothing' /\ EthBacked'
  BY <1>3, <1>4, BooksOfOne DEF IInv, Roles
<1> QED BY <1>5, <1>6, <1>8, <1>9, <1>10, <1>11 DEF IInv

LEMMA RefundKeeps ==
  ASSUME IInv, NEW h \in Fills, Refund(h)
  PROVE  IInv'
<1>1. /\ dst[h].state = "open" /\ dstTime > dst[h].expiry
      /\ dst' = [dst EXCEPT ![h].state = "refunded"]
      /\ UNCHANGED <<srcTime, dstTime, srcVars, clientVars>>
  BY DEF Refund, refund
<1>2. TypeOK /\ dstTime \in Nat /\ dst[h].expiry \in Nat
  BY DEF IInv, TypeOK, DstEscrow
<1>3. /\ dst' \in [Fills -> DstEscrow]
      /\ dst'[h].state = "refunded" /\ dst'[h].expiry = dst[h].expiry
      /\ \A g \in Fills : g # h => dst'[g] = dst[g]
  BY <1>1, <1>2, DstClosed
<1>4. TypeOK'
  BY <1>1, <1>2, <1>3 DEF TypeOK, srcVars, clientVars
<1>5. TermsAgree'
  BY <1>1, <1>3 DEF IInv, TermsAgree, srcVars, clientVars
<1>6. h \notin revealed \/ Waived(h)
  BY <1>1, <1>2, NoRefundOnceRevealed
<1>7. LegsAgree'
  <2>1. \A g \in Fills : Waived(g)' <=> Waived(g)
    BY <1>1 DEF Waived, srcVars, clientVars
  <2> QED BY <1>1, <1>3, <1>6, <2>1
          DEF IInv, LegsAgree, Decided, Undecided, ClaimPending, srcVars, clientVars
<1>8. ClocksClose' /\ RemainingFits' /\ OpenOwesNothing' /\ EthBacked'
  BY <1>1 DEF IInv, ClocksClose, RemainingFits, OpenOwesNothing, EthBacked, remainingInput,
              srcVars, clientVars
<1> QED BY <1>4, <1>5, <1>7, <1>8 DEF IInv

LEMMA ClaimEthKeeps ==
  ASSUME IInv, NEW h \in Fills, NEW role \in Roles, ClaimEth(h, role)
  PROVE  IInv'
<1>1. /\ pendingEth[h][role] > 0 /\ ethHeld[h] >= pendingEth[h][role]
      /\ ethHeld' = [ethHeld EXCEPT ![h] = @ - pendingEth[h][role]]
      /\ pendingEth' = [pendingEth EXCEPT ![h][role] = 0]
      /\ UNCHANGED <<raw, orderAmount, src, srcTime, dstTime, dst, clientVars>>
  BY DEF ClaimEth, claimEth
<1>2. /\ TypeOK /\ pendingEth[h] \in [Roles -> Nat] /\ ethHeld[h] \in Nat
      /\ role \in {"filler", "swapper"}
  BY DEF IInv, TypeOK, Roles
<1>3. src[h].state \notin {"none", "open"}
  BY <1>1, <1>2 DEF IInv, OpenOwesNothing
<1>4. pendingEth'[h] = [pendingEth[h] EXCEPT ![role] = 0] /\ pendingEth'[h] \in [Roles -> Nat]
  BY <1>1, <1>2 DEF TypeOK
<1>5. /\ ethHeld'[h] = ethHeld[h] - pendingEth[h][role] /\ ethHeld'[h] \in Nat
      /\ \A g \in Fills : g # h => ethHeld'[g] = ethHeld[g] /\ pendingEth'[g] = pendingEth[g]
  BY <1>1, <1>2 DEF TypeOK
<1>6. TypeOK'
  BY <1>1, <1>2, <1>4, <1>5 DEF TypeOK, clientVars
<1>7. ethHeld[h] = pendingEth[h]["filler"] + pendingEth[h]["swapper"]
  BY <1>2, <1>3 DEF IInv, EthBacked, Roles
<1>8. ethHeld'[h] = pendingEth'[h]["filler"] + pendingEth'[h]["swapper"]
  BY <1>2, <1>4, <1>5, <1>7 DEF Roles
<1>9. OpenOwesNothing' /\ EthBacked'
  BY <1>1, <1>3, <1>4, <1>5, <1>8, BooksOfOne DEF IInv, Roles
<1>10. ClocksClose' /\ TermsAgree' /\ LegsAgree' /\ RemainingFits'
  BY <1>1 DEF IInv, ClocksClose, TermsAgree, LegsAgree, Decided, Undecided, ClaimPending, Waived,
              RemainingFits, remainingInput, clientVars
<1> QED BY <1>6, <1>9, <1>10 DEF IInv

-----------------------------------------------------------------------------
LEMMA InitInv == Init => IInv
<1> SUFFICES ASSUME Init PROVE IInv
  OBVIOUS
<1> USE EscrowAssumption, TimingAssumption DEF Init, EscrowsInit
<1>1. TypeOK
  BY DEF TypeOK, SrcEscrow, DstEscrow, FillAuth, NoTerms, Roles
<1>2. ClocksClose /\ TermsAgree
  BY DEF ClocksClose, TermsAgree
<1>3. LegsAgree
  BY DEF LegsAgree, Undecided
<1>4. RemainingFits
  BY DEF RemainingFits, remainingInput, Unpack
<1>5. OpenOwesNothing /\ EthBacked
  BY DEF OpenOwesNothing, EthBacked, Roles
<1> QED BY <1>1, <1>2, <1>3, <1>4, <1>5 DEF IInv

LEMMA NextInv == IInv /\ [Next]_vars => IInv'
<1> SUFFICES ASSUME IInv, [Next]_vars PROVE IInv'
  OBVIOUS
<1>1. CASE UNCHANGED vars
  BY <1>1 DEF vars, srcVars, clientVars, IInv, TypeOK, ClocksClose, TermsAgree, LegsAgree,
              Decided, Undecided, ClaimPending, Waived, RemainingFits, remainingInput,
              OpenOwesNothing, EthBacked
<1>2. CASE TickSrc \/ TickDst
  BY <1>2, TickSrcKeeps, TickDstKeeps
<1>3. ASSUME NEW h \in Fills,
             Quote(h) \/ FundDst(h) \/ SignFill(h) \/ \E caller \in Callers : FillSlot(h, caller)
      PROVE  IInv'
  BY <1>3, QuoteKeeps, FundDstKeeps, SignFillKeeps, FillSlotKeeps DEF FillSlot
<1>4. ASSUME NEW h \in Fills, Reveal(h) \/ Withdraw(h) \/ Claim(h)
      PROVE  IInv'
  BY <1>4, RevealKeeps, WithdrawKeeps, ClaimKeeps
<1>5. ASSUME NEW h \in Fills, Cancel(h) \/ Refund(h)
      PROVE  IInv'
  BY <1>5, CancelKeeps, RefundKeeps
<1>6. ASSUME NEW h \in Fills, NEW role \in Roles, ClaimEth(h, role)
      PROVE  IInv'
  BY <1>6, ClaimEthKeeps
<1> QED BY <1>1, <1>2, <1>3, <1>4, <1>5, <1>6 DEF Next

(* The escrows' books, the terms and the clocks agree at every step of a   *)
(* fill, whatever the two chains and the clients do in between.            *)
THEOREM SwapInvariant == Spec => []IInv
<1> QED BY InitInv, NextInv, PTL DEF Spec

-----------------------------------------------------------------------------
(* What is left of an order and what its fills hold add up.                *)
LEMMA FillSlotLeaves ==
  ASSUME IInv, NEW h \in Fills, NEW caller \in Callers, NEW terms \in auth[h],
         FillSlotOn(h, caller, terms)
  PROVE  /\ remainingInput(OrderOf[h])' = remainingInput(OrderOf[h]) - terms.fillAmount
         /\ \A o \in Orders : o # OrderOf[h] => remainingInput(o)' = remainingInput(o)
<1> DEFINE o    == OrderOf[h]
           left == remainingInput(o) - terms.fillAmount
           word == IF left = 0 THEN fullyFilled ELSE pack(left)
<1>1. /\ o \in Orders /\ raw \in [Orders -> 0..(U256 - 1)]
      /\ InputAmount[o] \in Nat /\ InputAmount[o] > 0 /\ InputAmount[o] + 1 < U256
      /\ U256 \in Nat /\ remainingInput(o) \in 0..InputAmount[o]
  BY RemainingNat, EscrowAssumption DEF IInv, TypeOK
<1>2. raw' = [raw EXCEPT ![o] = word] /\ left \in 0..InputAmount[o]
  BY <1>1, FillSlotEffect
<1>3. Unpack(word, InputAmount[o]) = left
  <2>1. CASE left = 0
    BY <1>1, <2>1, SoldOut
  <2>2. CASE left # 0
    BY <1>1, <1>2, <2>2, PackedRemaining
  <2> QED BY <2>1, <2>2
<1> HIDE DEF word, left
<1>4. raw'[o] = word /\ \A p \in Orders : p # o => raw'[p] = raw[p]
  BY <1>1, <1>2
<1>5. remainingInput(o)' = left
  BY <1>3, <1>4 DEF remainingInput
<1> QED BY <1>4, <1>5 DEF remainingInput, left

LEMMA RestoredExactly ==
  ASSUME IInv, NEW h \in Fills, src[h].state = "open", src[h].amount > 0,
         remainingInput(OrderOf[h]) + src[h].amount <= InputAmount[OrderOf[h]],
         restoreRemaining(OrderOf[h], src[h].amount)
  PROVE  /\ remainingInput(OrderOf[h])' = remainingInput(OrderOf[h]) + src[h].amount
         /\ \A o \in Orders : o # OrderOf[h] => remainingInput(o)' = remainingInput(o)
<1> DEFINE o   == OrderOf[h]
           sum == remainingInput(o) + src[h].amount
<1>1. /\ o \in Orders /\ raw \in [Orders -> 0..(U256 - 1)]
      /\ InputAmount[o] \in Nat /\ InputAmount[o] + 1 < U256
      /\ U256 \in Nat /\ remainingInput(o) \in 0..InputAmount[o]
  BY RemainingNat, EscrowAssumption DEF IInv, TypeOK
<1>2. orderAmount[o] = InputAmount[o] /\ src[h].amount \in Nat
  BY <1>1 DEF IInv, RemainingFits, TypeOK, SrcEscrow
<1>3. sum \in 1..InputAmount[o]
  BY <1>1, <1>2
<1>4. raw' = [raw EXCEPT ![o] = pack(sum)]
  <2>1. Unpack(raw[o], orderAmount[o]) + src[h].amount = sum
    BY <1>2 DEF remainingInput
  <2>2. ~(sum > orderAmount[o]) /\ sum # 0
    BY <1>1, <1>2, <1>3
  <2> HIDE DEF sum
  <2> QED BY <2>1, <2>2 DEF restoreRemaining
<1>5. Unpack(pack(sum), InputAmount[o]) = sum
  BY <1>1, <1>3, PackedRemaining
<1> HIDE DEF sum
<1>6. raw'[o] = pack(sum) /\ \A p \in Orders : p # o => raw'[p] = raw[p]
  BY <1>1, <1>4
<1>7. remainingInput(o)' = sum
  BY <1>5, <1>6 DEF remainingInput
<1> QED BY <1>6, <1>7 DEF remainingInput, sum

LEMMA SharesCounted ==
  ASSUME TypeOK, SharesCount, NEW o \in Orders
  PROVE  Counted(Amounts, Sold(o))
BY DEF TypeOK, SharesCount, Counted, Sold, Amounts, SrcEscrow

(* Steps that open and close no source escrow, but may claim one.          *)
LEMMA SharesStand ==
  ASSUME TypeOK, Conserved, SharesCount, raw' = raw,
         \A h \in Fills : /\ src'[h].amount = src[h].amount
                          /\ src'[h].state = "open" => src[h].state = "open"
                          /\ src'[h].state \in {"open", "claimed"}
                             <=> src[h].state \in {"open", "claimed"}
  PROVE  /\ \A o \in Orders : remainingInput(o)' + Total(Amounts, Sold(o))' = InputAmount[o]
         /\ SharesCount'
<1>1. \A o \in Orders : Sold(o)' = Sold(o) /\ remainingInput(o)' = remainingInput(o)
  BY DEF Sold, remainingInput
<1>2. Amounts' = Amounts
  BY DEF Amounts
<1>3. \A o \in Orders : Total(Amounts, Sold(o))' = Total(Amounts, Sold(o))
  BY <1>1, <1>2
<1> QED BY <1>1, <1>3 DEF Conserved, SharesCount

LEMMA FillSlotShares ==
  ASSUME IInv, Conserved, SharesCount, NEW h \in Fills, NEW caller \in Callers,
         NEW terms \in auth[h], FillSlotOn(h, caller, terms)
  PROVE  /\ \A o \in Orders : remainingInput(o)' + Total(Amounts, Sold(o))' = InputAmount[o]
         /\ SharesCount'
<1> DEFINE amount == terms.fillAmount
<1>1. /\ src[h].state = "none" /\ amount \in 1..remainingInput(OrderOf[h])
      /\ remainingInput(OrderOf[h]) \in Nat /\ OrderOf[h] \in Orders /\ TypeOK
  BY FillSlotEffect, RemainingNat, EscrowAssumption DEF IInv
<1>2. /\ src'[h].state = "open" /\ src'[h].amount = amount
      /\ \A g \in Fills : g # h => src'[g] = src[g]
  BY <1>1, FillSlotEffect DEF TypeOK
<1>3. /\ Amounts'[h] = amount /\ \A g \in Fills : g # h => Amounts'[g] = Amounts[g]
  BY <1>2 DEF Amounts
<1>4. /\ h \notin Sold(OrderOf[h]) /\ Sold(OrderOf[h])' = Sold(OrderOf[h]) \cup {h}
      /\ \A o \in Orders : o # OrderOf[h] => h \notin Sold(o) /\ Sold(o)' = Sold(o)
  BY <1>1, <1>2 DEF Sold
<1>5. ASSUME NEW o \in Orders
      PROVE  /\ Counted(Amounts', Sold(o)) /\ h \notin Sold(o)
             /\ Total(Amounts', Sold(o)) = Total(Amounts, Sold(o))
  <2>1. h \notin Sold(o) /\ \A g \in Sold(o) : Amounts'[g] = Amounts[g]
    BY <1>3, <1>4 DEF Sold
  <2> QED BY <1>1, <2>1, SharesCounted, TotalSame DEF Counted
<1>6. /\ IsFiniteSet(Sold(OrderOf[h]) \cup {h})
      /\ Total(Amounts', Sold(OrderOf[h]) \cup {h}) = Total(Amounts', Sold(OrderOf[h])) + amount
  <2>1. Amounts'[h] \in Nat
    BY <1>1, <1>3
  <2>2. /\ Counted(Amounts', Sold(OrderOf[h]) \cup {h})
        /\ Total(Amounts', Sold(OrderOf[h]) \cup {h})
             = Total(Amounts', Sold(OrderOf[h])) + Amounts'[h]
    BY <1>1, <1>5, <2>1, TotalAdd
  <2> QED BY <1>3, <2>2 DEF Counted
<1>7. SharesCount'
  <2>1. \A o \in Orders : IsFiniteSet(Sold(o)')
    BY <1>4, <1>6 DEF SharesCount
  <2>2. \A g \in Fills : src'[g].state = "open" => src'[g].amount > 0
    BY <1>1, <1>2 DEF SharesCount
  <2> QED BY <2>1, <2>2 DEF SharesCount
<1>8. Total(Amounts, Sold(OrderOf[h])) \in Nat
  BY <1>1, SharesCounted, TotalType
<1>9. ASSUME NEW o \in Orders
      PROVE  remainingInput(o)' + Total(Amounts, Sold(o))' = InputAmount[o]
  <2>1. CASE o = OrderOf[h]
    <3>1. Total(Amounts, Sold(o))' = Total(Amounts, Sold(o)) + amount
      BY <1>4, <1>5, <1>6, <2>1
    <3>2. remainingInput(o)' = remainingInput(o) - amount
      BY <2>1, FillSlotLeaves
    <3> QED BY <1>1, <1>8, <2>1, <3>1, <3>2 DEF Conserved
  <2>2. CASE o # OrderOf[h]
    BY <1>4, <1>5, <2>2, FillSlotLeaves DEF Conserved
  <2> QED BY <2>1, <2>2
<1> QED BY <1>7, <1>9

LEMMA CancelShares ==
  ASSUME IInv, Conserved, SharesCount, NEW h \in Fills, Cancel(h)
  PROVE  /\ \A o \in Orders : remainingInput(o)' + Total(Amounts, Sold(o))' = InputAmount[o]
         /\ SharesCount'
<1> DEFINE mine == OrderOf[h]
<1>1. /\ src[h].state = "open" /\ src' = [src EXCEPT ![h].state = "cancelled"]
      /\ restoreRemaining(mine, src[h].amount)
  BY DEF Cancel, cancel
<1>2. /\ TypeOK /\ mine \in Orders /\ src[h].amount \in Nat /\ src[h].amount > 0
      /\ remainingInput(mine) \in Nat
  <2>1. TypeOK /\ mine \in Orders /\ remainingInput(mine) \in Nat
    BY RemainingNat, EscrowAssumption DEF IInv
  <2>2. src[h].amount \in Nat /\ src[h].amount > 0
    BY <1>1, <2>1 DEF TypeOK, SrcEscrow, SharesCount
  <2> QED BY <2>1, <2>2
<1>3. /\ src'[h].state = "cancelled" /\ src'[h].amount = src[h].amount
      /\ \A g \in Fills : g # h => src'[g] = src[g]
  BY <1>1, <1>2, SrcClosed
<1>4. Amounts' = Amounts
  BY <1>3 DEF Amounts
<1>5. /\ h \in Sold(mine) /\ Sold(mine)' = Sold(mine) \ {h}
      /\ \A o \in Orders : o # mine => Sold(o)' = Sold(o)
  BY <1>1, <1>3 DEF Sold
<1>6. /\ Counted(Amounts, Sold(mine) \ {h})
      /\ Total(Amounts, Sold(mine)) = Total(Amounts, Sold(mine) \ {h}) + src[h].amount
      /\ Total(Amounts, Sold(mine) \ {h}) \in Nat
  <2>1. Amounts[h] = src[h].amount
    BY DEF Amounts
  <2>2. Counted(Amounts, Sold(mine))
    BY <1>2, SharesCounted
  <2>3. /\ Counted(Amounts, Sold(mine) \ {h})
        /\ Total(Amounts, Sold(mine)) = Total(Amounts, Sold(mine) \ {h}) + Amounts[h]
    <3>1. Contributes(Amounts, Sold(mine), h)
      BY <1>5, <2>2, TotalRemove, Zenon
    <3> QED BY <3>1, Zenon DEF Contributes
  <2> QED BY <2>1, <2>3, TotalType
<1>7. remainingInput(mine) + Total(Amounts, Sold(mine)) = InputAmount[mine]
  BY <1>2 DEF Conserved
<1>8. remainingInput(mine) + src[h].amount <= InputAmount[mine]
  BY <1>2, <1>6, <1>7
<1>9. /\ remainingInput(mine)' = remainingInput(mine) + src[h].amount
      /\ \A o \in Orders : o # mine => remainingInput(o)' = remainingInput(o)
  BY <1>1, <1>2, <1>8, RestoredExactly
<1>10. SharesCount'
  BY <1>3, <1>5, <1>6 DEF SharesCount, Counted
<1>11. ASSUME NEW o \in Orders
       PROVE  remainingInput(o)' + Total(Amounts, Sold(o))' = InputAmount[o]
  <2>1. CASE o = mine
    BY <1>2, <1>4, <1>5, <1>6, <1>7, <1>9, <2>1
  <2>2. CASE o # mine
    BY <1>4, <1>5, <1>9, <2>2 DEF Conserved
  <2> QED BY <2>1, <2>2
<1> QED BY <1>10, <1>11

LEMMA InitShares == Init => Conserved /\ SharesCount
<1> SUFFICES ASSUME Init PROVE Conserved /\ SharesCount
  OBVIOUS
<1>1. \A o \in Orders : Sold(o) = {} /\ remainingInput(o) = InputAmount[o]
  BY DEF Init, EscrowsInit, Sold, remainingInput, Unpack
<1>2. \A o \in Orders : Total(Amounts, Sold(o)) = 0 /\ IsFiniteSet(Sold(o))
  BY <1>1, TotalEmpty, FS_EmptySet
<1>3. EthBacked /\ \A h \in Fills : src[h].state = "none"
  BY InitInv DEF IInv, Init, EscrowsInit
<1> QED BY <1>1, <1>2, <1>3, EscrowAssumption DEF Conserved, SharesCount

LEMMA NextShares ==
  IInv /\ Conserved /\ SharesCount /\ [Next]_vars => Conserved' /\ SharesCount'
<1> SUFFICES ASSUME IInv, Conserved, SharesCount, [Next]_vars
             PROVE  Conserved' /\ SharesCount'
  OBVIOUS
<1> DEFINE Balanced == \A o \in Orders : remainingInput(o)' + Total(Amounts, Sold(o))' = InputAmount[o]
<1>0. TypeOK /\ EthBacked'
  BY NextInv DEF IInv
<1>1. SUFFICES Balanced /\ SharesCount'
  BY <1>0 DEF Conserved
<1>2. UNCHANGED <<raw, src>> => Balanced /\ SharesCount'
  BY <1>0, SharesStand
<1>3. ASSUME NEW h \in Fills, Withdraw(h) PROVE Balanced /\ SharesCount'
  <2>1. raw' = raw /\ src[h].state = "open" /\ src' = [src EXCEPT ![h].state = "claimed"]
    BY <1>3 DEF Withdraw, withdraw
  <2>2. /\ src'[h].state = "claimed" /\ src'[h].amount = src[h].amount
        /\ \A g \in Fills : g # h => src'[g] = src[g]
    BY <1>0, <2>1, SrcClosed
  <2> QED BY <1>0, <2>1, <2>2, SharesStand
<1>4. CASE \E h \in Fills : (\E caller \in Callers : FillSlot(h, caller)) \/ Withdraw(h) \/ Cancel(h)
  BY <1>3, <1>4, FillSlotShares, CancelShares DEF FillSlot
<1>5. CASE \/ TickSrc \/ TickDst \/ UNCHANGED vars
           \/ \E h \in Fills : Quote(h) \/ FundDst(h) \/ SignFill(h) \/ Reveal(h) \/ Claim(h) \/ Refund(h)
           \/ \E h \in Fills, role \in Roles : ClaimEth(h, role)
  <2>1. UNCHANGED <<raw, src>>
    BY <1>5 DEF TickSrc, TickDst, Quote, FundDst, SignFill, Reveal, Claim, Refund, ClaimEth,
                claimEth, vars, srcVars
  <2> QED BY <1>2, <2>1
<1> QED BY <1>4, <1>5 DEF Next

(* However often fills of an order are opened, cancelled and opened again, *)
(* its shares and its rest add up to what the swapper signed, and every    *)
(* clone holds the ETH it owes.                                            *)
THEOREM NothingSoldTwice == Spec => []Conserved
<1>1. Spec => [](Conserved /\ SharesCount)
  BY InitShares, NextShares, SwapInvariant, PTL DEF Spec
<1> QED BY <1>1, PTL

-----------------------------------------------------------------------------
(* The refinement: what each action does to the two legs.                  *)
LEMMA SwapInit == Init => Swap!Init
BY DEF Init, EscrowsInit, Swap!Init, InputLegs, OutputLegs, InputLeg, OutputLeg,
       WaivedFills, Waived

LEMMA SourceLegMoves ==
  ASSUME TypeOK, NEW h \in Fills,
         \A g \in Fills : g # h => src'[g] = src[g],
         dst' = dst
  PROVE  /\ InputLegs' = [InputLegs EXCEPT ![h] = InputLeg(h)']
         /\ OutputLegs' = OutputLegs
BY DEF InputLegs, OutputLegs, InputLeg, OutputLeg

LEMMA DestinationLegMoves ==
  ASSUME TypeOK, NEW h \in Fills,
         \A g \in Fills : g # h => dst'[g] = dst[g],
         src' = src
  PROVE  /\ OutputLegs' = [OutputLegs EXCEPT ![h] = OutputLeg(h)']
         /\ InputLegs' = InputLegs
BY DEF InputLegs, OutputLegs, InputLeg, OutputLeg

(* Which fills dropped out of the agreement, when only one clone changed,  *)
(* and not its filler; or when one was opened.                             *)
LEMMA NoneWaived ==
  ASSUME auth' = auth, \A g \in Fills : src'[g].filler = src[g].filler
  PROVE  WaivedFills' = WaivedFills
BY DEF WaivedFills, Waived

LEMMA OneWaived ==
  ASSUME auth' = auth, NEW h \in Fills, src[h].filler = "none",
         \A g \in Fills : g # h => src'[g] = src[g]
  PROVE  WaivedFills' \in {WaivedFills, WaivedFills \cup {h}}
<1>1. \A g \in Fills : g # h => (Waived(g)' <=> Waived(g))
  BY DEF Waived
<1>2. Waived(h) => Waived(h)'
  BY DEF Waived
<1>3. CASE Waived(h)'
  BY <1>1, <1>3 DEF WaivedFills
<1>4. CASE ~Waived(h)'
  BY <1>1, <1>2, <1>4 DEF WaivedFills
<1> QED BY <1>3, <1>4

LEMMA LegsOf ==
  ASSUME NEW h \in Fills
  PROVE  InputLegs[h] = InputLeg(h) /\ OutputLegs[h] = OutputLeg(h)
BY DEF InputLegs, OutputLegs

LEMMA FundDstLocks ==
  ASSUME IInv, NEW h \in Fills, FundDst(h)
  PROVE  Swap!LockOutput(h)
<1>1. /\ dst[h].state = "none"
      /\ dst' = [dst EXCEPT ![h] = [state |-> "open", expiry |-> quote[h].t2]]
      /\ src' = src /\ revealed' = revealed /\ auth' = auth
  BY DEF FundDst, deploy, srcVars, clientVars
<1>2. dst'[h].state = "open" /\ \A g \in Fills : g # h => dst'[g] = dst[g]
  BY <1>1 DEF IInv, TypeOK
<1>3. OutputLeg(h) = "none" /\ OutputLeg(h)' = "locked"
  BY <1>1, <1>2 DEF OutputLeg
<1> QED BY <1>1, <1>2, <1>3, DestinationLegMoves, LegsOf, NoneWaived DEF IInv, Swap!LockOutput

(* A second set of terms drops the fill from the agreement; a first does   *)
(* nothing that the two parties would notice.                              *)
LEMMA SignFillWaives ==
  ASSUME IInv, NEW h \in Fills, SignFill(h)
  PROVE  Swap!Waive(h) \/ UNCHANGED Swap!vars
<1>1. PICK terms \in FillAuth :
        auth' = [auth EXCEPT ![h] = @ \cup {terms}] /\ dst[h].state # "none"
  BY SignEffect
<1>2. src' = src /\ dst' = dst /\ revealed' = revealed
  BY DEF SignFill, srcVars
<1>3. /\ auth'[h] = auth[h] \cup {terms}
      /\ \A g \in Fills : g # h => auth'[g] = auth[g]
  BY <1>1 DEF IInv, TypeOK
<1>4. (\A g \in Fills : g # h => (Waived(g)' <=> Waived(g))) /\ (Waived(h) => Waived(h)')
  BY <1>2, <1>3 DEF Waived
<1>5. WaivedFills' = WaivedFills \/ WaivedFills' = WaivedFills \cup {h}
  <2>1. CASE Waived(h)'
    BY <1>4, <2>1 DEF WaivedFills
  <2>2. CASE ~Waived(h)'
    BY <1>4, <2>2 DEF WaivedFills
  <2> QED BY <2>1, <2>2
<1>6. InputLegs' = InputLegs /\ OutputLegs' = OutputLegs
  BY <1>2 DEF InputLegs, OutputLegs, InputLeg, OutputLeg
<1>7. OutputLeg(h) # "none"
  BY <1>1 DEF IInv, TypeOK, DstEscrow, OutputLeg
<1> QED BY <1>2, <1>5, <1>6, <1>7, LegsOf DEF Swap!Waive, Swap!vars

LEMMA FillSlotLocks ==
  ASSUME IInv, NEW h \in Fills, NEW caller \in Callers, NEW terms \in auth[h],
         FillSlotOn(h, caller, terms)
  PROVE  Swap!LockInput(h)
<1>1. /\ src[h].state = "none" /\ srcTime < terms.t1
      /\ dst' = dst /\ revealed' = revealed /\ auth' = auth
  BY FillSlotEffect DEF clientVars
<1>2. src'[h].state = "open" /\ \A g \in Fills : g # h => src'[g] = src[g]
  BY FillSlotEffect DEF IInv, TypeOK
<1>3. h \notin revealed /\ src[h].filler = "none"
  BY <1>1 DEF IInv, LegsAgree, TermsAgree
<1>4. dst[h].state = "open"
  <2>1. srcTime \in Nat /\ terms.t1 \in Nat
    BY DEF IInv, TypeOK, FillAuth
  <2> QED BY <1>1, <1>3, <2>1, RevealFindsOutput
<1>5. InputLeg(h) = "none" /\ InputLeg(h)' = "locked" /\ OutputLeg(h) = "locked"
  BY <1>1, <1>2, <1>4 DEF InputLeg, OutputLeg
<1>6. WaivedFills' \in {WaivedFills, WaivedFills \cup {h}}
  BY <1>1, <1>2, <1>3, OneWaived
<1> QED BY <1>1, <1>2, <1>3, <1>5, <1>6, SourceLegMoves, LegsOf DEF IInv, Swap!LockInput

LEMMA RevealDecides ==
  ASSUME IInv, NEW h \in Fills, Reveal(h)
  PROVE  Swap!Decide(h)
<1>1. /\ src[h].state # "none" /\ h \notin revealed
      /\ revealed' = revealed \cup {h} /\ src' = src /\ dst' = dst /\ auth' = auth
  BY DEF Reveal, srcVars
<1>2. PICK terms \in auth[h] : srcTime + DEFAULT_MIN_MARGIN_SECONDS <= terms.t1
  BY DEF Reveal
<1>3. srcTime <= terms.t1
  <2>1. srcTime \in Nat /\ terms.t1 \in Nat
    BY DEF IInv, TypeOK, FillAuth
  <2> QED BY <1>2, <2>1, TimingAssumption
<1>4. dst[h].state = "open"
  BY <1>1, <1>3, RevealFindsOutput
<1>5. OutputLeg(h) = "locked"
  BY <1>4 DEF OutputLeg
<1>6. src[h].state \in {"open", "cancelled"} /\ (Waived(h) \/ src[h].state = "open")
  <2>1. src[h].state # "claimed" /\ src[h] \in SrcEscrow
    BY <1>1 DEF IInv, LegsAgree, Undecided, TypeOK
  <2> QED BY <1>1, <1>3, <2>1, RevealFindsInput DEF SrcEscrow
<1>7. InputLeg(h) = "locked" \/ (h \in WaivedFills /\ InputLeg(h) = "returned")
  BY <1>6 DEF InputLeg, WaivedFills
<1>8. InputLegs' = InputLegs /\ OutputLegs' = OutputLegs /\ WaivedFills' = WaivedFills
  BY <1>1, NoneWaived DEF InputLegs, OutputLegs, InputLeg, OutputLeg
<1> QED BY <1>1, <1>5, <1>7, <1>8, LegsOf DEF Swap!Decide, Swap!Bound

LEMMA WithdrawTakes ==
  ASSUME IInv, NEW h \in Fills, Withdraw(h)
  PROVE  Swap!Take(h)
<1>1. /\ h \in revealed /\ src[h].state = "open" /\ dst' = dst /\ revealed' = revealed
      /\ src' = [src EXCEPT ![h].state = "claimed"] /\ auth' = auth
  BY DEF Withdraw, withdraw
<1>2. /\ src'[h].state = "claimed" /\ src'[h].filler = src[h].filler
      /\ \A g \in Fills : g # h => src'[g] = src[g]
  BY <1>1, SrcClosed DEF IInv
<1>3. InputLeg(h) = "locked" /\ InputLeg(h)' = "taken"
  BY <1>1, <1>2 DEF InputLeg
<1> QED BY <1>1, <1>2, <1>3, SourceLegMoves, LegsOf, NoneWaived DEF IInv, Swap!Take

LEMMA ClaimPays ==
  ASSUME IInv, NEW h \in Fills, Claim(h)
  PROVE  Swap!Pay(h)
<1>1. /\ h \in revealed /\ dst[h].state = "open" /\ src' = src /\ revealed' = revealed
      /\ dst' = [dst EXCEPT ![h].state = "claimed"] /\ auth' = auth
  BY DEF Claim, claim, srcVars, clientVars
<1>2. dst'[h].state = "claimed" /\ \A g \in Fills : g # h => dst'[g] = dst[g]
  BY <1>1, DstClosed DEF IInv
<1>3. OutputLeg(h) = "locked" /\ OutputLeg(h)' = "paid"
  BY <1>1, <1>2 DEF OutputLeg
<1> QED BY <1>1, <1>2, <1>3, DestinationLegMoves, LegsOf, NoneWaived DEF IInv, Swap!Pay

LEMMA CancelReturns ==
  ASSUME IInv, NEW h \in Fills, Cancel(h)
  PROVE  Swap!ReturnInput(h)
<1>1. /\ src[h].state = "open" /\ srcTime > src[h].expiry
      /\ src' = [src EXCEPT ![h].state = "cancelled"] /\ dst' = dst /\ revealed' = revealed
      /\ auth' = auth
  BY DEF Cancel, cancel, clientVars
<1>2. /\ src'[h].state = "cancelled" /\ src'[h].filler = src[h].filler
      /\ \A g \in Fills : g # h => src'[g] = src[g]
  BY <1>1, SrcClosed DEF IInv
<1>3. h \notin revealed \/ h \in WaivedFills
  <2>1. srcTime \in Nat /\ src[h].expiry \in Nat
    BY DEF IInv, TypeOK, SrcEscrow
  <2> QED BY <1>1, <2>1, NoCancelOnceRevealed DEF WaivedFills
<1>4. InputLeg(h) = "locked" /\ InputLeg(h)' = "returned"
  BY <1>1, <1>2 DEF InputLeg
<1> QED BY <1>1, <1>2, <1>3, <1>4, SourceLegMoves, LegsOf, NoneWaived
        DEF IInv, Swap!ReturnInput, Swap!Bound

LEMMA RefundReturns ==
  ASSUME IInv, NEW h \in Fills, Refund(h)
  PROVE  Swap!ReturnOutput(h)
<1>1. /\ dst[h].state = "open" /\ dstTime > dst[h].expiry
      /\ dst' = [dst EXCEPT ![h].state = "refunded"] /\ src' = src /\ revealed' = revealed
      /\ auth' = auth
  BY DEF Refund, refund, srcVars, clientVars
<1>2. dst'[h].state = "refunded" /\ \A g \in Fills : g # h => dst'[g] = dst[g]
  BY <1>1, DstClosed DEF IInv
<1>3. h \notin revealed \/ h \in WaivedFills
  <2>1. dstTime \in Nat /\ dst[h].expiry \in Nat
    BY DEF IInv, TypeOK, DstEscrow
  <2> QED BY <1>1, <2>1, NoRefundOnceRevealed DEF WaivedFills
<1>4. OutputLeg(h) = "locked" /\ OutputLeg(h)' = "returned"
  BY <1>1, <1>2 DEF OutputLeg
<1> QED BY <1>1, <1>2, <1>3, <1>4, DestinationLegMoves, LegsOf, NoneWaived
        DEF IInv, Swap!ReturnOutput, Swap!Bound

LEMMA SwapNext == IInv /\ [Next]_vars => [Swap!Next]_(Swap!vars)
<1> SUFFICES ASSUME IInv, [Next]_vars
             PROVE  Swap!Next \/ UNCHANGED Swap!vars
  OBVIOUS
<1>1. ASSUME NEW h \in Fills,
             FundDst(h) \/ Reveal(h) \/ \E caller \in Callers : FillSlot(h, caller)
      PROVE  Swap!Next
  BY <1>1, FundDstLocks, FillSlotLocks, RevealDecides DEF Swap!Next, FillSlot
<1>2. ASSUME NEW h \in Fills, Withdraw(h) \/ Claim(h) \/ Cancel(h) \/ Refund(h)
      PROVE  Swap!Next
  BY <1>2, WithdrawTakes, ClaimPays, CancelReturns, RefundReturns DEF Swap!Next
<1>3. ASSUME NEW h \in Fills, SignFill(h)
      PROVE  Swap!Next \/ UNCHANGED Swap!vars
  BY <1>3, SignFillWaives DEF Swap!Next
<1>4. CASE \/ TickSrc \/ TickDst \/ \E h \in Fills : Quote(h)
           \/ (\E h \in Fills, role \in Roles : ClaimEth(h, role)) \/ UNCHANGED vars
  <2>1. src' = src /\ dst' = dst /\ revealed' = revealed /\ auth' = auth
    BY <1>4 DEF TickSrc, TickDst, Quote, ClaimEth, claimEth, vars, srcVars, clientVars
  <2>2. InputLegs' = InputLegs /\ OutputLegs' = OutputLegs /\ WaivedFills' = WaivedFills
    BY <2>1, NoneWaived DEF InputLegs, OutputLegs, InputLeg, OutputLeg
  <2> QED BY <2>1, <2>2 DEF Swap!vars
<1> QED BY <1>1, <1>2, <1>3, <1>4 DEF Next

(* The escrows, driven by the repository's clients within their margins,   *)
(* are an atomic swap: of a fill whose slot its own filler took, on the one*)
(* T1 the swapper signed, both legs change hands or neither does; and no   *)
(* leg of any fill changes hands before its secret is out.                 *)
THEOREM SwapIsAtomic == Spec => ImplementsAtomicSwap
<1> QED BY SwapInit, SwapNext, SwapInvariant, PTL
        DEF Spec, ImplementsAtomicSwap, Swap!Spec

-----------------------------------------------------------------------------
(* The filler's program.                                                   *)

(* A step of the protocol leaves signed terms and opened escrows standing. *)
LEMMA TermsStand ==
  ASSUME IInv, [Next]_vars, NEW h \in Fills
  PROVE  /\ auth[h] \subseteq auth'[h]
         /\ src[h].state # "none" => src'[h].state # "none"
<1>0. TypeOK
  BY DEF IInv
<1>1. CASE UNCHANGED vars
  BY <1>1 DEF vars, srcVars, clientVars
<1>2. CASE TickSrc \/ TickDst
  BY <1>2 DEF TickSrc, TickDst, srcVars, clientVars
<1>3. CASE \E g \in Fills : Quote(g) \/ FundDst(g) \/ Reveal(g) \/ Claim(g) \/ Refund(g)
  BY <1>3 DEF Quote, FundDst, Reveal, Claim, Refund, srcVars, clientVars
<1>4. CASE \E g \in Fills, role \in Roles : ClaimEth(g, role)
  BY <1>4 DEF ClaimEth, claimEth, clientVars
<1>5. ASSUME NEW g \in Fills, SignFill(g)
      PROVE  auth[h] \subseteq auth'[h] /\ src'[h] = src[h]
  <2>1. PICK terms \in FillAuth : auth' = [auth EXCEPT ![g] = @ \cup {terms}]
    BY <1>5, SignEffect
  <2> QED BY <1>0, <1>5, <2>1 DEF SignFill, srcVars, TypeOK
<1>6. ASSUME NEW g \in Fills, NEW caller \in Callers, FillSlot(g, caller)
      PROVE  auth'[h] = auth[h] /\ (src'[h].state = "open" \/ src'[h] = src[h])
  <2>1. PICK terms \in auth[g] : FillSlotOn(g, caller, terms)
    BY <1>6 DEF FillSlot
  <2>2. PICK value \in Nat \ {0} :
          src' = [src EXCEPT ![g] =
                   [state |-> "open", filler |-> caller, amount |-> terms.fillAmount,
                    expiry |-> terms.t1, safetyDeposit |-> value]]
    BY <2>1, FillSlotEffect
  <2>3. auth' = auth
    BY <2>1, FillSlotEffect DEF clientVars
  <2> QED BY <1>0, <2>2, <2>3 DEF TypeOK
<1>7. ASSUME NEW g \in Fills, Withdraw(g) \/ Cancel(g)
      PROVE  auth'[h] = auth[h] /\ (src'[h].state \in {"claimed", "cancelled"} \/ src'[h] = src[h])
  <2>1. PICK s \in {"claimed", "cancelled"} : src' = [src EXCEPT ![g].state = s]
    BY <1>7 DEF Withdraw, withdraw, Cancel, cancel
  <2>2. src'[g].state = s /\ \A k \in Fills : k # g => src'[k] = src[k]
    BY <1>0, <2>1, SrcClosed
  <2> QED BY <1>7, <2>2 DEF Withdraw, Cancel, clientVars
<1>8. \/ TickSrc \/ TickDst
      \/ \E g \in Fills : Quote(g) \/ FundDst(g) \/ Reveal(g) \/ Claim(g) \/ Refund(g)
      \/ \E g \in Fills, role \in Roles : ClaimEth(g, role)
      \/ \E g \in Fills : SignFill(g) \/ Withdraw(g) \/ Cancel(g)
      \/ \E g \in Fills, caller \in Callers : FillSlot(g, caller)
      \/ UNCHANGED vars
  BY DEF Next
<1> QED BY <1>1, <1>2, <1>3, <1>4, <1>5, <1>6, <1>7, <1>8

-----------------------------------------------------------------------------
(* A command asks only whether the source escrow exists before it gives its*)
(* secret away: the margin to the T1 it kept is the protocol's.            *)
LEMMA RevealIsSafe ==
  ASSUME IInv, FillerInv, NEW p \in Processes, RevealSecret(p)
  PROVE  [Next]_vars
<1> DEFINE h == FillOf(p)
<1>1. /\ h \in Fills /\ TimeMargin(p) /\ src[h].state # "none"
      /\ \E terms \in auth[h] : proc[p].t1 = terms.t1
  BY DEF RevealSecret, FillerInv, Driven, At
<1>2. /\ TypeOK
      /\ revealed' = revealed \cup {h}
      /\ sentAt' = [sentAt EXCEPT ![h] = IF h \in revealed THEN @ ELSE srcTime]
      /\ UNCHANGED <<srcTime, dstTime, srcVars, dst, quote, auth, takenAt>>
  BY <1>1 DEF IInv, RevealSecret
<1>3. CASE h \in revealed
  <2>1. sentAt' = sentAt /\ revealed' = revealed
    BY <1>2, <1>3 DEF TypeOK
  <2> QED BY <1>2, <2>1 DEF vars, clientVars
<1>4. CASE h \notin revealed
  <2>1. Reveal(h)
    BY <1>1, <1>2, <1>4 DEF Reveal, TimeMargin
  <2> QED BY <1>1, <2>1 DEF Next
<1> QED BY <1>3, <1>4

LEMMA EveryStepIsTheSwaps ==
  ASSUME IInv, FillerInv, [FillerNext]_fillerSystemVars
  PROVE  [Next]_vars
<1>1. CASE UNCHANGED fillerSystemVars
  BY <1>1 DEF fillerSystemVars
<1>2. CASE OthersNext
  BY <1>2 DEF OthersNext, Next, Callers
<1>3. ASSUME NEW p \in Processes, ProcessNext(p)
      PROVE  [Next]_vars
  <2>1. CASE \E h \in Fills : StartFill(p, h)
    BY <2>1 DEF StartFill, Next
  <2>2. CASE Deploy(p) \/ FillSlotMined(p)
    <3>1. FillOf(p) \in Fills
      BY <2>2 DEF FillerInv, Driven, Deploy, FillSlotMined, At
    <3>2. FillSlotMined(p) => \E caller \in Callers : FillSlot(FillOf(p), caller)
      BY DEF FillSlotMined, FillSlot, Callers
    <3> QED BY <2>2, <3>1, <3>2 DEF Deploy, Next
  <2>3. CASE RevealSecret(p)
    BY <2>3, RevealIsSafe
  <2>4. CASE \/ \E h \in Fills : StartResume(p, h)
             \/ LoadStore(p) \/ SaveSecret(p) \/ TearStore(p) \/ DstExists(p)
             \/ Transfer(p) \/ WaitAuthorized(p) \/ IsFilled(p) \/ Abort(p)
    BY <2>4 DEF StartResume, LoadStore, SaveSecret, TearStore, DstExists, Transfer,
                WaitAuthorized, IsFilled, Abort
  <2> QED BY <1>3, <2>1, <2>2, <2>3, <2>4 DEF ProcessNext
<1> QED BY <1>1, <1>2, <1>3 DEF FillerNext

-----------------------------------------------------------------------------
(* What no step of a command disturbs in the others.                       *)
LEMMA OthersKeepGoing ==
  ASSUME IInv, FillerInv, [Next]_vars, NEW q \in Processes,
         proc'[q] = proc[q],
         \A h \in Fills : Secured(h) => Secured(h)'
  PROVE  At(q, "idle")' \/ Driven(q)'
<1>1. CASE At(q, "idle")
  BY <1>1 DEF At
<1>2. CASE ~At(q, "idle")
  <2>1. Driven(q) /\ FillOf(q)' = FillOf(q)
    BY <1>2 DEF FillerInv, FillOf
  <2> QED BY <2>1, TermsStand DEF Driven, At
<1> QED BY <1>1, <1>2

LEMMA FillerInvInit == FillerInit => FillerInv
<1> SUFFICES ASSUME FillerInit PROVE FillerInv
  OBVIOUS
<1>1. FillerTypeOK
  <2>1. IdleProcess \in Process
    BY DEF IdleProcess, Process, NoFill
  <2>2. proc \in [Processes -> Process] /\ transferred \in [Fills -> 0..MaxTransfers]
    BY <2>1, FillerAssumption DEF FillerInit
  <2> QED BY <2>2 DEF FillerInit, FillerTypeOK
<1>2. SecretsSurvive /\ \A p \in Processes : At(p, "idle")
  BY DEF FillerInit, SecretsSurvive, At, IdleProcess
<1> QED BY <1>1, <1>2 DEF FillerInv

(* One step of one command.                                                *)
LEMMA ProcessKeeps ==
  ASSUME IInv, FillerInv, [Next]_vars, NEW p \in Processes, ProcessNext(p)
  PROVE  /\ FillerTypeOK' /\ SecretsSurvive'
         /\ \A h \in Fills : Secured(h) => Secured(h)'
         /\ \A q \in Processes : q # p => proc'[q] = proc[q]
         /\ At(p, "idle")' \/ Driven(p)'
<1>1. /\ FillerTypeOK /\ SecretsSurvive /\ proc[p] \in Process
      /\ At(p, "idle") \/ Driven(p)
  BY DEF FillerInv, FillerTypeOK
<1>2. IdleProcess \in Process
  BY DEF IdleProcess, Process, NoFill
<1>3. \A h \in Fills : /\ auth[h] \subseteq auth'[h]
                       /\ src[h].state # "none" => src'[h].state # "none"
                       /\ \A terms \in auth[h] : terms.t1 \in Nat
  BY TermsStand DEF IInv, TypeOK, FillAuth
<1> USE DEF FillerTypeOK, SecretsSurvive, Secured, Driven, At, FillOf, Goto
<1>4. ASSUME NEW h \in Fills, StartFill(p, h) \/ StartResume(p, h)
      PROVE  /\ FillerTypeOK' /\ SecretsSurvive'
             /\ \A g \in Fills : Secured(g) => Secured(g)'
             /\ \A q \in Processes : q # p => proc'[q] = proc[q]
             /\ Driven(p)'
  BY <1>1, <1>4 DEF StartFill, StartResume, Process, storeVars
<1>5. CASE LoadStore(p)
  BY <1>1, <1>5 DEF LoadStore, Process, storeVars
<1>6. CASE SaveSecret(p)
  BY <1>1, <1>6 DEF SaveSecret, Process
<1>7. CASE TearStore(p)
  BY <1>1, <1>2, <1>7 DEF TearStore, IdleProcess
<1>8. CASE Abort(p)
  BY <1>1, <1>2, <1>8 DEF Abort, IdleProcess, storeVars
<1>9. CASE DstExists(p)
  BY <1>1, <1>9 DEF DstExists, Process, storeVars
<1>10. CASE Transfer(p)
  BY <1>1, <1>10, FillerAssumption DEF Transfer, Process, storeVars
<1>11. CASE Deploy(p)
  BY <1>1, <1>11 DEF Deploy, Process, storeVars
<1>12. CASE WaitAuthorized(p)
  <2>1. FillOf(p) \in Fills /\ Secured(FillOf(p)) /\ At(p, "wait")
    BY <1>1, <1>12 DEF WaitAuthorized
  <2>2. PICK terms \in auth[FillOf(p)] :
          proc' = [proc EXCEPT ![p].pc = "isFilled", ![p].t1 = terms.t1]
    BY <1>12 DEF WaitAuthorized
  <2>3. terms \in auth'[FillOf(p)] /\ terms.t1 \in Nat
    BY <1>3, <2>1, <2>2
  <2>4. UNCHANGED <<storeVars, transferred>>
    BY <1>12 DEF WaitAuthorized
  <2>5. proc'[p] = [proc[p] EXCEPT !.pc = "isFilled", !.t1 = terms.t1] /\ proc'[p] \in Process
    BY <1>1, <2>2, <2>3 DEF Process
  <2> QED BY <1>1, <2>1, <2>2, <2>3, <2>4, <2>5 DEF Process, storeVars
<1>13. CASE IsFilled(p)
  BY <1>1, <1>3, <1>13 DEF IsFilled, Process, storeVars
<1>14. CASE FillSlotMined(p)
  <2>1. src'[FillOf(p)].state # "none"
    <3>1. FillOf(p) \in Fills
      BY <1>1, <1>14 DEF FillSlotMined
    <3>2. PICK terms \in auth[FillOf(p)] : FillSlotOn(FillOf(p), "filler", terms)
      BY <1>14 DEF FillSlotMined
    <3>3. PICK value \in Nat \ {0} :
            src' = [src EXCEPT ![FillOf(p)] =
                      [state |-> "open", filler |-> "filler", amount |-> terms.fillAmount,
                       expiry |-> terms.t1, safetyDeposit |-> value]]
      BY <3>1, <3>2, FillSlotEffect DEF Callers
    <3> QED BY <3>1, <3>3 DEF IInv, TypeOK
  <2> QED BY <1>1, <1>3, <1>14, <2>1 DEF FillSlotMined, Process, storeVars
<1>15. CASE RevealSecret(p)
  BY <1>1, <1>2, <1>15 DEF RevealSecret, IdleProcess, storeVars
<1> QED
  BY <1>4, <1>5, <1>6, <1>7, <1>8, <1>9, <1>10, <1>11, <1>12, <1>13, <1>14, <1>15
     DEF ProcessNext

LEMMA FillerInvNext ==
  ASSUME IInv, FillerInv, [FillerNext]_fillerSystemVars
  PROVE  FillerInv'
<1>1. [Next]_vars
  BY EveryStepIsTheSwaps
<1>3. ASSUME UNCHANGED fillerVars
      PROVE  FillerInv'
  <2>1. /\ FillerTypeOK' /\ SecretsSurvive'
        /\ \A h \in Fills : Secured(h) => Secured(h)'
        /\ proc' = proc
    BY <1>3 DEF FillerInv, FillerTypeOK, SecretsSurvive, Secured, fillerVars, storeVars
  <2>2. \A q \in Processes : At(q, "idle")' \/ Driven(q)'
    BY <1>1, <2>1, OthersKeepGoing
  <2> QED BY <2>1, <2>2 DEF FillerInv
<1>4. ASSUME NEW p \in Processes, ProcessNext(p)
      PROVE  FillerInv'
  <2>1. /\ FillerTypeOK' /\ SecretsSurvive'
        /\ \A h \in Fills : Secured(h) => Secured(h)'
        /\ \A q \in Processes : q # p => proc'[q] = proc[q]
        /\ At(p, "idle")' \/ Driven(p)'
    BY <1>1, <1>4, ProcessKeeps
  <2>2. \A q \in Processes : At(q, "idle")' \/ Driven(q)'
    BY <1>1, <2>1, OthersKeepGoing
  <2> QED BY <2>1, <2>2 DEF FillerInv
<1> QED BY <1>3, <1>4 DEF FillerNext, fillerSystemVars

LEMMA FillerInvariant == FillerSpec => [](IInv /\ FillerInv)
<1>1. FillerInit => IInv /\ FillerInv
  BY FillerInvInit, InitInv DEF FillerInit
<1>2. IInv /\ FillerInv /\ [FillerNext]_fillerSystemVars => (IInv /\ FillerInv)'
  BY EveryStepIsTheSwaps, NextInv, FillerInvNext
<1> QED BY <1>1, <1>2, PTL DEF FillerSpec

-----------------------------------------------------------------------------
(* A command's fill, its T1 and the file of secrets keep their types.      *)
THEOREM FillerTypes == FillerSpec => []FillerTypeOK
<1>1. FillerInv => FillerTypeOK
  BY DEF FillerInv
<1> QED BY <1>1, FillerInvariant, PTL

(* saveSecret comes before the first transfer: an output in an escrow has  *)
(* its secret in the file, if no write of the file dropped it.             *)
THEOREM FundedSecretsSurvive == FillerSpec => []SecretsSurvive
<1>1. FillerInv => SecretsSurvive
  BY DEF FillerInv
<1> QED BY <1>1, FillerInvariant, PTL

(* The filler's program implements its part of the swap protocol.          *)
THEOREM FillerFollowsSwap == FillerSpec => FollowsSwap
<1>1. FillerInit => Init
  BY DEF FillerInit
<1>2. IInv /\ FillerInv /\ [FillerNext]_fillerSystemVars => [Next]_vars
  BY EveryStepIsTheSwaps
<1> QED BY <1>1, <1>2, FillerInvariant, PTL DEF FillerSpec, FollowsSwap, Spec

(* ... and so, through any abort, resume or overlap of its commands, both  *)
(* legs of a fill change hands or neither does, unless another caller took *)
(* its slot or the swapper signed it on two terms.                         *)
THEOREM FillerIsAtomic == FillerSpec => ImplementsAtomicSwap
<1> QED BY FillerFollowsSwap, SwapIsAtomic DEF FollowsSwap
=============================================================================
