--------------------------- MODULE SettlementProofs ---------------------------
(***************************************************************************)
(* Settlement's safety properties hold for any number of orders, fillers   *)
(* and accounts, any amounts and prices, and any valid configurations.     *)
(* The argument is the inductive invariant of SettlementInvariant.tla.     *)
(* And it implements the abstract stake escrow.                            *)
(***************************************************************************)
EXTENDS SettlementInvariant, FallbackRoute, StakeScheduleProofs, TotalsProofs

(* These name tuples of variables and nothing else.                        *)
USE DEF payVars, routeVars, fallbackVars

LEMMA CreditType ==
  ASSUME NEW ledger \in [Accounts -> Nat], NEW who \in Accounts, NEW amount \in Nat
  PROVE  Credit(ledger, who, amount) \in [Accounts -> Nat]
BY DEF Credit

LEMMA FillerIsAccount == \A f \in Fillers : f \in Accounts
BY AuctionAssumption

(* What register leaves behind in FillAuction.                             *)
Commits(o, f, fillAmount, excess) ==
  /\ ~reg[o][f].registered
  /\ reg'[o][f].registered /\ ~Settled(reg'[o][f])
  /\ reg'[o][f].fillAmount = fillAmount
  /\ RowFits(reg'[o][f].refundRow, reg'[o][f].ratioSnapshot)
  /\ \A p \in Orders, g \in Fillers : ~(p = o /\ g = f) => reg'[p][g] = reg[p][g]
  /\ reg' \in [Orders -> [Fillers -> Registration]]
  /\ pendingReturns' = Credit(pendingReturns, f, excess)
  /\ pendingReturns' \in [Accounts -> Nat]
  /\ balance' = balance + reg'[o][f].stakeAmount + excess
  /\ balance' \in Nat
  /\ config' = config

LEMMA RegisterStakeEffect ==
  ASSUME TypeOK, NEW o \in Orders, NEW f \in Fillers, NEW fillAmount \in Nat,
         NEW total \in Nat, NEW left \in Int, NEW notional \in Nat, NEW excess \in Nat,
         RegisterStake(o, f, fillAmount, total, left, notional, excess)
  PROVE  Commits(o, f, fillAmount, excess) /\ total < U128
<1> DEFINE terms == computeRegistration(config, notional, left)
           r     == NewRegistration(fillAmount, terms)
<1>1. /\ config \in StakeConfig /\ WellShaped(config) /\ RefundsWellFormed(config)
      /\ f \in Accounts
  BY AuctionAssumption DEF TypeOK
<1>2. terms.required \in Nat /\ RowFits(terms.refundRow, terms.ratioSnapshot)
  BY <1>1, RegistrationTerms
<1>3. /\ reg' = [reg EXCEPT ![o][f] = r]
      /\ pendingReturns' = Credit(pendingReturns, f, excess)
      /\ balance' = balance + terms.required + excess
      /\ config' = config /\ total < U128 /\ ~reg[o][f].registered
  BY DEF RegisterStake
<1> HIDE DEF terms
<1>4. /\ r \in Registration
      /\ r.registered /\ ~Settled(r) /\ r.fillAmount = fillAmount
      /\ r.stakeAmount = terms.required /\ r.refundRow = terms.refundRow
      /\ r.ratioSnapshot = terms.ratioSnapshot
  BY <1>2 DEF Registration, NewRegistration, Settled, RowFits
<1> HIDE DEF r
<1>5. reg \in [Orders -> [Fillers -> Registration]]
  BY DEF TypeOK
<1>6. reg'[o][f] = r /\ reg' \in [Orders -> [Fillers -> Registration]]
  BY <1>3, <1>4, <1>5
<1>7. \A p \in Orders, g \in Fillers : ~(p = o /\ g = f) => reg'[p][g] = reg[p][g]  BY <1>3, <1>5
<1>8. pendingReturns' \in [Accounts -> Nat] /\ balance' \in Nat
  <2>1. pendingReturns \in [Accounts -> Nat] /\ balance \in Nat
    BY DEF TypeOK
  <2> QED BY <1>1, <1>2, <1>3, <2>1, CreditType
<1> QED BY <1>2, <1>3, <1>4, <1>6, <1>7, <1>8 DEF Commits

(* Closing a registration sets one of its flags and nothing else: what was *)
(* promised and staked stays on record.                                    *)
SameTerms(r, s) ==
  /\ s.registered = r.registered
  /\ s.fillAmount = r.fillAmount
  /\ s.stakeAmount = r.stakeAmount
  /\ s.refundRow = r.refundRow
  /\ s.ratioSnapshot = r.ratioSnapshot

TermsKept == \A o \in Orders, f \in Fillers : SameTerms(reg[o][f], reg'[o][f])

LEMMA CloseOne ==
  ASSUME NEW r \in Registration
  PROVE  /\ [r EXCEPT !.filled = TRUE] \in Registration
         /\ SameTerms(r, [r EXCEPT !.filled = TRUE])
         /\ [r EXCEPT !.slashed = TRUE] \in Registration
         /\ SameTerms(r, [r EXCEPT !.slashed = TRUE])
         /\ [r EXCEPT !.released = TRUE] \in Registration
         /\ SameTerms(r, [r EXCEPT !.released = TRUE])
BY DEF Registration, SameTerms

LEMMA CloseKeepsTerms ==
  ASSUME reg \in [Orders -> [Fillers -> Registration]],
         NEW o \in Orders, NEW f \in Fillers, NEW r \in Registration,
         SameTerms(reg[o][f], r),
         reg' = [reg EXCEPT ![o][f] = r]
  PROVE  reg' \in [Orders -> [Fillers -> Registration]] /\ TermsKept
<1>1. reg' \in [Orders -> [Fillers -> Registration]]
  OBVIOUS
<1>2. \A p \in Orders, g \in Fillers :
        reg'[p][g] = IF p = o /\ g = f THEN r ELSE reg[p][g]
  OBVIOUS
<1> QED BY <1>1, <1>2 DEF TermsKept, SameTerms

(* Every settlement sets one flag of one registration and splits the stake *)
(* between accounts.                                                       *)
LEMMA FillEffect ==
  ASSUME TypeOK, NEW o \in Orders, NEW f \in Fillers,
         NEW actual \in Nat, NEW remaining \in Nat,
         RowFits(reg[o][f].refundRow, reg[o][f].ratioSnapshot),
         onFillSuccess(o, f, actual, remaining)
  PROVE  LET r      == reg[o][f]
             refund == computeRefund(r.stakeAmount, actual, Deliverable(o, f, remaining),
                                     r.refundRow, r.ratioSnapshot)
         IN  /\ refund \in 0..r.stakeAmount
             /\ Deliverable(o, f, remaining) \in Nat
             /\ reg' = [reg EXCEPT ![o][f].filled = TRUE]
             /\ reg' \in [Orders -> [Fillers -> Registration]]
             /\ TermsKept
             /\ pendingReturns' = Credit(Credit(pendingReturns, f, refund),
                                         Treasury, r.stakeAmount - refund)
             /\ pendingReturns' \in [Accounts -> Nat]
             /\ ~Settled(r)
             /\ balance' = balance /\ config' = config
<1> DEFINE r      == reg[o][f]
           refund == computeRefund(r.stakeAmount, actual, Deliverable(o, f, remaining),
                                   r.refundRow, r.ratioSnapshot)
<1>1. r \in Registration /\ f \in Accounts /\ Treasury \in Accounts
  BY AuctionAssumption DEF TypeOK
<1>2. r.stakeAmount \in Nat /\ Deliverable(o, f, remaining) \in Nat
  BY <1>1 DEF Registration, Deliverable
<1>3. refund \in 0..r.stakeAmount
  BY <1>2, RefundWithinStake
<1>4. /\ reg' = [reg EXCEPT ![o][f].filled = TRUE]
      /\ pendingReturns' = Credit(Credit(pendingReturns, f, refund),
                                  Treasury, r.stakeAmount - refund)
      /\ ~Settled(r) /\ balance' = balance /\ config' = config
  BY DEF onFillSuccess
<1>5. reg' \in [Orders -> [Fillers -> Registration]] /\ TermsKept
  <2> DEFINE closed == [r EXCEPT !.filled = TRUE]
  <2>1. closed \in Registration /\ SameTerms(r, closed)
    BY <1>1, CloseOne
  <2>2. reg \in [Orders -> [Fillers -> Registration]]
    BY DEF TypeOK
  <2>3. reg' = [reg EXCEPT ![o][f] = closed]
    BY <1>4
  <2> HIDE DEF closed
  <2> QED BY <2>1, <2>2, <2>3, CloseKeepsTerms
<1> HIDE DEF refund, r
<1>6. refund \in Nat /\ r.stakeAmount - refund \in Nat
  BY <1>2, <1>3
<1>7. pendingReturns' \in [Accounts -> Nat]
  BY <1>1, <1>4, <1>6, CreditType DEF TypeOK
<1> QED BY <1>2, <1>3, <1>4, <1>5, <1>7 DEF refund, r

LEMMA SlashEffect ==
  ASSUME TypeOK, NEW o \in Orders, NEW f \in Fillers, NEW caller \in Accounts,
         slashStake(o, f, caller)
  PROVE  LET stake  == reg[o][f].stakeAmount
             reward == stake \div 10
         IN  /\ reward \in 0..stake
             /\ reg' = [reg EXCEPT ![o][f].slashed = TRUE]
             /\ reg' \in [Orders -> [Fillers -> Registration]]
             /\ TermsKept
             /\ pendingReturns' = Credit(Credit(pendingReturns, caller, reward),
                                         Treasury, stake - reward)
             /\ pendingReturns' \in [Accounts -> Nat]
<1> DEFINE r      == reg[o][f]
           reward == r.stakeAmount \div 10
           closed == [r EXCEPT !.slashed = TRUE]
<1>1. r \in Registration /\ Treasury \in Accounts
      /\ reg \in [Orders -> [Fillers -> Registration]]
  BY AuctionAssumption DEF TypeOK
<1>2. r.stakeAmount \in Nat
  BY <1>1 DEF Registration
<1>3. reward \in 0..r.stakeAmount
  BY <1>2
<1>4. /\ reg' = [reg EXCEPT ![o][f].slashed = TRUE]
      /\ reg' = [reg EXCEPT ![o][f] = closed]
      /\ pendingReturns' = Credit(Credit(pendingReturns, caller, reward),
                                  Treasury, r.stakeAmount - reward)
  BY DEF slashStake
<1>5. closed \in Registration /\ SameTerms(r, closed)
  BY <1>1, CloseOne
<1> HIDE DEF closed
<1>6. reg' \in [Orders -> [Fillers -> Registration]] /\ TermsKept
  BY <1>1, <1>4, <1>5, CloseKeepsTerms
<1> HIDE DEF reward, r
<1>7. reward \in Nat /\ r.stakeAmount - reward \in Nat
  BY <1>2, <1>3
<1>8. pendingReturns' \in [Accounts -> Nat]
  BY <1>1, <1>4, <1>7, CreditType DEF TypeOK
<1> QED BY <1>3, <1>4, <1>6, <1>8 DEF reward, r

LEMMA ReleaseEffect ==
  ASSUME TypeOK, NEW o \in Orders, NEW f \in Fillers, releaseStake(o, f)
  PROVE  /\ reg' = [reg EXCEPT ![o][f].released = TRUE]
         /\ reg' \in [Orders -> [Fillers -> Registration]]
         /\ TermsKept
         /\ reg[o][f].stakeAmount \in Nat
         /\ pendingReturns' = Credit(pendingReturns, f, reg[o][f].stakeAmount)
         /\ pendingReturns' \in [Accounts -> Nat]
<1> DEFINE r      == reg[o][f]
           closed == [r EXCEPT !.released = TRUE]
<1>1. r \in Registration /\ f \in Accounts
      /\ reg \in [Orders -> [Fillers -> Registration]]
  BY AuctionAssumption DEF TypeOK
<1>2. r.stakeAmount \in Nat
  BY <1>1 DEF Registration
<1>3. /\ reg' = [reg EXCEPT ![o][f].released = TRUE]
      /\ reg' = [reg EXCEPT ![o][f] = closed]
      /\ pendingReturns' = Credit(pendingReturns, f, r.stakeAmount)
  BY DEF releaseStake
<1>4. closed \in Registration /\ SameTerms(r, closed)
  BY <1>1, CloseOne
<1> HIDE DEF closed
<1>5. reg' \in [Orders -> [Fillers -> Registration]] /\ TermsKept
  BY <1>1, <1>3, <1>4, CloseKeepsTerms
<1>6. pendingReturns' \in [Accounts -> Nat]
  BY <1>1, <1>2, <1>3, CreditType DEF TypeOK
<1> QED BY <1>2, <1>3, <1>5, <1>6

-----------------------------------------------------------------------------
(* RemainingLib.  A partly sold order packs to neither 0 nor the filled    *)
(* mark, and unpacks to what was packed.                                   *)
LEMMA PackUnpack ==
  ASSUME NEW o \in Orders, NEW left \in 0..InputAmount[o]
  PROVE  LET packed == IF left = 0 THEN fullyFilled ELSE pack(left)
         IN  /\ packed \in 0..(U256 - 1)
             /\ packed # 0
             /\ Unpack(packed, InputAmount[o]) = left
BY OrderAssumption DEF pack, fullyFilled, Unpack

LEMMA RemainingNat ==
  ASSUME TypeOK, NEW o \in Orders
  PROVE  remainingInput(o) \in Nat
BY OrderAssumption DEF TypeOK, remainingInput, Unpack

LEMMA PriceNat ==
  ASSUME TypeOK, NEW o \in Orders
  PROVE  getCurrentPrice(o) \in Nat /\ PriceNow(o) \in Nat
<1>1. /\ StartPrice[o] \in Nat /\ DecayPerBlock[o] \in Nat /\ block \in Nat
      /\ cursor[o].price \in Nat /\ cursor[o].resetAt \in Nat
  BY OrderAssumption DEF TypeOK
<1>2. (block - cursor[o].resetAt) * DecayPerBlock[o] \in Int
  BY <1>1
<1>3. getCurrentPrice(o) \in Nat
  BY <1>1, <1>2 DEF getCurrentPrice
<1> QED BY <1>1, <1>3 DEF PriceNow

LEMMA OutputNat ==
  ASSUME TypeOK, NEW o \in Orders, NEW fillAmount \in Nat
  PROVE  OutputAmount(o, fillAmount) \in Nat
BY PriceNat, MulDivNat, OrderAssumption DEF OutputAmount

(* A commitment in range and the 128-bit cast: no fill that passes the     *)
(* checks asks for more than its filler staked for.                        *)
LEMMA FillChecksEffect ==
  ASSUME IInv, NEW o \in Orders, NEW f \in Fillers, NEW fillAmount \in Nat,
         FillChecks(o, f, fillAmount)
  PROVE  /\ reg[o][f].registered
         /\ fillAmount <= reg[o][f].fillAmount
         /\ fillAmount <= remainingInput(o)
         /\ remainingInput(o) - fillAmount \in 0..InputAmount[o]
         /\ remainingInput(o) \in Nat
<1>1. /\ reg[o][f].registered
      /\ reg[o][f].fillAmount >= fillAmount % U128
      /\ fillAmount <= remainingInput(o)
  BY DEF FillChecks, hasValidRegistration, Active
<1>2. remainingInput(o) \in 0..InputAmount[o] /\ InputAmount[o] < U128
  BY <1>1 DEF IInv, RemainingFits, RegistrationsFit
<1>3. InputAmount[o] \in Nat /\ U128 \in Nat \ {0}
  BY OrderAssumption, AuctionAssumption
<1>4. fillAmount % U128 = fillAmount
  BY <1>1, <1>2, <1>3
<1> QED BY <1>1, <1>2, <1>3, <1>4

(* The curve is the same whether it is followed in one step or in two.     *)
LEMMA CurveAdds ==
  ASSUME NEW start \in Nat, NEW d \in Nat, NEW i \in Nat, NEW j \in Nat,
         NEW mid, mid = IF i * d >= start THEN 0 ELSE start - i * d
  PROVE  (IF j * d >= mid THEN 0 ELSE mid - j * d)
           = (IF (i + j) * d >= start THEN 0 ELSE start - (i + j) * d)
<1>1. i * d \in Nat /\ j * d \in Nat /\ (i + j) * d = i * d + j * d
  OBVIOUS
<1> QED BY <1>1

(* On the cursor, the price is the straight decay since the order opened.  *)
LEMMA PriceOnCurve ==
  ASSUME TypeOK, CursorOnCurve, NEW o \in Orders,
         ~isNewOrder(raw[o]), ~fallbackInitiated[o]
  PROVE  /\ getCurrentPrice(o) = CurveAfter(o, block - openedAt[o])
         /\ openedAt[o] <= block
<1> DEFINE i == cursor[o].resetAt - openedAt[o]
           j == block - cursor[o].resetAt
<1>1. /\ openedAt[o] <= cursor[o].resetAt /\ cursor[o].resetAt <= block
      /\ cursor[o].price = CurveAfter(o, i)
  BY DEF CursorOnCurve
<1>2. /\ openedAt[o] \in Nat /\ cursor[o].resetAt \in Nat /\ block \in Nat
      /\ StartPrice[o] \in Nat /\ DecayPerBlock[o] \in Nat
  BY OrderAssumption DEF TypeOK
<1>3. i \in Nat /\ j \in Nat /\ i + j = block - openedAt[o] /\ openedAt[o] <= block
  BY <1>1, <1>2
<1> HIDE DEF i
<1>4. cursor[o].price = IF i * DecayPerBlock[o] >= StartPrice[o] THEN 0
                        ELSE StartPrice[o] - i * DecayPerBlock[o]
  BY <1>1 DEF CurveAfter
<1>5. getCurrentPrice(o) = IF j * DecayPerBlock[o] >= cursor[o].price THEN 0
                           ELSE cursor[o].price - j * DecayPerBlock[o]
  BY DEF getCurrentPrice
<1> HIDE DEF j
<1>6. getCurrentPrice(o) = IF (i + j) * DecayPerBlock[o] >= StartPrice[o] THEN 0
                           ELSE StartPrice[o] - (i + j) * DecayPerBlock[o]
  BY <1>2, <1>3, <1>4, <1>5, CurveAdds
<1> QED BY <1>3, <1>6 DEF CurveAfter

-----------------------------------------------------------------------------
(* The input leg keeps the order's accounts: what it pulls is what the     *)
(* remaining amount loses, and the cursor moves along the curve.           *)
LEMMA TakeInputEffect ==
  ASSUME IInv, NEW o \in Orders, NEW f \in Fillers, NEW fillAmount \in Nat,
         FillChecks(o, f, fillAmount), TakeInput(o, fillAmount),
         UNCHANGED <<block, fallbackInitiated>>
  PROVE  /\ raw' \in [Orders -> 0..(U256 - 1)]
         /\ cursor' \in [Orders -> [price : Nat, resetAt : Nat]]
         /\ pulled' \in [Orders -> Nat]
         /\ openedAt' \in [Orders -> Nat]
         /\ remainingInput(o)' = remainingInput(o) - fillAmount
         /\ \A p \in Orders : p # o => remainingInput(p)' = remainingInput(p)
         /\ RemainingFits'
         /\ InputConserved'
         /\ CursorOnCurve'
<1> DEFINE left   == remainingInput(o) - fillAmount
           packed == IF left = 0 THEN fullyFilled ELSE pack(left)
<1>1. /\ TypeOK /\ RemainingFits /\ InputConserved /\ CursorOnCurve
      /\ left \in 0..InputAmount[o] /\ remainingInput(o) \in Nat
      /\ ~fallbackInitiated[o]
  BY FillChecksEffect DEF IInv, FillChecks
<1>2. /\ raw \in [Orders -> 0..(U256 - 1)]
      /\ cursor \in [Orders -> [price : Nat, resetAt : Nat]]
      /\ pulled \in [Orders -> Nat] /\ openedAt \in [Orders -> Nat] /\ block \in Nat
  BY <1>1 DEF TypeOK
<1>3. /\ raw' = [raw EXCEPT ![o] = packed]
      /\ cursor' = [cursor EXCEPT ![o] = cursorAfterFill(o)]
      /\ pulled' = [pulled EXCEPT ![o] = @ + fillAmount]
      /\ openedAt' = [openedAt EXCEPT ![o] = IF isNewOrder(raw[o]) THEN block ELSE @]
  BY DEF TakeInput
<1> HIDE DEF left
<1>4. packed \in 0..(U256 - 1) /\ packed # 0 /\ Unpack(packed, InputAmount[o]) = left
  BY <1>1, PackUnpack
<1> HIDE DEF packed
<1>5. raw' \in [Orders -> 0..(U256 - 1)] /\ raw'[o] = packed
      /\ \A p \in Orders : p # o => raw'[p] = raw[p]
  BY <1>2, <1>3, <1>4
<1>6. /\ remainingInput(o)' = left
      /\ \A p \in Orders : p # o => remainingInput(p)' = remainingInput(p)
  BY <1>4, <1>5 DEF remainingInput
<1>7. PriceNow(o) \in Nat
  BY <1>1, PriceNat
<1>8. /\ cursor' \in [Orders -> [price : Nat, resetAt : Nat]]
      /\ pulled' \in [Orders -> Nat] /\ openedAt' \in [Orders -> Nat]
  BY <1>2, <1>3, <1>7 DEF cursorAfterFill
<1>9. RemainingFits'
  BY <1>1, <1>6 DEF RemainingFits
<1>10. InputConserved'
  <2> SUFFICES ASSUME NEW p \in Orders
               PROVE  pulled'[p] + remainingInput(p)' = InputAmount[p]
    BY DEF InputConserved
  <2>1. pulled[p] + remainingInput(p) = InputAmount[p] /\ InputAmount[p] \in Nat
    BY <1>1, OrderAssumption DEF InputConserved
  <2>2. CASE p = o
    BY <1>1, <1>2, <1>3, <1>6, <2>1, <2>2 DEF left
  <2>3. CASE p # o
    BY <1>2, <1>3, <1>6, <2>1, <2>3
  <2> QED BY <2>2, <2>3
<1>11. CursorOnCurve'
  <2> SUFFICES ASSUME NEW p \in Orders, ~isNewOrder(raw'[p]), ~fallbackInitiated[p]
               PROVE  /\ openedAt'[p] <= cursor'[p].resetAt
                      /\ cursor'[p].resetAt <= block
                      /\ cursor'[p].price = CurveAfter(p, cursor'[p].resetAt - openedAt'[p])
    BY DEF CursorOnCurve, CurveAfter
  <2>1. CASE p # o
    BY <1>1, <1>2, <1>3, <1>5, <2>1 DEF CursorOnCurve
  <2>2. CASE p = o /\ isNewOrder(raw[o])
    <3>1. cursor'[o].price = StartPrice[o] /\ cursor'[o].resetAt = block /\ openedAt'[o] = block
      BY <1>2, <1>3, <2>2 DEF cursorAfterFill, PriceNow
    <3>2. StartPrice[o] \in Nat /\ DecayPerBlock[o] \in Nat
      BY OrderAssumption
    <3>3. CurveAfter(o, block - block) = StartPrice[o]
      BY <1>2, <3>2 DEF CurveAfter
    <3> QED BY <1>2, <2>2, <3>1, <3>3
  <2>3. CASE p = o /\ ~isNewOrder(raw[o])
    <3>1. /\ cursor'[o].price = getCurrentPrice(o) /\ cursor'[o].resetAt = block
          /\ openedAt'[o] = openedAt[o]
      BY <1>2, <1>3, <2>3 DEF cursorAfterFill, PriceNow
    <3> QED BY <1>1, <1>2, <2>3, <3>1, PriceOnCurve
  <2> QED BY <2>1, <2>2, <2>3
<1> QED BY <1>5, <1>6, <1>8, <1>9, <1>10, <1>11 DEF left

(* Order o is credited an amount, of which the swapper receives a part     *)
(* now.                                                                    *)
Pays(o, credit, gain) ==
  /\ paid' \in [Orders -> Nat]
  /\ paid'[o] = paid[o] + credit
  /\ \A p \in Orders : p # o => paid'[p] = paid[p]
  /\ outputBalance' \in [Payees -> Nat]
  /\ outputBalance'[PayeeOf[o]] = outputBalance[PayeeOf[o]] + gain
  /\ \A q \in Payees : q # PayeeOf[o] => outputBalance'[q] = outputBalance[q]

LEMMA PaysEffect ==
  ASSUME TypeOK, NEW o \in Orders, NEW credit \in Nat, NEW gain \in Nat,
         paid' = [paid EXCEPT ![o] = @ + credit],
         outputBalance' = [outputBalance EXCEPT ![PayeeOf[o]] = @ + gain]
  PROVE  Pays(o, credit, gain)
<1>1. PayeeOf[o] \in Payees
  BY OrderAssumption
<1>2. paid \in [Orders -> Nat] /\ outputBalance \in [Payees -> Nat]
  BY DEF TypeOK
<1> QED BY <1>1, <1>2 DEF Pays

(* A payment after which the history of what routes were credited of other *)
(* orders has grown by as much as was not received now.                    *)
LEMMA PaymentsGrow ==
  ASSUME IInv, NEW o \in Orders, NEW credit \in Nat, NEW gain \in 0..credit,
         Pays(o, credit, gain),
         paid[o] + credit <= outputBalance[PayeeOf[o]] + gain,
         alsoPaid' \in [Orders -> Nat], alsoPaid'[o] = alsoPaid[o] + (credit - gain),
         \A p \in Orders : p # o => alsoPaid'[p] = alsoPaid[p],
         \A p \in Orders : fallbackInitiated[p] => fallbackInitiated'[p],
         gain < credit => fallbackInitiated'[o] /\ OthersPaid(o)
  PROVE  /\ PaymentsReceived'
         /\ BroughtByItself(o)' = BroughtByItself(o) + gain
         /\ BroughtByItself(o) \in Nat
         /\ \A p \in Orders : OthersPaid(p) => OthersPaid(p)'
<1>1. /\ paid \in [Orders -> Nat] /\ outputBalance \in [Payees -> Nat]
      /\ alsoPaid \in [Orders -> Nat] /\ PaymentsReceived
  BY DEF IInv, TypeOK
<1>2. \A p \in Orders : PayeeOf[p] \in Payees
  BY OrderAssumption
<1>3. BroughtByItself(o)' = BroughtByItself(o) + gain /\ BroughtByItself(o) \in Nat
  BY <1>1 DEF BroughtByItself, Pays, PaymentsReceived
<1>4. \A p \in Orders : BroughtByItself(p) > 0 => BroughtByItself(p)' > 0
  <2> TAKE p \in Orders
  <2>1. CASE p = o
    BY <1>3, <2>1
  <2>2. CASE p # o
    BY <2>2 DEF BroughtByItself, Pays
  <2> QED BY <2>1, <2>2
<1>5. \A p \in Orders : OthersPaid(p) => OthersPaid(p)'
  BY <1>4 DEF OthersPaid
<1>6. ASSUME NEW p \in Orders
      PROVE  /\ alsoPaid'[p] <= paid'[p]
             /\ paid'[p] <= outputBalance'[PayeeOf[p]]
             /\ alsoPaid'[p] > 0 => fallbackInitiated'[p] /\ OthersPaid(p)'
  <2>1. /\ alsoPaid[p] <= paid[p] /\ paid[p] <= outputBalance[PayeeOf[p]]
        /\ alsoPaid[p] > 0 => fallbackInitiated[p] /\ OthersPaid(p)
    BY <1>1 DEF PaymentsReceived
  <2>2. outputBalance'[PayeeOf[p]] >= outputBalance[PayeeOf[p]]
    BY <1>1, <1>2 DEF Pays
  <2>3. outputBalance'[PayeeOf[p]] \in Nat /\ outputBalance[PayeeOf[p]] \in Nat
    BY <1>1, <1>2 DEF Pays
  <2>4. CASE p = o
    BY <1>1, <1>5, <2>1, <2>4 DEF Pays
  <2>5. CASE p # o
    BY <1>1, <1>5, <2>1, <2>2, <2>3, <2>5 DEF Pays
  <2> QED BY <2>4, <2>5
<1> QED BY <1>3, <1>5, <1>6 DEF PaymentsReceived

(* Nothing is paid, and fallbacks only begin.                              *)
LEMMA NothingPaid ==
  ASSUME PaymentsReceived, UNCHANGED <<payVars, alsoPaid>>,
         \A p \in Orders : fallbackInitiated[p] => fallbackInitiated'[p]
  PROVE  /\ PaymentsReceived'
         /\ \A p \in Orders : OthersPaid(p) => OthersPaid(p)'
<1>1. \A p \in Orders : BroughtByItself(p)' = BroughtByItself(p)
  BY DEF BroughtByItself
<1>2. \A p \in Orders : OthersPaid(p) => OthersPaid(p)'
  BY <1>1 DEF OthersPaid
<1> QED BY <1>2 DEF PaymentsReceived

(* What a fill of o pays beside an open route belongs to another order     *)
(* than the route's.                                                       *)
LEMMA FillBesideRoute ==
  ASSUME IInv, NEW o \in Orders, NEW gain \in Nat, Pays(o, gain, gain),
         UNCHANGED <<routeVars, fallbackInitiated>>,
         frame' = {},
         \A rt \in route : ~rt.inCallback /\ rt.order # o
  PROVE  RouteFits' /\ PaymentsReceived' /\ route' \subseteq Route /\ alsoPaid' \in [Orders -> Nat]
<1>1. /\ TypeOK /\ RouteFits /\ PaymentsReceived /\ paid \in [Orders -> Nat]
      /\ outputBalance \in [Payees -> Nat] /\ alsoPaid \in [Orders -> Nat]
      /\ route \subseteq Route
  BY DEF IInv, TypeOK
<1>2. \A p \in Orders : PayeeOf[p] \in Payees
  BY OrderAssumption
<1>3. /\ paid[o] + gain <= outputBalance[PayeeOf[o]] + gain
      /\ alsoPaid'[o] = alsoPaid[o] + (gain - gain)
      /\ gain \in 0..gain
  BY <1>1, <1>2 DEF PaymentsReceived
<1>4. /\ PaymentsReceived'
      /\ BroughtByItself(o)' = BroughtByItself(o) + gain
      /\ BroughtByItself(o) \in Nat
      /\ \A p \in Orders : OthersPaid(p) => OthersPaid(p)'
  BY <1>1, <1>3, PaymentsGrow
<1>5. ASSUME NEW rt \in route
      PROVE  /\ paid'[rt.order] <= rt.balBefore
             /\ rt.balBefore <= outputBalance'[PayeeOf[rt.order]]
             /\ rt.balBefore < outputBalance'[PayeeOf[rt.order]] => OthersPaid(rt.order)'
  <2> DEFINE p == rt.order
  <2>1. p \in Orders /\ p # o /\ rt.balBefore \in Nat
    BY <1>1 DEF Route
  <2>2. /\ paid[p] <= rt.balBefore /\ rt.balBefore <= outputBalance[PayeeOf[p]]
        /\ rt.balBefore < outputBalance[PayeeOf[p]] => OthersPaid(p)
    BY <1>1 DEF RouteFits
  <2> HIDE DEF p
  <2>3. paid'[p] = paid[p] /\ paid[p] \in Nat
    BY <1>1, <2>1 DEF Pays
  <2>4. CASE gain = 0 \/ PayeeOf[p] # PayeeOf[o]
    <3>1. outputBalance'[PayeeOf[p]] = outputBalance[PayeeOf[p]]
      BY <1>1, <1>2, <2>1, <2>4 DEF Pays
    <3> QED BY <1>4, <2>1, <2>2, <2>3, <3>1 DEF p
  <2>5. CASE gain > 0 /\ PayeeOf[p] = PayeeOf[o]
    <3>1. outputBalance'[PayeeOf[p]] = outputBalance[PayeeOf[p]] + gain
          /\ outputBalance[PayeeOf[p]] \in Nat
      BY <1>1, <1>2, <2>5 DEF Pays
    <3>2. BroughtByItself(o)' > 0
      BY <1>4, <2>5
    <3>3. OthersPaid(p)'
      BY <2>1, <2>5, <3>2 DEF OthersPaid
    <3> QED BY <2>1, <2>2, <2>3, <3>1, <3>3 DEF p
  <2> QED BY <2>4, <2>5
<1>6. RouteFits'
  BY <1>1, <1>5 DEF RouteFits
<1> QED BY <1>1, <1>4, <1>6

(* The output leg pays the swapper a natural amount, and the last of an    *)
(* order only together with the signed minimum.                            *)
LEMMA PayOutputEffect ==
  ASSUME IInv, NEW o \in Orders, NEW f \in Fillers, NEW fillAmount \in Nat,
         NEW currentRemaining \in Nat, NEW newRemaining \in Nat, NEW output \in Nat,
         reg[o][f].registered,
         PayOutput(o, f, fillAmount, currentRemaining, newRemaining, output)
  PROVE  /\ \E gain \in Nat : Pays(o, gain, gain)
         /\ newRemaining = 0 => paid'[o] >= MinOutput[o]
         /\ onFillSuccess(o, f, fillAmount, currentRemaining)
         /\ reg' \in [Orders -> [Fillers -> Registration]]
         /\ TermsKept
         /\ pendingReturns' \in [Accounts -> Nat]
         /\ balance' = balance /\ config' = config
<1>1. PICK fee \in Fees :
        LET received == output - fee
        IN  /\ fee <= output
            /\ paid' = [paid EXCEPT ![o] = @ + received]
            /\ outputBalance' = [outputBalance EXCEPT ![PayeeOf[o]] = @ + received]
            /\ newRemaining = 0 => paid[o] + received >= MinOutput[o]
            /\ onFillSuccess(o, f, fillAmount, currentRemaining)
  BY DEF PayOutput
<1>2. fee \in Nat /\ output - fee \in Nat
  BY <1>1, OrderAssumption
<1>3. TypeOK /\ RowFits(reg[o][f].refundRow, reg[o][f].ratioSnapshot)
  BY DEF IInv, RegistrationsFit
<1>4. /\ reg' \in [Orders -> [Fillers -> Registration]] /\ TermsKept
      /\ pendingReturns' \in [Accounts -> Nat]
      /\ balance' = balance /\ config' = config
  BY <1>1, <1>3, FillEffect
<1>5. Pays(o, output - fee, output - fee)
  BY <1>1, <1>2, <1>3, PaysEffect
<1>6. newRemaining = 0 => paid'[o] >= MinOutput[o]
  BY <1>1, <1>5 DEF Pays
<1> QED BY <1>1, <1>2, <1>4, <1>5, <1>6

-----------------------------------------------------------------------------
(* One lemma per action: it preserves the invariant.                       *)

LEMMA InitIInv == Init => IInv
<1> SUFFICES ASSUME Init PROVE IInv
  OBVIOUS
<1> USE DEF Init, ReactorInit, AuctionInit
<1>1. TypeOK
  <2>1. Unregistered \in Registration
    BY DEF Unregistered, Registration
  <2>2. \A o \in Orders : 0 \in 0..(U256 - 1)
    BY OrderAssumption
  <2>3. raw \in [Orders -> 0..(U256 - 1)]
    BY <2>2
  <2>4. frame \subseteq Frame /\ route \subseteq Route
    OBVIOUS
  <2> QED BY <2>1, <2>3, <2>4 DEF TypeOK
<1>2. RegistrationsFit /\ FrameFits
  BY DEF RegistrationsFit, FrameFits, Unregistered
<1>3. \A o \in Orders : remainingInput(o) = InputAmount[o] /\ InputAmount[o] \in Nat \ {0}
  BY OrderAssumption DEF remainingInput, Unpack
<1>4. RemainingFits /\ InputConserved /\ FloorPaidOrPending
  BY <1>3 DEF RemainingFits, InputConserved, FloorPaidOrPending
<1>5. CursorOnCurve
  BY DEF CursorOnCurve, isNewOrder
<1>6. RouteFits /\ PaymentsReceived
  BY OrderAssumption DEF RouteFits, PaymentsReceived
<1> QED BY <1>1, <1>2, <1>4, <1>5, <1>6 DEF IInv

(* The reactor is left alone and every registration keeps its terms.       *)
LEMMA ReactorUntouched ==
  ASSUME IInv, TypeOK', UNCHANGED <<reactorVars, routeVars>>, TermsKept
  PROVE  IInv'
<1> USE DEF reactorVars, fillVars, switchVars
<1>1. RegistrationsFit'
  BY DEF IInv, RegistrationsFit, TermsKept, SameTerms
<1>2. \A o \in Orders : remainingInput(o)' = remainingInput(o)
  BY DEF remainingInput
<1>3. RemainingFits' /\ InputConserved' /\ FloorPaidOrPending'
  BY <1>2 DEF IInv, RemainingFits, InputConserved, FloorPaidOrPending
<1>4. FrameFits'
  <2>1. \A fr \in frame : fr.order \in Orders /\ fr.filler \in Fillers
    BY DEF IInv, TypeOK, Frame
  <2> QED BY <1>2, <2>1 DEF IInv, FrameFits, TermsKept, SameTerms
<1>5. CursorOnCurve'
  BY DEF IInv, CursorOnCurve, isNewOrder, CurveAfter
<1>6. RouteFits' /\ PaymentsReceived'
  <2>1. PaymentsReceived' /\ \A p \in Orders : OthersPaid(p) => OthersPaid(p)'
    BY NothingPaid DEF IInv
  <2>2. \A rt \in route : rt.order \in Orders
    BY DEF IInv, TypeOK, Route
  <2> QED BY <2>1, <2>2 DEF IInv, RouteFits
<1> QED BY <1>1, <1>3, <1>4, <1>5, <1>6 DEF IInv

LEMMA SlashPreserves ==
  ASSUME IInv, NEW o \in Orders, NEW f \in Fillers, NEW caller \in Accounts,
         slash(o, f, caller), UNCHANGED fallbackVars
  PROVE  IInv'
<1>1. TypeOK /\ slashStake(o, f, caller) /\ UNCHANGED reactorVars
  BY DEF IInv, slash
<1>2. /\ reg' \in [Orders -> [Fillers -> Registration]] /\ TermsKept
      /\ pendingReturns' \in [Accounts -> Nat]
  BY <1>1, SlashEffect
<1>3. balance' = balance /\ config' = config
  BY <1>1 DEF slashStake
<1>4. TypeOK'
  BY <1>1, <1>2, <1>3 DEF TypeOK, reactorVars, fillVars, switchVars
<1> QED BY <1>1, <1>2, <1>4, ReactorUntouched

LEMMA ReleasePreserves ==
  ASSUME IInv, NEW o \in Orders, NEW f \in Fillers,
         releaseRegistration(o, f), UNCHANGED fallbackVars
  PROVE  IInv'
<1>1. TypeOK /\ releaseStake(o, f) /\ UNCHANGED reactorVars
  BY DEF IInv, releaseRegistration
<1>2. /\ reg' \in [Orders -> [Fillers -> Registration]] /\ TermsKept
      /\ pendingReturns' \in [Accounts -> Nat]
  BY <1>1, ReleaseEffect
<1>3. balance' = balance /\ config' = config
  BY <1>1 DEF releaseStake
<1>4. TypeOK'
  BY <1>1, <1>2, <1>3 DEF TypeOK, reactorVars, fillVars, switchVars
<1> QED BY <1>1, <1>2, <1>4, ReactorUntouched

LEMMA WithdrawPreserves ==
  ASSUME IInv, NEW a \in Accounts, Withdraw(a), UNCHANGED fallbackVars
  PROVE  IInv'
<1>1. TypeOK /\ withdraw(a) /\ UNCHANGED reactorVars
  BY DEF IInv, Withdraw
<1>2. TermsKept
  BY <1>1 DEF withdraw, TermsKept, SameTerms
<1>3. pendingReturns' \in [Accounts -> Nat] /\ balance' \in Nat
  BY <1>1 DEF withdraw, TypeOK
<1>4. TypeOK'
  BY <1>1, <1>3 DEF TypeOK, withdraw, reactorVars, fillVars, switchVars
<1> QED BY <1>1, <1>2, <1>4, ReactorUntouched

LEMMA ReconfigurePreserves ==
  ASSUME IInv, NEW c \in Configs, Reconfigure(c), UNCHANGED fallbackVars
  PROVE  IInv'
<1>1. TypeOK /\ reconfigure(c) /\ UNCHANGED reactorVars
  BY DEF IInv, Reconfigure
<1>2. TermsKept
  BY <1>1 DEF reconfigure, TermsKept, SameTerms
<1>3. TypeOK'
  BY <1>1 DEF TypeOK, reconfigure, reactorVars, fillVars, switchVars
<1> QED BY <1>1, <1>2, <1>3, ReactorUntouched

LEMMA RouterPreserves ==
  ASSUME IInv, NEW r \in Routers, NEW allowed \in BOOLEAN, setRouterAllowed(r, allowed)
  PROVE  IInv'
<1>1. TypeOK /\ UNCHANGED <<reactorVars, auctionVars, routeVars>>
  BY DEF IInv, setRouterAllowed
<1>2. TermsKept
  BY <1>1 DEF auctionVars, TermsKept, SameTerms
<1>3. allowedRouters' \subseteq Routers
  BY <1>1 DEF setRouterAllowed, TypeOK
<1>4. TypeOK'
  BY <1>1, <1>3 DEF TypeOK, auctionVars, reactorVars, fillVars, switchVars
<1> QED BY <1>1, <1>2, <1>4, ReactorUntouched

(* Nothing is filled: time may pass, orders may become known or die.       *)
LEMMA FillsUntouched ==
  ASSUME IInv, TypeOK', RegistrationsFit', FrameFits',
         UNCHANGED <<fillVars, payVars, routeVars, fallbackInitiated, frame>>,
         block' >= block
  PROVE  IInv'
<1> USE DEF fillVars
<1>1. \A o \in Orders : remainingInput(o)' = remainingInput(o)
  BY DEF remainingInput
<1>2. RemainingFits' /\ InputConserved' /\ FloorPaidOrPending'
  BY <1>1 DEF IInv, RemainingFits, InputConserved, FloorPaidOrPending
<1>3. CursorOnCurve'
  <2>1. \A o \in Orders : cursor[o].resetAt <= block => cursor[o].resetAt <= block'
    BY DEF IInv, TypeOK
  <2> QED BY <2>1 DEF IInv, CursorOnCurve, isNewOrder, CurveAfter
<1>4. RouteFits' /\ PaymentsReceived'
  <2>1. PaymentsReceived' /\ \A p \in Orders : OthersPaid(p) => OthersPaid(p)'
    BY NothingPaid DEF IInv
  <2>2. \A rt \in route : rt.order \in Orders
    BY DEF IInv, TypeOK, Route
  <2> QED BY <2>1, <2>2 DEF IInv, RouteFits
<1> QED BY <1>2, <1>3, <1>4 DEF IInv

LEMMA SwitchesPreserve ==
  ASSUME IInv, TypeOK', UNCHANGED <<fillVars, payVars, routeVars, fallbackInitiated, frame>>,
         UNCHANGED <<recorded, auctionVars>>, block' >= block
  PROVE  IInv'
<1>1. RegistrationsFit'
  BY DEF IInv, RegistrationsFit, auctionVars
<1>2. \A o \in Orders : remainingInput(o)' = remainingInput(o)
  BY DEF remainingInput, fillVars
<1>3. FrameFits'
  <2>1. \A fr \in frame : fr.order \in Orders
    BY DEF IInv, TypeOK, Frame
  <2> QED BY <1>2, <2>1 DEF IInv, FrameFits, auctionVars
<1> QED BY <1>1, <1>3, FillsUntouched

LEMMA NextBlockPreserves ==
  ASSUME IInv, NextBlock, UNCHANGED fallbackVars
  PROVE  IInv'
<1>1. TypeOK'
  BY DEF IInv, TypeOK, NextBlock, fillVars, switchVars, auctionVars
<1>2. block' >= block
  BY DEF IInv, TypeOK, NextBlock
<1> QED BY <1>1, <1>2, SwitchesPreserve DEF NextBlock, switchVars

LEMMA CancelPreserves ==
  ASSUME IInv, NEW o \in Orders, cancelOrder(o), UNCHANGED fallbackVars
  PROVE  IInv'
<1>1. TypeOK'
  BY DEF IInv, TypeOK, cancelOrder, fillVars, auctionVars
<1>2. block' >= block
  BY DEF IInv, TypeOK, cancelOrder
<1> QED BY <1>1, <1>2, SwitchesPreserve DEF cancelOrder

LEMMA InvalidatePreserves ==
  ASSUME IInv, NEW n \in Nonces, invalidateNonce(n), UNCHANGED fallbackVars
  PROVE  IInv'
<1>1. TypeOK'
  BY DEF IInv, TypeOK, invalidateNonce, fillVars, auctionVars
<1>2. block' >= block
  BY DEF IInv, TypeOK, invalidateNonce
<1> QED BY <1>1, <1>2, SwitchesPreserve DEF invalidateNonce

LEMMA RegisterRegisters ==
  ASSUME TypeOK, NEW o \in Orders, NEW f \in Fillers, NEW fillAmount \in Nat,
         Register(o, f, fillAmount)
  PROVE  InputAmount[o] < U128 /\ \E excess \in Nat : Commits(o, f, fillAmount, excess)
<1>1. PICK rate \in OracleRates, excess \in Excesses :
        RegisterStake(o, f, fillAmount, InputAmount[o], Deadline[o] - block,
                      fillAmount * rate, excess)
  BY DEF Register
<1> DEFINE left == Deadline[o] - block
           notional == fillAmount * rate
<1>2. fillAmount \in Nat /\ rate \in Nat /\ excess \in Nat
      /\ InputAmount[o] \in Nat /\ Deadline[o] \in Nat /\ block \in Nat
  BY OrderAssumption DEF TypeOK
<1>3. /\ left \in Int /\ notional \in Nat
      /\ RegisterStake(o, f, fillAmount, InputAmount[o], left, notional, excess)
  BY <1>1, <1>2
<1> HIDE DEF left, notional
<1>4. Commits(o, f, fillAmount, excess) /\ InputAmount[o] < U128
  BY <1>2, <1>3, RegisterStakeEffect
<1> QED BY <1>2, <1>4

LEMMA RegisterPreserves ==
  ASSUME IInv, NEW o \in Orders, NEW f \in Fillers, NEW fillAmount \in Nat,
         Register(o, f, fillAmount), UNCHANGED fallbackVars
  PROVE  IInv'
<1>1. TypeOK
  BY DEF IInv
<1>2. InputAmount[o] < U128 /\ \E excess \in Nat : Commits(o, f, fillAmount, excess)
  BY <1>1, RegisterRegisters
<1>3. /\ recorded' = recorded \cup {o} /\ frame = {}
      /\ UNCHANGED <<block, fillVars, payVars, fallbackInitiated, cancelled,
                     nonceInvalidated, frame>>
  BY DEF Register
<1>4. TypeOK'
  BY <1>1, <1>2, <1>3 DEF TypeOK, fillVars, Commits
<1>5. RegistrationsFit'
  <2> SUFFICES ASSUME NEW p \in Orders, NEW g \in Fillers, reg'[p][g].registered
               PROVE  /\ RowFits(reg'[p][g].refundRow, reg'[p][g].ratioSnapshot)
                      /\ p \in recorded' /\ InputAmount[p] < U128
    BY DEF RegistrationsFit
  <2>1. CASE p = o /\ g = f
    BY <1>2, <1>3, <2>1 DEF Commits
  <2>2. CASE ~(p = o /\ g = f)
    BY <1>2, <1>3, <2>2 DEF IInv, RegistrationsFit, Commits
  <2> QED BY <2>1, <2>2
<1>6. FrameFits'
  BY <1>3 DEF FrameFits
<1>7. block' >= block
  BY <1>1, <1>3 DEF TypeOK
<1> QED BY <1>3, <1>4, <1>5, <1>6, <1>7, FillsUntouched

(* Terms are kept, so registrations still fit.                             *)
LEMMA TermsKeptFit ==
  ASSUME RegistrationsFit, TermsKept, recorded' = recorded
  PROVE  RegistrationsFit'
BY DEF RegistrationsFit, TermsKept, SameTerms

LEMMA ExecutePreserves ==
  ASSUME IInv, NEW o \in Orders, NEW f \in Fillers, NEW fillAmount \in Nat,
         executePartialChunk(o, f, fillAmount), UNCHANGED fallbackVars
  PROVE  IInv'
<1> DEFINE left   == remainingInput(o) - fillAmount
           output == OutputAmount(o, fillAmount)
<1>1. /\ TypeOK /\ RegistrationsFit /\ FloorPaidOrPending
      /\ fillAmount \in Nat /\ frame = {}
  BY OrderAssumption DEF IInv, executePartialChunk, FillChecks
<1>2. /\ FillChecks(o, f, fillAmount) /\ TakeInput(o, fillAmount)
      /\ PayOutput(o, f, fillAmount, remainingInput(o), left, output)
      /\ UNCHANGED <<block, switchVars, frame>>
  BY DEF executePartialChunk
<1>3. /\ reg[o][f].registered /\ remainingInput(o) \in Nat /\ left \in Nat
  BY <1>1, <1>2, FillChecksEffect
<1>4. output \in Nat
  BY <1>1, OutputNat
<1>5. UNCHANGED <<block, fallbackInitiated>>
  BY <1>2 DEF switchVars
<1>6. /\ raw' \in [Orders -> 0..(U256 - 1)]
      /\ cursor' \in [Orders -> [price : Nat, resetAt : Nat]]
      /\ pulled' \in [Orders -> Nat]
      /\ openedAt' \in [Orders -> Nat]
      /\ remainingInput(o)' = left
      /\ \A p \in Orders : p # o => remainingInput(p)' = remainingInput(p)
      /\ RemainingFits' /\ InputConserved' /\ CursorOnCurve'
  BY <1>1, <1>2, <1>5, TakeInputEffect
<1> HIDE DEF left, output
<1>7. /\ \E gain \in Nat : Pays(o, gain, gain)
      /\ left = 0 => paid'[o] >= MinOutput[o]
      /\ reg' \in [Orders -> [Fillers -> Registration]]
      /\ TermsKept
      /\ pendingReturns' \in [Accounts -> Nat]
      /\ balance' = balance /\ config' = config
  BY <1>1, <1>2, <1>3, <1>4, PayOutputEffect
<1>7a. PICK gain \in Nat : Pays(o, gain, gain)
  BY <1>7
<1>7b. /\ RouteFits' /\ PaymentsReceived'
       /\ route' \subseteq Route /\ alsoPaid' \in [Orders -> Nat]
  <2>1. \A rt \in route : ~rt.inCallback /\ rt.order # o
    BY <1>1, <1>2 DEF IInv, RouteFits, FillChecks
  <2> QED BY <1>1, <1>2, <1>7a, <2>1, FillBesideRoute DEF switchVars
<1>8. TypeOK'
  BY <1>1, <1>2, <1>6, <1>7, <1>7a, <1>7b DEF TypeOK, switchVars, Pays
<1>9. RegistrationsFit'
  BY <1>1, <1>2, <1>7, TermsKeptFit DEF switchVars
<1>10. FrameFits'
  BY <1>1, <1>2 DEF FrameFits
<1>11. FloorPaidOrPending'
  <2> SUFFICES ASSUME NEW p \in Orders
               PROVE  \/ remainingInput(p)' > 0 \/ paid'[p] >= MinOutput[p]
                      \/ \E rt \in route' : rt.order = p
    BY DEF FloorPaidOrPending
  <2>1. CASE p = o
    BY <1>3, <1>6, <1>7, <2>1
  <2>2. CASE p # o
    BY <1>1, <1>6, <1>7a, <2>2 DEF FloorPaidOrPending, Pays
  <2> QED BY <2>1, <2>2
<1> QED BY <1>6, <1>8, <1>9, <1>10, <1>11, <1>7b DEF IInv

LEMMA EnterPreserves ==
  ASSUME IInv, NEW o \in Orders, NEW f \in Fillers, NEW fillAmount \in FillAmounts,
         EnterCallback(o, f, fillAmount), UNCHANGED fallbackVars
  PROVE  IInv'
<1> DEFINE left == remainingInput(o) - fillAmount
           fr   == [order |-> o, filler |-> f, fill |-> fillAmount,
                    currentRemaining |-> remainingInput(o), newRemaining |-> left,
                    output |-> OutputAmount(o, fillAmount)]
<1>1. /\ TypeOK /\ RegistrationsFit /\ FloorPaidOrPending
      /\ fillAmount \in Nat /\ frame = {}
  BY OrderAssumption DEF IInv, EnterCallback, FillChecks
<1>2. /\ FillChecks(o, f, fillAmount) /\ TakeInput(o, fillAmount)
      /\ frame' = {fr}
      /\ UNCHANGED <<block, payVars, switchVars, auctionVars>>
  BY DEF EnterCallback
<1>3. /\ reg[o][f].registered /\ remainingInput(o) \in Nat /\ left \in Nat
      /\ fillAmount <= reg[o][f].fillAmount
  BY <1>1, <1>2, FillChecksEffect
<1>4. OutputAmount(o, fillAmount) \in Nat
  BY <1>1, OutputNat
<1>5. UNCHANGED <<block, fallbackInitiated>>
  BY <1>2 DEF switchVars
<1>6. /\ raw' \in [Orders -> 0..(U256 - 1)]
      /\ cursor' \in [Orders -> [price : Nat, resetAt : Nat]]
      /\ pulled' \in [Orders -> Nat]
      /\ openedAt' \in [Orders -> Nat]
      /\ remainingInput(o)' = left
      /\ \A p \in Orders : p # o => remainingInput(p)' = remainingInput(p)
      /\ RemainingFits' /\ InputConserved' /\ CursorOnCurve'
  BY <1>1, <1>2, <1>5, TakeInputEffect
<1>7. remainingInput(o) = left + fillAmount
  BY <1>1, <1>3
<1>8. fr \in Frame
  BY <1>1, <1>3, <1>4 DEF Frame
<1>9. TypeOK'
  <2>1. frame' \subseteq Frame
    BY <1>2, <1>8
  <2> QED BY <1>1, <1>2, <1>6, <2>1 DEF TypeOK, switchVars, auctionVars
<1>10. RegistrationsFit'
  BY <1>1, <1>2 DEF RegistrationsFit, switchVars, auctionVars
<1>11. FrameFits'
  BY <1>2, <1>3, <1>6, <1>7 DEF FrameFits, auctionVars
<1>12. FloorPaidOrPending'
  <2> SUFFICES ASSUME NEW p \in Orders
               PROVE  \/ remainingInput(p)' > 0 \/ paid'[p] >= MinOutput[p]
                      \/ \E g \in frame' : g.order = p /\ g.newRemaining = 0
                      \/ \E rt \in route' : rt.order = p
    BY DEF FloorPaidOrPending
  <2>1. CASE p = o
    BY <1>2, <1>3, <1>6, <2>1
  <2>2. CASE p # o
    BY <1>1, <1>2, <1>6, <2>2 DEF FloorPaidOrPending
  <2> QED BY <2>1, <2>2
<1>13. RouteFits' /\ PaymentsReceived'
  <2>1. PaymentsReceived' /\ \A p \in Orders : OthersPaid(p) => OthersPaid(p)'
    BY <1>2, NothingPaid DEF IInv, switchVars
  <2>2. \A rt \in route : rt.order \in Orders /\ ~rt.inCallback /\ rt.order # o
    BY <1>1, <1>2 DEF IInv, TypeOK, Route, RouteFits, FillChecks
  <2> QED BY <1>2, <2>1, <2>2 DEF IInv, RouteFits, switchVars
<1> QED BY <1>6, <1>9, <1>10, <1>11, <1>12, <1>13 DEF IInv

LEMMA LeavePreserves ==
  ASSUME IInv, LeaveCallback, UNCHANGED fallbackVars, \A rt \in route : ~rt.inCallback
  PROVE  IInv'
<1>1. PICK fr \in frame :
        PayOutput(fr.order, fr.filler, fr.fill, fr.currentRemaining,
                  fr.newRemaining, fr.output)
  BY DEF LeaveCallback
<1>2. /\ TypeOK /\ RegistrationsFit /\ FrameFits /\ FloorPaidOrPending
      /\ frame' = {} /\ UNCHANGED <<block, fillVars, switchVars>>
  BY DEF IInv, LeaveCallback
<1> DEFINE o == fr.order
<1>3. /\ o \in Orders /\ fr.filler \in Fillers /\ fr.fill \in Nat
      /\ fr.currentRemaining \in Nat /\ fr.newRemaining \in Nat /\ fr.output \in Nat
  BY <1>2 DEF TypeOK, Frame
<1>4. /\ reg[o][fr.filler].registered
      /\ fallbackInitiated[o] \/ remainingInput(o) = fr.newRemaining
      /\ \A other \in frame : other = fr
  BY <1>2 DEF FrameFits
<1>5. /\ \E gain \in Nat : Pays(o, gain, gain)
      /\ fr.newRemaining = 0 => paid'[o] >= MinOutput[o]
      /\ reg' \in [Orders -> [Fillers -> Registration]]
      /\ TermsKept
      /\ pendingReturns' \in [Accounts -> Nat]
      /\ balance' = balance /\ config' = config
  BY <1>1, <1>3, <1>4, PayOutputEffect
<1>5a. PICK gain \in Nat : Pays(o, gain, gain)
  BY <1>5
<1>5b. \A rt \in route : ~rt.inCallback /\ rt.order # o
  BY DEF IInv, RouteFits
<1> HIDE DEF o
<1>5c. /\ RouteFits' /\ PaymentsReceived'
       /\ route' \subseteq Route /\ alsoPaid' \in [Orders -> Nat]
  BY <1>2, <1>3, <1>5a, <1>5b, FillBesideRoute DEF switchVars, o
<1>6. TypeOK'
  BY <1>2, <1>5, <1>5a, <1>5c DEF TypeOK, fillVars, switchVars, Pays
<1>7. RegistrationsFit'
  BY <1>2, <1>5, TermsKeptFit DEF switchVars
<1>8. FrameFits'
  BY <1>2 DEF FrameFits
<1>9. \A p \in Orders : remainingInput(p)' = remainingInput(p)
  BY <1>2 DEF remainingInput, fillVars
<1>10. RemainingFits' /\ InputConserved'
  BY <1>2, <1>9 DEF IInv, RemainingFits, InputConserved, fillVars, switchVars
<1>11. CursorOnCurve'
  BY <1>2 DEF IInv, CursorOnCurve, isNewOrder, CurveAfter, fillVars, switchVars
<1>12. FloorPaidOrPending'
  <2> SUFFICES ASSUME NEW p \in Orders, ~(remainingInput(p) > 0), ~\E rt \in route : rt.order = p
               PROVE  paid'[p] >= MinOutput[p]
    BY <1>9 DEF FloorPaidOrPending
  <2>1. CASE p = o /\ fr.newRemaining = 0
    BY <1>5, <2>1
  <2>2. CASE ~(p = o /\ fr.newRemaining = 0)
    <3>1. paid[p] >= MinOutput[p]
      BY <1>2, <1>4, <2>2 DEF FloorPaidOrPending, o
    <3>2. paid[p] \in Nat /\ paid'[p] \in Nat /\ MinOutput[p] \in Nat
      BY <1>2, <1>5a, OrderAssumption DEF TypeOK, Pays
    <3>3. paid'[p] >= paid[p]
      BY <1>3, <1>5a, <3>2 DEF o, Pays
    <3> QED BY <3>1, <3>2, <3>3
  <2> QED BY <2>1, <2>2
<1> QED BY <1>6, <1>7, <1>8, <1>10, <1>11, <1>12, <1>5c DEF IInv

(* executeFallback up to its route: the order is over, its remaining input *)
(* is with the executor, and every other order is as it was.               *)
LEMMA StartFallbackEffect ==
  ASSUME IInv, NEW o \in Orders, NEW r \in Routers, StartFallback(o, r)
  PROVE  /\ raw' \in [Orders -> 0..(U256 - 1)] /\ pulled' \in [Orders -> Nat]
         /\ fallbackInitiated' \in [Orders -> BOOLEAN] /\ fallbackInitiated'[o]
         /\ \A p \in Orders : fallbackInitiated[p] => fallbackInitiated'[p]
         /\ route = {} /\ remainingInput(o) \in Nat
         /\ remainingInput(o)' = 0
         /\ \A p \in Orders : p # o => remainingInput(p)' = remainingInput(p)
         /\ UNCHANGED <<block, cursor, openedAt, cancelled, nonceInvalidated, recorded,
                        frame, auctionVars, allowedRouters>>
         /\ RegistrationsFit' /\ RemainingFits' /\ InputConserved'
         /\ FrameFits' /\ CursorOnCurve'
<1>2. /\ TypeOK /\ RegistrationsFit /\ RemainingFits /\ InputConserved /\ FrameFits
      /\ CursorOnCurve /\ route = {}
      /\ remainingInput(o) > 0
      /\ raw' = [raw EXCEPT ![o] = fullyFilled]
      /\ pulled' = [pulled EXCEPT ![o] = @ + remainingInput(o)]
      /\ fallbackInitiated' = [fallbackInitiated EXCEPT ![o] = TRUE]
      /\ UNCHANGED <<block, cursor, openedAt, cancelled, nonceInvalidated, recorded,
                     frame, auctionVars, allowedRouters>>
  BY DEF IInv, StartFallback, FallbackChecks, markFallbackInitiated
<1>3. /\ raw \in [Orders -> 0..(U256 - 1)] /\ pulled \in [Orders -> Nat]
      /\ fallbackInitiated \in [Orders -> BOOLEAN]
      /\ remainingInput(o) \in Nat
  BY <1>2, RemainingNat DEF TypeOK
<1>5. /\ fullyFilled \in 0..(U256 - 1) /\ fullyFilled # 0
      /\ Unpack(fullyFilled, InputAmount[o]) = 0
  BY OrderAssumption DEF fullyFilled, Unpack
<1> HIDE DEF fullyFilled
<1>6. /\ raw' \in [Orders -> 0..(U256 - 1)] /\ raw'[o] = fullyFilled
      /\ \A p \in Orders : p # o => raw'[p] = raw[p]
  BY <1>2, <1>3, <1>5
<1>7. /\ remainingInput(o)' = 0
      /\ \A p \in Orders : p # o => remainingInput(p)' = remainingInput(p)
  BY <1>5, <1>6 DEF remainingInput
<1>8. /\ pulled' \in [Orders -> Nat] /\ pulled'[o] = pulled[o] + remainingInput(o)
      /\ \A p \in Orders : p # o => pulled'[p] = pulled[p]
  BY <1>2, <1>3
<1>9. /\ fallbackInitiated' \in [Orders -> BOOLEAN] /\ fallbackInitiated'[o]
      /\ \A p \in Orders : p # o => fallbackInitiated'[p] = fallbackInitiated[p]
      /\ \A p \in Orders : fallbackInitiated[p] => fallbackInitiated'[p]
  BY <1>2, <1>3
<1>11. RegistrationsFit'
  BY <1>2 DEF RegistrationsFit, auctionVars
<1>12. RemainingFits'
  BY <1>2, <1>7, <1>9, OrderAssumption DEF RemainingFits
<1>13. InputConserved'
  BY <1>2, <1>3, <1>7, <1>8, OrderAssumption DEF InputConserved
<1>14. FrameFits'
  <2>1. \A fr \in frame : fr.order \in Orders
    BY <1>2 DEF TypeOK, Frame
  <2> QED BY <1>2, <1>7, <1>9, <2>1 DEF FrameFits, auctionVars
<1>15. CursorOnCurve'
  BY <1>2, <1>6, <1>9 DEF CursorOnCurve, CurveAfter
<1> QED BY <1>2, <1>3, <1>6, <1>7, <1>8, <1>9, <1>11, <1>12, <1>13, <1>14, <1>15

LEMMA FallbackPreserves ==
  ASSUME IInv, NEW o \in Orders, NEW r \in Routers, executeFallback(o, r)
  PROVE  IInv'
<1>1. PICK output \in RouterOutputs :
        /\ AcceptOutput(o, remainingInput(o), output)
        /\ outputBalance' = [outputBalance EXCEPT ![PayeeOf[o]] = @ + output]
  BY DEF executeFallback
<1>2. /\ TypeOK /\ PaymentsReceived /\ FloorPaidOrPending /\ output \in Nat
      /\ StartFallback(o, r) /\ UNCHANGED routeVars
      /\ paid' = [paid EXCEPT ![o] = @ + output]
      /\ paid[o] + output >= MinOutput[o]
  BY <1>1, FallbackAssumption DEF IInv, executeFallback, AcceptOutput, recordFallbackOutput
<1>3. /\ raw' \in [Orders -> 0..(U256 - 1)] /\ pulled' \in [Orders -> Nat]
      /\ fallbackInitiated' \in [Orders -> BOOLEAN]
      /\ \A p \in Orders : fallbackInitiated[p] => fallbackInitiated'[p]
      /\ route = {}
      /\ \A p \in Orders : p # o => remainingInput(p)' = remainingInput(p)
      /\ UNCHANGED <<block, cursor, openedAt, cancelled, nonceInvalidated, recorded,
                     frame, auctionVars, allowedRouters>>
      /\ RegistrationsFit' /\ RemainingFits' /\ InputConserved'
      /\ FrameFits' /\ CursorOnCurve'
  BY <1>2, StartFallbackEffect
<1>4. Pays(o, output, output)
  BY <1>1, <1>2, PaysEffect
<1>5. PaymentsReceived'
  <2>1. /\ paid \in [Orders -> Nat] /\ outputBalance \in [Payees -> Nat]
        /\ alsoPaid \in [Orders -> Nat] /\ PayeeOf[o] \in Payees
    BY <1>2, OrderAssumption DEF TypeOK
  <2>2. paid[o] + output <= outputBalance[PayeeOf[o]] + output /\ output \in 0..output
        /\ alsoPaid'[o] = alsoPaid[o] + (output - output)
    BY <1>2, <2>1 DEF PaymentsReceived
  <2> QED BY <1>2, <1>3, <1>4, <2>1, <2>2, PaymentsGrow
<1>6. RouteFits'
  BY <1>2, <1>3 DEF RouteFits
<1>7. TypeOK'
  BY <1>2, <1>3, <1>4 DEF TypeOK, auctionVars, Pays
<1>8. FloorPaidOrPending'
  <2> SUFFICES ASSUME NEW p \in Orders
               PROVE  \/ remainingInput(p)' > 0 \/ paid'[p] >= MinOutput[p]
                      \/ \E fr \in frame' : fr.order = p /\ fr.newRemaining = 0
                      \/ \E rt \in route' : rt.order = p
    BY DEF FloorPaidOrPending
  <2>1. CASE p = o
    BY <1>2, <1>4, <2>1 DEF Pays
  <2>2. CASE p # o
    BY <1>2, <1>3, <1>4, <2>2 DEF FloorPaidOrPending, Pays
  <2> QED BY <2>1, <2>2
<1> QED BY <1>3, <1>5, <1>6, <1>7, <1>8 DEF IInv

LEMMA EnterRoutePreserves ==
  ASSUME IInv, NEW o \in Orders, NEW r \in Routers, EnterRoute(o, r)
  PROVE  IInv'
<1> DEFINE open == [order |-> o, remaining |-> remainingInput(o),
                    balBefore |-> outputBalance[PayeeOf[o]], inCallback |-> frame # {}]
<1>1. /\ TypeOK /\ PaymentsReceived /\ FloorPaidOrPending
      /\ StartFallback(o, r) /\ UNCHANGED <<payVars, alsoPaid>> /\ route' = {open}
      /\ FallbackChecks(o, r)
  BY DEF IInv, EnterRoute, StartFallback
<1>2. /\ raw' \in [Orders -> 0..(U256 - 1)] /\ pulled' \in [Orders -> Nat]
      /\ fallbackInitiated' \in [Orders -> BOOLEAN] /\ fallbackInitiated'[o]
      /\ \A p \in Orders : fallbackInitiated[p] => fallbackInitiated'[p]
      /\ remainingInput(o) \in Nat
      /\ \A p \in Orders : p # o => remainingInput(p)' = remainingInput(p)
      /\ UNCHANGED <<block, cursor, openedAt, cancelled, nonceInvalidated, recorded,
                     frame, auctionVars, allowedRouters>>
      /\ RegistrationsFit' /\ RemainingFits' /\ InputConserved'
      /\ FrameFits' /\ CursorOnCurve'
  BY <1>1, StartFallbackEffect
<1>3. outputBalance[PayeeOf[o]] \in Nat
  BY <1>1, OrderAssumption DEF TypeOK
<1>4. open \in Route
  BY <1>2, <1>3 DEF Route
<1>5. PaymentsReceived'
  BY <1>1, <1>2, NothingPaid
<1>6. alsoPaid[o] = 0 /\ paid[o] <= outputBalance[PayeeOf[o]]
  <2>1. ~fallbackInitiated[o]
    <3>1. remainingInput(o) > 0
      BY <1>1 DEF FallbackChecks
    <3> QED BY <3>1 DEF IInv, RemainingFits
  <2>2. alsoPaid[o] \in Nat
    BY <1>1 DEF TypeOK
  <2> QED BY <1>1, <2>1, <2>2 DEF PaymentsReceived
<1>7. RouteFits'
  <2>1. /\ open.order = o /\ open.balBefore = outputBalance[PayeeOf[o]]
        /\ open.inCallback = (frame # {})
    OBVIOUS
  <2>2. /\ paid' = paid /\ alsoPaid' = alsoPaid /\ outputBalance' = outputBalance
        /\ frame' = frame
    BY <1>1, <1>2
  <2> HIDE DEF open
  <2>3. ASSUME NEW rt \in route'
        PROVE  /\ fallbackInitiated'[rt.order]
               /\ IF rt.inCallback THEN frame' # {} ELSE \A fr \in frame' : fr.order # rt.order
               /\ alsoPaid'[rt.order] = 0
               /\ paid'[rt.order] <= rt.balBefore
               /\ rt.balBefore = outputBalance'[PayeeOf[rt.order]]
    BY <1>1, <1>2, <1>6, <2>1, <2>2
  <2>4. outputBalance'[PayeeOf[o]] \in Nat
    BY <1>3, <2>2
  <2> QED BY <1>1, <2>1, <2>3, <2>4 DEF RouteFits
<1>8. TypeOK'
  BY <1>1, <1>2, <1>4 DEF TypeOK, auctionVars
<1>9. FloorPaidOrPending'
  <2> SUFFICES ASSUME NEW p \in Orders
               PROVE  \/ remainingInput(p)' > 0 \/ paid'[p] >= MinOutput[p]
                      \/ \E fr \in frame' : fr.order = p /\ fr.newRemaining = 0
                      \/ \E rt \in route' : rt.order = p
    BY DEF FloorPaidOrPending
  <2>1. CASE p = o
    BY <1>1, <2>1
  <2>2. CASE p # o
    <3>1. route = {}
      BY <1>1 DEF FallbackChecks
    <3> QED BY <1>1, <1>2, <2>2, <3>1 DEF FloorPaidOrPending
  <2> QED BY <2>1, <2>2
<1> QED BY <1>2, <1>5, <1>7, <1>8, <1>9 DEF IInv

(* What other orders paid while the route ran is credited on top of what   *)
(* the route brought; all of it has reached the swapper.                   *)
LEMMA LeaveRoutePreserves ==
  ASSUME IInv, LeaveRoute
  PROVE  IInv'
<1>1. PICK rt \in route, output \in RouterOutputs :
        LET p      == PayeeOf[rt.order]
            others == outputBalance[p] - rt.balBefore
        IN  /\ AcceptOutput(rt.order, rt.remaining, others + output)
            /\ outputBalance' = [outputBalance EXCEPT ![p] = @ + output]
            /\ alsoPaid' = [alsoPaid EXCEPT ![rt.order] = others]
  BY DEF LeaveRoute
<1> DEFINE o      == rt.order
           others == outputBalance[PayeeOf[o]] - rt.balBefore
           credit == others + output
<1>2. /\ TypeOK /\ PaymentsReceived /\ FloorPaidOrPending /\ RouteFits /\ output \in Nat
      /\ route' = {}
      /\ UNCHANGED <<block, fillVars, switchVars, frame, auctionVars, allowedRouters>>
      /\ paid' = [paid EXCEPT ![o] = @ + credit]
      /\ paid[o] + credit >= MinOutput[o]
      /\ alsoPaid' = [alsoPaid EXCEPT ![o] = others]
  BY <1>1, FallbackAssumption DEF IInv, LeaveRoute, AcceptOutput, recordFallbackOutput
<1>3. /\ o \in Orders /\ PayeeOf[o] \in Payees
      /\ rt.balBefore \in Nat /\ outputBalance[PayeeOf[o]] \in Nat /\ paid[o] \in Nat
  BY <1>2, OrderAssumption DEF TypeOK, Route
<1>4. /\ fallbackInitiated[o] /\ alsoPaid[o] = 0
      /\ paid[o] <= rt.balBefore /\ rt.balBefore <= outputBalance[PayeeOf[o]]
      /\ rt.balBefore < outputBalance[PayeeOf[o]] => OthersPaid(o)
      /\ \A other \in route : other = rt
  BY <1>2 DEF RouteFits
<1>5. /\ others \in Nat /\ credit \in Nat /\ output \in 0..credit /\ credit - output = others
      /\ paid[o] + credit <= outputBalance[PayeeOf[o]] + output
      /\ output < credit => OthersPaid(o)
  BY <1>2, <1>3, <1>4
<1>6. outputBalance' = [outputBalance EXCEPT ![PayeeOf[o]] = @ + output]
  BY <1>1
<1> HIDE DEF o, others, credit
<1>7. Pays(o, credit, output)
  BY <1>2, <1>3, <1>5, <1>6, PaysEffect
<1>8. alsoPaid \in [Orders -> Nat]
  BY <1>2 DEF TypeOK
<1>9. /\ alsoPaid' \in [Orders -> Nat] /\ alsoPaid'[o] = alsoPaid[o] + (credit - output)
      /\ \A p \in Orders : p # o => alsoPaid'[p] = alsoPaid[p]
  BY <1>2, <1>3, <1>4, <1>5, <1>8
<1>10. PaymentsReceived'
  BY <1>2, <1>3, <1>4, <1>5, <1>7, <1>9, PaymentsGrow DEF switchVars
<1>11. RouteFits'
  BY <1>2 DEF RouteFits
<1>12. TypeOK'
  BY <1>2, <1>7, <1>9 DEF TypeOK, auctionVars, fillVars, switchVars, Pays
<1>13. \A p \in Orders : remainingInput(p)' = remainingInput(p)
  BY <1>2 DEF remainingInput, fillVars
<1>14. RegistrationsFit' /\ RemainingFits' /\ InputConserved'
  BY <1>2, <1>13
     DEF IInv, RegistrationsFit, RemainingFits, InputConserved, fillVars, switchVars, auctionVars
<1>15. FrameFits' /\ CursorOnCurve'
  <2>1. \A fr \in frame : fr.order \in Orders
    BY <1>2 DEF TypeOK, Frame
  <2>2. FrameFits'
    BY <1>2, <1>13, <2>1 DEF IInv, FrameFits, switchVars, auctionVars
  <2> QED BY <1>2, <2>2 DEF IInv, CursorOnCurve, CurveAfter, isNewOrder, fillVars, switchVars
<1>16. FloorPaidOrPending'
  <2> SUFFICES ASSUME NEW p \in Orders
               PROVE  \/ remainingInput(p)' > 0 \/ paid'[p] >= MinOutput[p]
                      \/ \E fr \in frame' : fr.order = p /\ fr.newRemaining = 0
    BY DEF FloorPaidOrPending
  <2>1. CASE p = o
    BY <1>2, <1>7, <2>1 DEF Pays
  <2>2. CASE p # o
    <3>1. \A other \in route : other.order # p
      BY <1>4, <2>2 DEF o
    <3> QED BY <1>2, <1>7, <1>13, <2>2, <3>1 DEF FloorPaidOrPending, Pays
  <2> QED BY <2>1, <2>2
<1> QED BY <1>10, <1>11, <1>12, <1>14, <1>15, <1>16 DEF IInv

(* Every step of the system preserves the invariant.                       *)
LEMMA NextIInv == IInv /\ [Next]_vars => IInv'
<1> SUFFICES ASSUME IInv, [Next]_vars PROVE IInv'
  OBVIOUS
<1>1. ASSUME NextBlock, UNCHANGED fallbackVars PROVE IInv'
  BY <1>1, NextBlockPreserves
<1>2. ASSUME LeaveCallback, UNCHANGED fallbackVars, \A rt \in route : ~rt.inCallback
      PROVE  IInv'
  BY <1>2, LeavePreserves
<1>3. ASSUME NEW o \in Orders, cancelOrder(o), UNCHANGED fallbackVars PROVE IInv'
  BY <1>3, CancelPreserves
<1>4. ASSUME NEW n \in Nonces, invalidateNonce(n), UNCHANGED fallbackVars PROVE IInv'
  BY <1>4, InvalidatePreserves
<1>5. ASSUME NEW o \in Orders, NEW f \in Fillers,
             releaseRegistration(o, f), UNCHANGED fallbackVars
      PROVE  IInv'
  BY <1>5, ReleasePreserves
<1>6. ASSUME NEW o \in Orders, NEW f \in Fillers, NEW n \in FillAmounts,
             Register(o, f, n), UNCHANGED fallbackVars
      PROVE  IInv'
  BY <1>6, RegisterPreserves, OrderAssumption
<1>7. ASSUME NEW o \in Orders, NEW f \in Fillers, NEW n \in FillAmounts,
             executePartialChunk(o, f, n), UNCHANGED fallbackVars
      PROVE  IInv'
  BY <1>7, ExecutePreserves, OrderAssumption
<1>8. ASSUME NEW o \in Orders, NEW f \in Fillers, NEW n \in FillAmounts,
             EnterCallback(o, f, n), UNCHANGED fallbackVars
      PROVE  IInv'
  BY <1>8, EnterPreserves
<1>9. ASSUME NEW o \in Orders, NEW f \in Fillers, NEW caller \in Accounts,
             slash(o, f, caller), UNCHANGED fallbackVars
      PROVE  IInv'
  BY <1>9, SlashPreserves
<1>10. ASSUME NEW a \in Accounts, Withdraw(a), UNCHANGED fallbackVars PROVE IInv'
  BY <1>10, WithdrawPreserves
<1>11. ASSUME NEW c \in Configs, Reconfigure(c), UNCHANGED fallbackVars PROVE IInv'
  BY <1>11, ReconfigurePreserves
<1>12. ASSUME NEW o \in Orders, NEW r \in Routers, executeFallback(o, r) PROVE IInv'
  BY <1>12, FallbackPreserves
<1>13. ASSUME NEW r \in Routers, NEW allowed \in BOOLEAN, setRouterAllowed(r, allowed)
       PROVE  IInv'
  BY <1>13, RouterPreserves
<1>15. ASSUME NEW o \in Orders, NEW r \in Routers, EnterRoute(o, r) PROVE IInv'
  BY <1>15, EnterRoutePreserves
<1>16. ASSUME LeaveRoute PROVE IInv'
  BY <1>16, LeaveRoutePreserves
<1>14. CASE UNCHANGED vars
  <2>1. TermsKept
    BY <1>14 DEF vars, auctionVars, TermsKept, SameTerms
  <2>2. TypeOK'
    BY <1>14 DEF IInv, TypeOK, vars, reactorVars, fillVars, switchVars, auctionVars
  <2> QED BY <1>14, <2>1, <2>2, ReactorUntouched DEF vars
<1> QED
  BY <1>1, <1>2, <1>3, <1>4, <1>5, <1>6, <1>7, <1>8, <1>9, <1>10, <1>11, <1>12,
     <1>13, <1>14, <1>15, <1>16 DEF Next, ReactorNext, FallbackNext

(* The invariant holds in every reachable state.                           *)
THEOREM InvariantHolds == Spec => []IInv
<1> QED BY InitIInv, NextIInv, PTL DEF Spec

(* Every variable keeps its type.                                          *)
THEOREM TypeCorrect == Spec => []TypeOK
<1>1. IInv => TypeOK
  BY DEF IInv
<1> QED BY <1>1, InvariantHolds, PTL

(* The swapper never parts with more than the order's input.               *)
THEOREM InputIsConserved == Spec => []InputConserved
<1>1. IInv => InputConserved
  BY DEF IInv
<1> QED BY <1>1, InvariantHolds, PTL

(* An order that is sold out shows the signed minimum as paid and the      *)
(* swapper has received it, from the order itself unless its fallback's    *)
(* route ran beside payments of other orders of the same swapper.          *)
THEOREM FloorIsPaid == Spec => []FloorPaid
<1>1. IInv => FloorPaid
  <2> SUFFICES ASSUME IInv, NEW o \in Orders, remainingInput(o) = 0, frame = {}, route = {}
               PROVE  /\ paid[o] >= MinOutput[o]
                      /\ paid[o] <= outputBalance[PayeeOf[o]]
                      /\ BroughtByItself(o) < MinOutput[o] => fallbackInitiated[o] /\ OthersPaid(o)
    BY DEF FloorPaid
  <2>1. paid[o] >= MinOutput[o]
    BY DEF IInv, FloorPaidOrPending
  <2>2. paid[o] <= outputBalance[PayeeOf[o]]
    BY DEF IInv, PaymentsReceived
  <2>3. ASSUME BroughtByItself(o) < MinOutput[o]
        PROVE  fallbackInitiated[o] /\ OthersPaid(o)
    <3>1. paid[o] \in Nat /\ alsoPaid[o] \in Nat /\ MinOutput[o] \in Nat
      BY OrderAssumption DEF IInv, TypeOK
    <3>2. alsoPaid[o] > 0
      BY <2>1, <2>3, <3>1 DEF BroughtByItself
    <3> QED BY <3>2 DEF IInv, PaymentsReceived
  <2> QED BY <2>1, <2>2, <2>3
<1> QED BY <1>1, InvariantHolds, PTL

(* The price of an open order depends on when it opened, and on nothing    *)
(* that was filled since.                                                  *)
THEOREM PriceIsPathIndependent == Spec => []PriceFollowsCurve
<1>1. IInv => PriceFollowsCurve
  <2> SUFFICES ASSUME IInv, NEW o \in Orders, ~isNewOrder(raw[o]), ~fallbackInitiated[o]
               PROVE  PriceNow(o) = CurveAfter(o, block - openedAt[o])
    BY DEF PriceFollowsCurve, CurveAfter
  <2> QED BY PriceOnCurve DEF IInv, PriceNow
<1> QED BY <1>1, InvariantHolds, PTL

(* Cancelling an order, or killing its nonce, frees every stake on it.     *)
THEOREM KillFreesStake == Spec => []SwapperKillFreesStake
<1>1. IInv => SwapperKillFreesStake
  <2> SUFFICES ASSUME IInv, NEW o \in Orders, NEW f \in Fillers, Active(reg[o][f]),
                      cancelled[o] \/ NonceOf[o] \in nonceInvalidated
               PROVE  /\ CanRelease(o, f)
                      /\ \A later \in block..MaxBlock :
                           ~MaySlash(o, f, later, Deadline[o], cancelled[o],
                                     isNonceInvalidatedForOrder(o), remainingInput(o))
    BY DEF SwapperKillFreesStake
  <2>1. cancelled[o] \/ isNonceInvalidatedForOrder(o)
    BY DEF IInv, RegistrationsFit, Active, isNonceInvalidatedForOrder
  <2> QED BY <2>1 DEF CanRelease, MayRelease, MaySlash
<1> QED BY <1>1, InvariantHolds, PTL

-----------------------------------------------------------------------------
(* What a step may do to a stake: the action properties of a fill, and the *)
(* refinement of the abstract stake escrow.                                *)

(* A registration becomes filled in a whole fill or at the end of a        *)
(* callback, for the amount and the remainder the fill started from.       *)
Delivers(o, f, amount, leftBefore) ==
  /\ onFillSuccess(o, f, amount, leftBefore)
  /\ DeliveredNow(o) = amount
  /\ LeftBefore(o) = leftBefore
  /\ amount \in Nat /\ leftBefore \in Nat
  /\ amount <= reg[o][f].fillAmount
  /\ RowFits(reg[o][f].refundRow, reg[o][f].ratioSnapshot)

(* Only o and f's registration changes when o and f's stake is closed.     *)
LEMMA OneEntry ==
  ASSUME TypeOK, NEW o \in Orders, NEW f \in Fillers, NEW r \in Registration,
         reg' = [reg EXCEPT ![o][f] = r]
  PROVE  /\ reg'[o][f] = r
         /\ \A p \in Orders, g \in Fillers : ~(p = o /\ g = f) => reg'[p][g] = reg[p][g]
BY DEF TypeOK

LEMMA ExecuteDelivers ==
  ASSUME IInv, NEW o \in Orders, NEW f \in Fillers, NEW n \in FillAmounts,
         executePartialChunk(o, f, n)
  PROVE  Delivers(o, f, n, remainingInput(o))
<1>1. /\ TypeOK /\ RegistrationsFit /\ n \in Nat /\ frame = {}
      /\ FillChecks(o, f, n) /\ TakeInput(o, n)
      /\ onFillSuccess(o, f, n, remainingInput(o))
  BY OrderAssumption DEF IInv, executePartialChunk, FillChecks, PayOutput
<1>2. /\ reg[o][f].registered /\ n <= reg[o][f].fillAmount /\ remainingInput(o) \in Nat
  BY <1>1, FillChecksEffect
<1>3. pulled \in [Orders -> Nat] /\ pulled' = [pulled EXCEPT ![o] = @ + n]
  BY <1>1 DEF TypeOK, TakeInput
<1>4. pulled'[o] - pulled[o] = n
  BY <1>1, <1>3
<1>5. DeliveredNow(o) = n /\ LeftBefore(o) = remainingInput(o)
  BY <1>1, <1>4 DEF DeliveredNow, LeftBefore
<1>6. RowFits(reg[o][f].refundRow, reg[o][f].ratioSnapshot)
  BY <1>1, <1>2 DEF RegistrationsFit
<1> QED BY <1>1, <1>2, <1>5, <1>6 DEF Delivers

LEMMA LeaveDelivers ==
  ASSUME IInv, LeaveCallback
  PROVE  \E fr \in frame :
           /\ fr.order \in Orders /\ fr.filler \in Fillers
           /\ Delivers(fr.order, fr.filler, fr.fill, fr.currentRemaining)
<1>1. PICK fr \in frame : onFillSuccess(fr.order, fr.filler, fr.fill, fr.currentRemaining)
  BY DEF LeaveCallback, PayOutput
<1>2. TypeOK /\ RegistrationsFit /\ FrameFits
  BY DEF IInv
<1>3. /\ fr.order \in Orders /\ fr.filler \in Fillers /\ fr.fill \in Nat
      /\ fr.currentRemaining \in Nat
  BY <1>2 DEF TypeOK, Frame
<1>4. /\ reg[fr.order][fr.filler].registered
      /\ fr.fill <= reg[fr.order][fr.filler].fillAmount
      /\ \A other \in frame : other = fr
  BY <1>2 DEF FrameFits
<1>5. frame # {} /\ (CHOOSE g \in frame : TRUE) = fr
  BY <1>4
<1>6. DeliveredNow(fr.order) = fr.fill /\ LeftBefore(fr.order) = fr.currentRemaining
  BY <1>5 DEF DeliveredNow, LeftBefore
<1>7. RowFits(reg[fr.order][fr.filler].refundRow, reg[fr.order][fr.filler].ratioSnapshot)
  BY <1>2, <1>3, <1>4 DEF RegistrationsFit
<1> QED BY <1>1, <1>3, <1>4, <1>6, <1>7 DEF Delivers

(* Fill, slash and release leave the other registrations alone.            *)
LEMMA FillSetsOne ==
  ASSUME TypeOK, NEW o \in Orders, NEW f \in Fillers, NEW n, NEW left,
         onFillSuccess(o, f, n, left)
  PROVE  /\ ~Settled(reg[o][f]) /\ reg'[o][f].filled
         /\ SameTerms(reg[o][f], reg'[o][f])
         /\ \A p \in Orders, g \in Fillers : ~(p = o /\ g = f) => reg'[p][g] = reg[p][g]
<1> DEFINE closed == [reg[o][f] EXCEPT !.filled = TRUE]
<1>1. reg[o][f] \in Registration
  BY DEF TypeOK
<1>2. closed \in Registration /\ SameTerms(reg[o][f], closed) /\ closed.filled
  BY <1>1, CloseOne DEF Registration
<1>3. reg' = [reg EXCEPT ![o][f] = closed] /\ ~Settled(reg[o][f])
  BY DEF onFillSuccess
<1> HIDE DEF closed
<1>4. reg'[o][f] = closed
  BY <1>3 DEF TypeOK
<1>5. \A p \in Orders, g \in Fillers : ~(p = o /\ g = f) => reg'[p][g] = reg[p][g]
  BY <1>2, <1>3, OneEntry
<1> QED BY <1>2, <1>3, <1>4, <1>5

LEMMA SlashSetsOne ==
  ASSUME TypeOK, NEW o \in Orders, NEW f \in Fillers, NEW caller \in Accounts,
         slashStake(o, f, caller)
  PROVE  /\ reg'[o][f].slashed /\ reg'[o][f].filled = reg[o][f].filled
         /\ SameTerms(reg[o][f], reg'[o][f])
         /\ \A p \in Orders, g \in Fillers : ~(p = o /\ g = f) => reg'[p][g] = reg[p][g]
<1> DEFINE closed == [reg[o][f] EXCEPT !.slashed = TRUE]
<1>1. reg[o][f] \in Registration
  BY DEF TypeOK
<1>2. /\ closed \in Registration /\ SameTerms(reg[o][f], closed)
      /\ closed.slashed /\ closed.filled = reg[o][f].filled
  BY <1>1, CloseOne DEF Registration
<1>3. reg' = [reg EXCEPT ![o][f] = closed]
  BY DEF slashStake
<1> HIDE DEF closed
<1>4. reg'[o][f] = closed
  BY <1>3 DEF TypeOK
<1>5. \A p \in Orders, g \in Fillers : ~(p = o /\ g = f) => reg'[p][g] = reg[p][g]
  BY <1>2, <1>3, OneEntry
<1> QED BY <1>2, <1>3, <1>4, <1>5

LEMMA ReleaseSetsOne ==
  ASSUME TypeOK, NEW o \in Orders, NEW f \in Fillers, releaseStake(o, f)
  PROVE  /\ reg'[o][f].released /\ reg'[o][f].filled = reg[o][f].filled
         /\ SameTerms(reg[o][f], reg'[o][f])
         /\ \A p \in Orders, g \in Fillers : ~(p = o /\ g = f) => reg'[p][g] = reg[p][g]
<1> DEFINE closed == [reg[o][f] EXCEPT !.released = TRUE]
<1>1. reg[o][f] \in Registration
  BY DEF TypeOK
<1>2. /\ closed \in Registration /\ SameTerms(reg[o][f], closed)
      /\ closed.released /\ closed.filled = reg[o][f].filled
  BY <1>1, CloseOne DEF Registration
<1>3. reg' = [reg EXCEPT ![o][f] = closed]
  BY DEF releaseStake
<1> HIDE DEF closed
<1>4. reg'[o][f] = closed
  BY <1>3 DEF TypeOK
<1>5. \A p \in Orders, g \in Fillers : ~(p = o /\ g = f) => reg'[p][g] = reg[p][g]
  BY <1>2, <1>3, OneEntry
<1> QED BY <1>2, <1>3, <1>4, <1>5

-----------------------------------------------------------------------------
(* No other step makes a registration count as filled.                     *)
LEMMA OnlyFillsFill ==
  ASSUME IInv, Next, NEW p \in Orders, NEW g \in Fillers, FilledNow(p, g)
  PROVE  \E amount, leftBefore : Delivers(p, g, amount, leftBefore)
<1> USE DEF FilledNow
<1>1. TypeOK
  BY DEF IInv
<1>2. reg' = reg => FALSE
  OBVIOUS
<1>3. ASSUME NEW o \in Orders, NEW f \in Fillers, NEW n \in FillAmounts,
             executePartialChunk(o, f, n)
      PROVE  \E amount, leftBefore : Delivers(p, g, amount, leftBefore)
  <2>1. Delivers(o, f, n, remainingInput(o))
    BY <1>3, ExecuteDelivers
  <2>2. \A i \in Orders, j \in Fillers : ~(i = o /\ j = f) => reg'[i][j] = reg[i][j]
    BY <1>1, <2>1, FillSetsOne DEF Delivers
  <2>3. p = o /\ g = f
    BY <2>2
  <2> QED BY <2>1, <2>3
<1>4. ASSUME LeaveCallback
      PROVE  \E amount, leftBefore : Delivers(p, g, amount, leftBefore)
  <2>1. PICK fr \in frame :
          /\ fr.order \in Orders /\ fr.filler \in Fillers
          /\ Delivers(fr.order, fr.filler, fr.fill, fr.currentRemaining)
    BY <1>4, LeaveDelivers
  <2>2. \A i \in Orders, j \in Fillers :
          ~(i = fr.order /\ j = fr.filler) => reg'[i][j] = reg[i][j]
    BY <1>1, <2>1, FillSetsOne DEF Delivers
  <2>3. p = fr.order /\ g = fr.filler
    BY <2>2
  <2> QED BY <2>1, <2>3
<1>5. ASSUME NEW o \in Orders, NEW f \in Fillers, releaseRegistration(o, f) PROVE FALSE
  <2>1. /\ reg'[o][f].filled = reg[o][f].filled
        /\ \A i \in Orders, j \in Fillers : ~(i = o /\ j = f) => reg'[i][j] = reg[i][j]
    BY <1>1, <1>5, ReleaseSetsOne DEF releaseRegistration
  <2> QED BY <2>1
<1>6. ASSUME NEW o \in Orders, NEW f \in Fillers, NEW caller \in Accounts,
             slash(o, f, caller)
      PROVE  FALSE
  <2>1. /\ reg'[o][f].filled = reg[o][f].filled
        /\ \A i \in Orders, j \in Fillers : ~(i = o /\ j = f) => reg'[i][j] = reg[i][j]
    BY <1>1, <1>6, SlashSetsOne DEF slash
  <2> QED BY <2>1
<1>7. ASSUME NEW o \in Orders, NEW f \in Fillers, NEW n \in FillAmounts, Register(o, f, n)
      PROVE  FALSE
  <2>1. PICK excess \in Nat : Commits(o, f, n, excess)
    BY <1>1, <1>7, RegisterRegisters, OrderAssumption
  <2> QED BY <2>1 DEF Commits, Settled
<1>8. (NextBlock \/ (\E o \in Orders : cancelOrder(o)) \/ (\E n \in Nonces : invalidateNonce(n))
       \/ (\E a \in Accounts : Withdraw(a)) \/ (\E c \in Configs : Reconfigure(c))
       \/ (\E o \in Orders, r \in Routers : executeFallback(o, r) \/ EnterRoute(o, r))
       \/ LeaveRoute
       \/ (\E r \in Routers, allowed \in BOOLEAN : setRouterAllowed(r, allowed))
       \/ (\E o \in Orders, f \in Fillers, n \in FillAmounts : EnterCallback(o, f, n)))
      => reg' = reg
  BY DEF NextBlock, cancelOrder, invalidateNonce, Withdraw, withdraw, Reconfigure, reconfigure,
         executeFallback, EnterRoute, LeaveRoute, StartFallback, setRouterAllowed,
         EnterCallback, auctionVars
<1> QED
  BY <1>2, <1>3, <1>4, <1>5, <1>6, <1>7, <1>8 DEF Next, ReactorNext, FallbackNext

(* A filler never delivers more than it staked for.                        *)
THEOREM FillsWithinCommitment == Spec => FillWithinCommitment
<1>1. ASSUME IInv, Next, NEW o \in Orders, NEW f \in Fillers, FilledNow(o, f)
      PROVE  DeliveredNow(o) <= reg[o][f].fillAmount
  <2>1. PICK amount, leftBefore : Delivers(o, f, amount, leftBefore)
    BY <1>1, OnlyFillsFill
  <2> QED BY <2>1 DEF Delivers
<1>2. IInv /\ [Next]_vars =>
        [\A o \in Orders, f \in Fillers :
           FilledNow(o, f) => DeliveredNow(o) <= reg[o][f].fillAmount]_vars
  BY <1>1
<1> QED BY <1>2, InvariantHolds, PTL DEF Spec, FillWithinCommitment

(* Full delivery is owed the whole stake, whatever happened to the         *)
(* configuration since the filler registered.                              *)
THEOREM FullDeliveryIsRefunded == Spec => FullDeliveryRefundsAll
<1>1. ASSUME IInv, Next, NEW o \in Orders, NEW f \in Fillers, FilledNow(o, f),
             \/ DeliveredNow(o) >= reg[o][f].fillAmount
             \/ DeliveredNow(o) >= LeftBefore(o)
      PROVE  pendingReturns'[f] = pendingReturns[f] + reg[o][f].stakeAmount
  <2>1. PICK amount, leftBefore : Delivers(o, f, amount, leftBefore)
    BY <1>1, OnlyFillsFill
  <2> DEFINE r == reg[o][f]
             asked == Deliverable(o, f, leftBefore)
             refund == computeRefund(r.stakeAmount, amount, asked, r.refundRow, r.ratioSnapshot)
  <2>2. /\ TypeOK /\ amount \in Nat /\ leftBefore \in Nat
        /\ onFillSuccess(o, f, amount, leftBefore)
        /\ RowFits(r.refundRow, r.ratioSnapshot)
        /\ amount >= r.fillAmount \/ amount >= leftBefore
    BY <1>1, <2>1 DEF IInv, Delivers
  <2>3. r.stakeAmount \in Nat /\ r.fillAmount \in Nat
    BY <2>2 DEF TypeOK, Registration
  <2>4. asked \in Nat /\ amount >= asked
    BY <2>2, <2>3 DEF Deliverable
  <2> HIDE DEF r, asked
  <2>5. refund = r.stakeAmount
    BY <2>2, <2>3, <2>4, FullFillRefundsStake
  <2>6. pendingReturns' = Credit(Credit(pendingReturns, f, r.stakeAmount), Treasury,
                                 r.stakeAmount - r.stakeAmount)
    BY <2>2, <2>5 DEF onFillSuccess, r, asked
  <2>7. f \in Accounts /\ Treasury \in Accounts /\ pendingReturns \in [Accounts -> Nat]
    BY <2>2, AuctionAssumption DEF TypeOK
  <2>8. pendingReturns'[f] = pendingReturns[f] + r.stakeAmount
    BY <2>3, <2>6, <2>7 DEF Credit
  <2> QED BY <2>8 DEF r
<1>2. IInv /\ [Next]_vars =>
        [\A o \in Orders, f \in Fillers :
           FilledNow(o, f) /\ (\/ DeliveredNow(o) >= reg[o][f].fillAmount
                               \/ DeliveredNow(o) >= LeftBefore(o)) =>
             pendingReturns'[f] = pendingReturns[f] + reg[o][f].stakeAmount]_vars
  BY <1>1
<1> QED BY <1>2, InvariantHolds, PTL DEF Spec, FullDeliveryRefundsAll

-----------------------------------------------------------------------------
(* The refinement mapping, named.                                          *)
Keys     == Orders \X Fillers
PhaseMap == [k \in Keys |-> PhaseOf(reg[k[1]][k[2]])]
StakeMap == [k \in Keys |-> reg[k[1]][k[2]].stakeAmount]

(* A change of one registration is a change of one key of the mapping.     *)
LEMMA OneKey ==
  ASSUME NEW o \in Orders, NEW f \in Fillers,
         \A p \in Orders, g \in Fillers : ~(p = o /\ g = f) => reg'[p][g] = reg[p][g]
  PROVE  /\ <<o, f>> \in Keys
         /\ PhaseMap' = [PhaseMap EXCEPT ![<<o, f>>] = PhaseOf(reg'[o][f])]
         /\ StakeMap' = [StakeMap EXCEPT ![<<o, f>>] = reg'[o][f].stakeAmount]
         /\ PhaseMap[<<o, f>>] = PhaseOf(reg[o][f])
         /\ StakeMap[<<o, f>>] = reg[o][f].stakeAmount
         /\ StakeMap'[<<o, f>>] = reg'[o][f].stakeAmount
<1>1. <<o, f>> \in Keys
  BY DEF Keys
<1>2. ASSUME NEW k \in Keys, k # <<o, f>>
      PROVE  reg'[k[1]][k[2]] = reg[k[1]][k[2]]
  <2>1. k[1] \in Orders /\ k[2] \in Fillers /\ k = <<k[1], k[2]>>
    BY DEF Keys
  <2> QED BY <1>2, <2>1
<1>3. PhaseMap' = [PhaseMap EXCEPT ![<<o, f>>] = PhaseOf(reg'[o][f])]
  <2>1. \A k \in Keys : PhaseMap'[k] = IF k = <<o, f>> THEN PhaseOf(reg'[o][f]) ELSE PhaseMap[k]
    BY <1>2 DEF PhaseMap, PhaseOf, Settled
  <2> QED BY <1>1, <2>1 DEF PhaseMap
<1>4. StakeMap' = [StakeMap EXCEPT ![<<o, f>>] = reg'[o][f].stakeAmount]
  <2>1. \A k \in Keys :
          StakeMap'[k] = IF k = <<o, f>> THEN reg'[o][f].stakeAmount ELSE StakeMap[k]
    BY <1>2 DEF StakeMap
  <2> QED BY <1>1, <2>1 DEF StakeMap
<1> QED BY <1>1, <1>3, <1>4 DEF PhaseMap, StakeMap

LEMMA InitEscrow == Init => Escrow!Init
<1> SUFFICES ASSUME Init PROVE Escrow!Init
  OBVIOUS
<1>1. \A k \in Keys : reg[k[1]][k[2]] = Unregistered
  BY DEF Init, AuctionInit, Keys
<1>2. PhaseMap = [k \in Keys |-> "none"] /\ StakeMap = [k \in Keys |-> 0]
  BY <1>1 DEF PhaseMap, StakeMap, PhaseOf, Unregistered
<1> QED BY <1>2 DEF Init, AuctionInit, Escrow!Init, PhaseMap, StakeMap, Keys

(* A stake is closed: the phase of its key changes, the stakes stay, and   *)
(* three shares that add up to the stake become owed.                      *)
LEMMA ClosesKey ==
  ASSUME TypeOK, NEW o \in Orders, NEW f \in Fillers,
         reg[o][f].registered, ~Settled(reg[o][f]),
         SameTerms(reg[o][f], reg'[o][f]), Settled(reg'[o][f]),
         \A p \in Orders, g \in Fillers : ~(p = o /\ g = f) => reg'[p][g] = reg[p][g],
         balance' = balance,
         NEW caller \in Accounts, NEW toOwner \in Nat, NEW toCaller \in Nat,
         toOwner + toCaller <= reg[o][f].stakeAmount,
         pendingReturns' = Credit(Credit(Credit(pendingReturns, f, toOwner), caller, toCaller),
                                  Treasury, reg[o][f].stakeAmount - toOwner - toCaller)
  PROVE  Escrow!Next
<1> DEFINE k == <<o, f>>
<1>1. /\ k \in Keys
      /\ PhaseMap' = [PhaseMap EXCEPT ![k] = PhaseOf(reg'[o][f])]
      /\ StakeMap' = [StakeMap EXCEPT ![k] = reg'[o][f].stakeAmount]
      /\ PhaseMap[k] = PhaseOf(reg[o][f])
      /\ StakeMap[k] = reg[o][f].stakeAmount
  BY OneKey
<1>2. PhaseOf(reg[o][f]) = "held" /\ PhaseOf(reg'[o][f]) = "closed"
  BY DEF PhaseOf, SameTerms
<1>3. StakeMap' = StakeMap
  BY <1>1 DEF SameTerms, StakeMap
<1>4. reg[o][f].stakeAmount \in Nat
  BY DEF TypeOK, Registration
<1>5. toOwner \in 0..StakeMap[k] /\ toCaller \in 0..StakeMap[k]
      /\ toOwner + toCaller <= StakeMap[k]
  BY <1>1, <1>4
<1>6. [q \in Orders \X Fillers |-> q[2]][k] = f
  BY <1>1 DEF Keys
<1>7. pendingReturns' =
        Escrow!Add(Escrow!Add(Escrow!Add(pendingReturns, [q \in Orders \X Fillers |-> q[2]][k], toOwner),
                              caller, toCaller),
                   Treasury, StakeMap[k] - toOwner - toCaller)
  BY <1>1, <1>6 DEF Credit, Escrow!Add
<1>8. Escrow!Close(k)
  <2>1. /\ PhaseMap[k] = "held" /\ PhaseMap' = [PhaseMap EXCEPT ![k] = "closed"]
        /\ UNCHANGED <<StakeMap, balance>>
    BY <1>1, <1>2, <1>3, Zenon
  <2> HIDE DEF k
  <2>2. \E payer \in Accounts, own, other \in 0..StakeMap[k] :
          /\ own + other <= StakeMap[k]
          /\ pendingReturns' =
               Escrow!Add(Escrow!Add(Escrow!Add(pendingReturns, [q \in Orders \X Fillers |-> q[2]][k], own),
                                     payer, other),
                          Treasury, StakeMap[k] - own - other)
    BY <1>5, <1>7, Zenon
  <2> QED BY <2>1, <2>2, Zenon DEF Escrow!Close, PhaseMap, StakeMap, Keys
<1> QED BY <1>1, <1>8 DEF Escrow!Next, Keys

LEMMA CreditNothing ==
  ASSUME NEW ledger \in [Accounts -> Nat], NEW who \in Accounts
  PROVE  Credit(ledger, who, 0) = ledger
BY DEF Credit

LEMMA FillCloses ==
  ASSUME TypeOK, NEW o \in Orders, NEW f \in Fillers, NEW amount, NEW leftBefore,
         Delivers(o, f, amount, leftBefore), reg[o][f].registered
  PROVE  Escrow!Next
<1> DEFINE r == reg[o][f]
           refund == computeRefund(r.stakeAmount, amount, Deliverable(o, f, leftBefore),
                                   r.refundRow, r.ratioSnapshot)
           after  == Credit(pendingReturns, f, refund)
<1>1. /\ onFillSuccess(o, f, amount, leftBefore) /\ amount \in Nat /\ leftBefore \in Nat
      /\ RowFits(r.refundRow, r.ratioSnapshot)
  BY DEF Delivers
<1>2. /\ refund \in 0..r.stakeAmount
      /\ pendingReturns' = Credit(Credit(pendingReturns, f, refund), Treasury,
                                  r.stakeAmount - refund)
      /\ ~Settled(r) /\ balance' = balance
  BY <1>1, FillEffect
<1>3. /\ Settled(reg'[o][f]) /\ SameTerms(r, reg'[o][f])
      /\ \A p \in Orders, g \in Fillers : ~(p = o /\ g = f) => reg'[p][g] = reg[p][g]
  BY <1>1, FillSetsOne DEF Settled
<1>4. /\ r.stakeAmount \in Nat /\ f \in Accounts /\ Treasury \in Accounts
      /\ pendingReturns \in [Accounts -> Nat]
  BY AuctionAssumption DEF TypeOK, Registration
<1> HIDE DEF refund
<1>5. after \in [Accounts -> Nat]
  BY <1>2, <1>4, CreditType
<1>6. Credit(after, Treasury, 0) = after
  BY <1>4, <1>5, CreditNothing
<1>7. refund \in Nat /\ 0 \in Nat /\ refund + 0 <= r.stakeAmount
      /\ r.stakeAmount - refund - 0 = r.stakeAmount - refund
  BY <1>2, <1>4
<1>8. pendingReturns' = Credit(Credit(Credit(pendingReturns, f, refund), Treasury, 0),
                               Treasury, r.stakeAmount - refund - 0)
  BY <1>2, <1>6, <1>7
<1> QED BY <1>2, <1>3, <1>4, <1>7, <1>8, ClosesKey

LEMMA SlashCloses ==
  ASSUME TypeOK, NEW o \in Orders, NEW f \in Fillers, NEW caller \in Accounts,
         slash(o, f, caller)
  PROVE  Escrow!Next
<1> DEFINE r == reg[o][f]
           reward == r.stakeAmount \div 10
<1>1. /\ slashStake(o, f, caller) /\ r.registered /\ ~Settled(r) /\ balance' = balance
  BY DEF slash, CanSlash, MaySlash, Active, slashStake
<1>2. /\ reward \in 0..r.stakeAmount
      /\ pendingReturns' = Credit(Credit(pendingReturns, caller, reward), Treasury,
                                  r.stakeAmount - reward)
  BY <1>1, SlashEffect
<1>3. /\ Settled(reg'[o][f]) /\ SameTerms(r, reg'[o][f])
      /\ \A p \in Orders, g \in Fillers : ~(p = o /\ g = f) => reg'[p][g] = reg[p][g]
  BY <1>1, SlashSetsOne DEF Settled
<1>4. /\ r.stakeAmount \in Nat /\ f \in Accounts
      /\ pendingReturns \in [Accounts -> Nat]
  BY AuctionAssumption DEF TypeOK, Registration
<1> HIDE DEF reward
<1>5. Credit(pendingReturns, f, 0) = pendingReturns
  BY <1>4, CreditNothing
<1>6. reward \in Nat /\ 0 \in Nat /\ 0 + reward <= r.stakeAmount
      /\ r.stakeAmount - 0 - reward = r.stakeAmount - reward
  BY <1>2, <1>4
<1>7. pendingReturns' = Credit(Credit(Credit(pendingReturns, f, 0), caller, reward),
                               Treasury, r.stakeAmount - 0 - reward)
  BY <1>2, <1>5, <1>6
<1> QED BY <1>1, <1>3, <1>6, <1>7, ClosesKey

LEMMA ReleaseCloses ==
  ASSUME TypeOK, NEW o \in Orders, NEW f \in Fillers, releaseRegistration(o, f)
  PROVE  Escrow!Next
<1> DEFINE r == reg[o][f]
           after == Credit(pendingReturns, f, r.stakeAmount)
<1>1. /\ releaseStake(o, f) /\ r.registered /\ ~Settled(r) /\ balance' = balance
  BY DEF releaseRegistration, CanRelease, MayRelease, Active, releaseStake
<1>2. /\ r.stakeAmount \in Nat /\ pendingReturns' = after
      /\ after \in [Accounts -> Nat]
  BY <1>1, ReleaseEffect
<1>3. /\ Settled(reg'[o][f]) /\ SameTerms(r, reg'[o][f])
      /\ \A p \in Orders, g \in Fillers : ~(p = o /\ g = f) => reg'[p][g] = reg[p][g]
  BY <1>1, ReleaseSetsOne DEF Settled
<1>4. Treasury \in Accounts
  BY AuctionAssumption
<1>5. Credit(after, Treasury, 0) = after
  BY <1>2, <1>4, CreditNothing
<1>6. 0 \in Nat /\ r.stakeAmount + 0 <= r.stakeAmount /\ r.stakeAmount - r.stakeAmount - 0 = 0
  BY <1>2
<1>7. pendingReturns' = Credit(Credit(Credit(pendingReturns, f, r.stakeAmount), Treasury, 0),
                               Treasury, r.stakeAmount - r.stakeAmount - 0)
  BY <1>2, <1>5, <1>6
<1> QED BY <1>1, <1>2, <1>3, <1>4, <1>6, <1>7, ClosesKey

LEMMA RegisterDeposits ==
  ASSUME TypeOK, NEW o \in Orders, NEW f \in Fillers, NEW n \in FillAmounts,
         Register(o, f, n)
  PROVE  Escrow!Next
<1> DEFINE k == <<o, f>>
<1>1. PICK excess \in Nat : Commits(o, f, n, excess)
  BY RegisterRegisters, OrderAssumption
<1>2. /\ k \in Keys
      /\ PhaseMap' = [PhaseMap EXCEPT ![k] = PhaseOf(reg'[o][f])]
      /\ StakeMap' = [StakeMap EXCEPT ![k] = reg'[o][f].stakeAmount]
      /\ PhaseMap[k] = PhaseOf(reg[o][f])
      /\ StakeMap'[k] = reg'[o][f].stakeAmount
  BY <1>1, OneKey DEF Commits
<1>3. /\ PhaseOf(reg[o][f]) = "none" /\ PhaseOf(reg'[o][f]) = "held"
      /\ reg'[o][f].stakeAmount \in Nat /\ balance \in Nat
      /\ balance' = balance + reg'[o][f].stakeAmount + excess
      /\ pendingReturns' = Credit(pendingReturns, f, excess)
  BY <1>1 DEF Commits, PhaseOf, TypeOK, Registration
<1>4. balance' - balance - StakeMap'[k] = excess
  BY <1>2, <1>3
<1>5. [q \in Orders \X Fillers |-> q[2]][k] = f
  BY <1>2 DEF Keys
<1>6. Escrow!Deposit(k)
  BY <1>2, <1>3, <1>4, <1>5 DEF Escrow!Deposit, Escrow!Add, Credit, PhaseMap, StakeMap, Keys
<1> QED BY <1>2, <1>6 DEF Escrow!Next, Keys

LEMMA WithdrawPays ==
  ASSUME TypeOK, NEW a \in Accounts, Withdraw(a)
  PROVE  Escrow!Next
<1>1. Escrow!Payout(a)
  BY DEF Withdraw, withdraw, Escrow!Payout, TypeOK
<1> QED BY <1>1 DEF Escrow!Next

LEMMA NextEscrow == IInv /\ [Next]_vars => [Escrow!Next]_(Escrow!vars)
<1> SUFFICES ASSUME IInv, [Next]_vars
             PROVE  Escrow!Next \/ UNCHANGED <<reg, pendingReturns, balance>>
  BY DEF Escrow!vars
<1>1. TypeOK
  BY DEF IInv
<1>2. ASSUME NEW o \in Orders, NEW f \in Fillers, NEW n \in FillAmounts,
             executePartialChunk(o, f, n)
      PROVE  Escrow!Next
  <2>1. Delivers(o, f, n, remainingInput(o)) /\ reg[o][f].registered
    BY <1>2, ExecuteDelivers
       DEF executePartialChunk, FillChecks, hasValidRegistration, Active
  <2> QED BY <1>1, <2>1, FillCloses
<1>3. ASSUME LeaveCallback PROVE Escrow!Next
  <2>1. PICK fr \in frame :
          /\ fr.order \in Orders /\ fr.filler \in Fillers
          /\ Delivers(fr.order, fr.filler, fr.fill, fr.currentRemaining)
    BY <1>3, LeaveDelivers
  <2>2. reg[fr.order][fr.filler].registered
    BY DEF IInv, FrameFits
  <2> QED BY <1>1, <2>1, <2>2, FillCloses
<1>4. ASSUME NEW o \in Orders, NEW f \in Fillers, releaseRegistration(o, f)
      PROVE  Escrow!Next
  BY <1>1, <1>4, ReleaseCloses
<1>5. ASSUME NEW o \in Orders, NEW f \in Fillers, NEW caller \in Accounts,
             slash(o, f, caller)
      PROVE  Escrow!Next
  BY <1>1, <1>5, SlashCloses
<1>6. ASSUME NEW o \in Orders, NEW f \in Fillers, NEW n \in FillAmounts, Register(o, f, n)
      PROVE  Escrow!Next
  BY <1>1, <1>6, RegisterDeposits
<1>7. ASSUME NEW a \in Accounts, Withdraw(a) PROVE Escrow!Next
  BY <1>1, <1>7, WithdrawPays
<1>8. (NextBlock \/ (\E o \in Orders : cancelOrder(o)) \/ (\E n \in Nonces : invalidateNonce(n))
       \/ (\E c \in Configs : Reconfigure(c))
       \/ (\E o \in Orders, r \in Routers : executeFallback(o, r) \/ EnterRoute(o, r))
       \/ LeaveRoute
       \/ (\E r \in Routers, allowed \in BOOLEAN : setRouterAllowed(r, allowed))
       \/ (\E o \in Orders, f \in Fillers, n \in FillAmounts : EnterCallback(o, f, n))
       \/ UNCHANGED vars)
      => UNCHANGED <<reg, pendingReturns, balance>>
  BY DEF NextBlock, cancelOrder, invalidateNonce, Reconfigure, reconfigure,
         executeFallback, EnterRoute, LeaveRoute, StartFallback, setRouterAllowed,
         EnterCallback, auctionVars, vars
<1> QED
  BY <1>2, <1>3, <1>4, <1>5, <1>6, <1>7, <1>8 DEF Next, ReactorNext, FallbackNext

(* FillAuction, driven by the reactor and the fallback, is a stake escrow: *)
(* every stake is taken once, closed once and paid out whole.              *)
THEOREM SettlementImplementsEscrow == Spec => ImplementsEscrow
<1> QED BY InitEscrow, NextEscrow, InvariantHolds, PTL
        DEF Spec, ImplementsEscrow, Escrow!Spec

-----------------------------------------------------------------------------
(* Solvency, from the abstract escrow alone.                               *)
HeldKeys == {k \in Keys : PhaseMap[k] = "held"}

LEMMA SolventMeans ==
  Solvent <=> balance = Total(StakeMap, HeldKeys) + Total(pendingReturns, Accounts)
<1>1. ASSUME NEW k \in Keys
      PROVE  PhaseMap[k] = "held" <=> Active(reg[k[1]][k[2]])
  BY DEF PhaseMap, PhaseOf, Active
<1>2. HeldKeys = Unsettled /\ StakeMap = StakeOf
  BY <1>1 DEF HeldKeys, Unsettled, StakeMap, StakeOf, Keys
<1> QED BY <1>2 DEF Solvent

LEMMA SolventMeansNext ==
  Solvent' <=> balance' = Total(StakeMap', HeldKeys') + Total(pendingReturns', Accounts)
<1>1. Solvent' <=> (balance = Total(StakeMap, HeldKeys) + Total(pendingReturns, Accounts))'
  BY SolventMeans, PTL
<1> QED BY <1>1

LEMMA LedgerCounts ==
  ASSUME NEW ledger \in [Accounts -> Nat]
  PROVE  Counted(ledger, Accounts) /\ Total(ledger, Accounts) \in Nat
<1>1. Counted(ledger, Accounts)
  BY AuctionAssumption DEF Counted
<1> QED BY <1>1, TotalType

LEMMA CreditAdds ==
  ASSUME NEW ledger \in [Accounts -> Nat], NEW who \in Accounts, NEW amount \in Nat
  PROVE  /\ Credit(ledger, who, amount) \in [Accounts -> Nat]
         /\ Total(Credit(ledger, who, amount), Accounts) = Total(ledger, Accounts) + amount
<1> DEFINE after == Credit(ledger, who, amount)
<1>1. /\ after \in [Accounts -> Nat] /\ after[who] = ledger[who] + amount /\ ledger[who] \in Nat
      /\ \A a \in Accounts \ {who} : after[a] = ledger[a]
  BY DEF Credit
<1>2. Counted(ledger, Accounts) /\ Total(ledger, Accounts) \in Nat
  BY LedgerCounts
<1> HIDE DEF after
<1>3. Total(after, Accounts) = Total(ledger, Accounts) - ledger[who] + after[who]
  BY <1>1, <1>2, TotalChange
<1>4. Total(after, Accounts) = Total(ledger, Accounts) + amount
  BY <1>1, <1>2, <1>3
<1> QED BY <1>1, <1>4 DEF after

(* A ledger that changes at one account changes its total by as much.      *)
LEMMA LedgerChange ==
  ASSUME NEW ledger \in [Accounts -> Nat], NEW after \in [Accounts -> Nat], NEW who \in Accounts,
         \A a \in Accounts \ {who} : after[a] = ledger[a]
  PROVE  Total(after, Accounts) = Total(ledger, Accounts) - ledger[who] + after[who]
<1>1. Counted(ledger, Accounts) /\ after[who] \in Nat
  BY LedgerCounts
<1> QED BY <1>1, TotalChange

LEMMA StakesCount ==
  ASSUME TypeOK
  PROVE  /\ StakeMap \in [Keys -> Nat] /\ IsFiniteSet(Keys)
         /\ Counted(StakeMap, HeldKeys) /\ Total(StakeMap, HeldKeys) \in Nat
<1>1. StakeMap \in [Keys -> Nat]
  BY DEF TypeOK, Registration, StakeMap, Keys
<1>2. IsFiniteSet(Fillers)
  BY AuctionAssumption, FS_Subset
<1>3. IsFiniteSet(Keys)
  BY <1>2, AuctionAssumption, FS_Product DEF Keys
<1>4. IsFiniteSet(HeldKeys)
  <2>1. HeldKeys \subseteq Keys
    BY DEF HeldKeys
  <2> QED BY <1>3, <2>1, FS_Subset
<1>5. Counted(StakeMap, HeldKeys)
  BY <1>1, <1>4 DEF Counted, HeldKeys
<1> QED BY <1>1, <1>3, <1>5, TotalType

LEMMA DepositMeans ==
  ASSUME NEW k \in Keys, Escrow!Deposit(k)
  PROVE  LET excess == balance' - balance - StakeMap'[k]
         IN  /\ PhaseMap[k] = "none" /\ PhaseMap' = [PhaseMap EXCEPT ![k] = "held"]
             /\ StakeMap'[k] \in Nat /\ excess \in Nat
             /\ StakeMap' = [StakeMap EXCEPT ![k] = StakeMap'[k]]
             /\ pendingReturns' = Credit(pendingReturns, k[2], excess)
BY DEF Escrow!Deposit, Escrow!Add, Credit, PhaseMap, StakeMap, Keys

LEMMA CloseMeans ==
  ASSUME NEW k \in Keys, Escrow!Close(k)
  PROVE  /\ PhaseMap[k] = "held" /\ PhaseMap' = [PhaseMap EXCEPT ![k] = "closed"]
         /\ StakeMap' = StakeMap /\ balance' = balance
         /\ \E caller \in Accounts, toOwner, toCaller \in 0..StakeMap[k] :
              /\ toOwner + toCaller <= StakeMap[k]
              /\ pendingReturns' = Credit(Credit(Credit(pendingReturns, k[2], toOwner), caller, toCaller),
                                          Treasury, StakeMap[k] - toOwner - toCaller)
<1> DEFINE owners == [q \in Orders \X Fillers |-> q[2]]
<1>1. /\ PhaseMap[k] = "held" /\ PhaseMap' = [PhaseMap EXCEPT ![k] = "closed"]
      /\ StakeMap' = StakeMap /\ balance' = balance
      /\ \E caller \in Accounts, toOwner, toCaller \in 0..StakeMap[k] :
           /\ toOwner + toCaller <= StakeMap[k]
           /\ pendingReturns' =
                Escrow!Add(Escrow!Add(Escrow!Add(pendingReturns, owners[k], toOwner), caller, toCaller),
                           Treasury, StakeMap[k] - toOwner - toCaller)
  BY Zenon DEF Escrow!Close, PhaseMap, StakeMap, Keys
<1>2. owners[k] = k[2]
  BY DEF Keys
<1>3. ASSUME NEW ledger, NEW who, NEW amount
      PROVE  Escrow!Add(ledger, who, amount) = Credit(ledger, who, amount)
  BY DEF Escrow!Add, Credit
<1> HIDE DEF owners
<1> QED BY <1>1, <1>2, <1>3

LEMMA DepositSolvent ==
  ASSUME TypeOK, Solvent, NEW k \in Keys, Escrow!Deposit(k), balance' \in Nat
  PROVE  Solvent'
<1> DEFINE excess == balance' - balance - StakeMap'[k]
<1>1. /\ PhaseMap[k] = "none" /\ PhaseMap' = [PhaseMap EXCEPT ![k] = "held"]
      /\ StakeMap'[k] \in Nat /\ excess \in Nat
      /\ StakeMap' = [StakeMap EXCEPT ![k] = StakeMap'[k]]
      /\ pendingReturns' = Credit(pendingReturns, k[2], excess)
  BY DepositMeans
<1>2. /\ k[2] \in Accounts /\ pendingReturns \in [Accounts -> Nat] /\ balance \in Nat
  BY FillerIsAccount DEF Keys, TypeOK
<1>3. Total(pendingReturns', Accounts) = Total(pendingReturns, Accounts) + excess
  <2> HIDE DEF excess
  <2> QED BY <1>1, <1>2, CreditAdds
<1>4. HeldKeys' = HeldKeys \cup {k} /\ k \notin HeldKeys
  BY <1>1 DEF HeldKeys, PhaseMap
<1>5. Total(StakeMap', HeldKeys) = Total(StakeMap, HeldKeys) /\ Counted(StakeMap', HeldKeys)
  <2>1. \A q \in HeldKeys : StakeMap'[q] = StakeMap[q]
    BY <1>1, <1>4 DEF HeldKeys, StakeMap
  <2> QED BY <2>1, StakesCount, TotalSame DEF Counted
<1>6. Total(StakeMap', HeldKeys') = Total(StakeMap, HeldKeys) + StakeMap'[k]
  BY <1>1, <1>4, <1>5, TotalAdd
<1>7. Total(StakeMap, HeldKeys) \in Nat /\ Total(pendingReturns, Accounts) \in Nat
  BY <1>2, StakesCount, LedgerCounts
<1>8. balance' = balance + StakeMap'[k] + excess
  BY <1>1, <1>2
<1>9. balance = Total(StakeMap, HeldKeys) + Total(pendingReturns, Accounts)
  BY SolventMeans
<1>10. balance' = Total(StakeMap', HeldKeys') + Total(pendingReturns', Accounts)
  <2> HIDE DEF excess
  <2> QED BY <1>1, <1>3, <1>6, <1>7, <1>8, <1>9
<1> QED BY <1>10, SolventMeansNext

LEMMA CloseSolvent ==
  ASSUME TypeOK, Solvent, NEW k \in Keys, Escrow!Close(k)
  PROVE  Solvent'
<1>1. /\ PhaseMap[k] = "held" /\ PhaseMap' = [PhaseMap EXCEPT ![k] = "closed"]
      /\ StakeMap' = StakeMap /\ balance' = balance
  BY CloseMeans
<1>2. PICK caller \in Accounts, toOwner \in 0..StakeMap[k], toCaller \in 0..StakeMap[k] :
        /\ toOwner + toCaller <= StakeMap[k]
        /\ pendingReturns' = Credit(Credit(Credit(pendingReturns, k[2], toOwner), caller, toCaller),
                                    Treasury, StakeMap[k] - toOwner - toCaller)
  BY CloseMeans
<1>3. /\ k[2] \in Accounts /\ Treasury \in Accounts /\ pendingReturns \in [Accounts -> Nat]
      /\ StakeMap[k] \in Nat
  BY FillerIsAccount, AuctionAssumption, StakesCount DEF Keys, TypeOK
<1>4. /\ toOwner \in Nat /\ toCaller \in Nat /\ StakeMap[k] - toOwner - toCaller \in Nat
  BY <1>2, <1>3
<1> DEFINE first  == Credit(pendingReturns, k[2], toOwner)
           second == Credit(first, caller, toCaller)
           rest   == StakeMap[k] - toOwner - toCaller
<1>5. first \in [Accounts -> Nat]
      /\ Total(first, Accounts) = Total(pendingReturns, Accounts) + toOwner
  BY <1>3, <1>4, CreditAdds
<1> HIDE DEF first
<1>6. second \in [Accounts -> Nat]
      /\ Total(second, Accounts) = Total(first, Accounts) + toCaller
  BY <1>4, <1>5, CreditAdds
<1> HIDE DEF second
<1>7. Total(pendingReturns', Accounts) = Total(second, Accounts) + rest
  <2>1. pendingReturns' = Credit(second, Treasury, rest) /\ rest \in Nat
    BY <1>2, <1>4 DEF first, second
  <2> HIDE DEF rest
  <2> QED BY <1>3, <1>6, <2>1, CreditAdds
<1>8. HeldKeys' = HeldKeys \ {k} /\ k \in HeldKeys
  BY <1>1 DEF HeldKeys, PhaseMap
<1>9. /\ Total(StakeMap, HeldKeys) = Total(StakeMap, HeldKeys \ {k}) + StakeMap[k]
      /\ Total(StakeMap, HeldKeys \ {k}) \in Nat
  <2>1. Counted(StakeMap, HeldKeys)
    BY StakesCount
  <2>2. Contributes(StakeMap, HeldKeys, k)
    BY <1>8, <2>1, TotalRemove, Zenon
  <2> QED BY <2>2, TotalType DEF Contributes
<1>10. Total(pendingReturns, Accounts) \in Nat
  BY <1>3, LedgerCounts
<1>11. balance = Total(StakeMap, HeldKeys) + Total(pendingReturns, Accounts)
  BY SolventMeans
<1>12. Total(StakeMap', HeldKeys') = Total(StakeMap, HeldKeys \ {k})
  BY <1>1, <1>8
<1>13. balance' = Total(StakeMap', HeldKeys') + Total(pendingReturns', Accounts)
  BY <1>1, <1>3, <1>4, <1>5, <1>6, <1>7, <1>9, <1>10, <1>11, <1>12
<1> QED BY <1>13, SolventMeansNext

LEMMA PayoutSolvent ==
  ASSUME TypeOK, Solvent, NEW a \in Accounts, Escrow!Payout(a)
  PROVE  Solvent'
<1>1. /\ balance' = balance - pendingReturns[a]
      /\ pendingReturns' = [pendingReturns EXCEPT ![a] = 0]
      /\ PhaseMap' = PhaseMap /\ StakeMap' = StakeMap
  BY DEF Escrow!Payout, PhaseMap, StakeMap, Keys
<1>2. pendingReturns \in [Accounts -> Nat] /\ pendingReturns[a] \in Nat
  BY DEF TypeOK
<1>4. Total(pendingReturns, Accounts) \in Nat
  BY <1>2, LedgerCounts
<1>5. Total(pendingReturns', Accounts) = Total(pendingReturns, Accounts) - pendingReturns[a]
  <2>1. /\ pendingReturns' \in [Accounts -> Nat] /\ pendingReturns'[a] = 0
        /\ \A b \in Accounts \ {a} : pendingReturns'[b] = pendingReturns[b]
    BY <1>1, <1>2
  <2>2. Total(pendingReturns', Accounts)
        = Total(pendingReturns, Accounts) - pendingReturns[a] + pendingReturns'[a]
    BY <1>2, <2>1, LedgerChange
  <2> QED BY <1>2, <1>4, <2>1, <2>2
<1>6. HeldKeys' = HeldKeys
  BY <1>1 DEF HeldKeys
<1>7. Total(StakeMap, HeldKeys) \in Nat
  BY StakesCount
<1>8. balance = Total(StakeMap, HeldKeys) + Total(pendingReturns, Accounts)
  BY SolventMeans
<1>9. balance' = Total(StakeMap', HeldKeys') + Total(pendingReturns', Accounts)
  BY <1>1, <1>2, <1>4, <1>5, <1>6, <1>7, <1>8
<1> QED BY <1>9, SolventMeansNext

LEMMA InitSolvent == Init => Solvent
<1> SUFFICES ASSUME Init PROVE Solvent
  OBVIOUS
<1>1. HeldKeys = {}
  BY InitEscrow DEF Escrow!Init, HeldKeys, PhaseMap, Keys
<1>2. balance = 0 /\ \A a \in Accounts : pendingReturns[a] = 0
  BY DEF Init, AuctionInit
<1>3. Total(StakeMap, HeldKeys) = 0 /\ Total(pendingReturns, Accounts) = 0
  BY <1>1, <1>2, TotalEmpty, TotalZero
<1> QED BY <1>2, <1>3, SolventMeans

LEMMA NextSolvent == IInv /\ Solvent /\ [Next]_vars => Solvent'
<1> SUFFICES ASSUME IInv, Solvent, [Next]_vars PROVE Solvent'
  OBVIOUS
<1>1. [Escrow!Next]_(Escrow!vars) /\ TypeOK /\ balance' \in Nat
  BY NextEscrow, NextIInv DEF IInv, TypeOK
<1>2. CASE Escrow!Next
  BY <1>1, <1>2, DepositSolvent, CloseSolvent, PayoutSolvent DEF Escrow!Next, Keys
<1>3. CASE UNCHANGED Escrow!vars
  <2>1. /\ PhaseMap' = PhaseMap /\ StakeMap' = StakeMap
        /\ pendingReturns' = pendingReturns /\ balance' = balance
    BY <1>3 DEF Escrow!vars, PhaseMap, StakeMap, Keys
  <2>2. HeldKeys' = HeldKeys
    BY <2>1 DEF HeldKeys
  <2>3. balance' = Total(StakeMap', HeldKeys') + Total(pendingReturns', Accounts)
    BY <2>1, <2>2, SolventMeans
  <2> QED BY <2>3, SolventMeansNext
<1> QED BY <1>1, <1>2, <1>3

(* FillAuction never owes more, and never holds less, than the stakes it   *)
(* has not settled and the returns it has promised, whatever orders, fills,*)
(* reconfigurations and withdrawals come in whatever order.                *)
THEOREM AuctionIsSolvent == Spec => []Solvent
<1> QED BY InitSolvent, NextSolvent, InvariantHolds, PTL DEF Spec

-----------------------------------------------------------------------------
(* The route of a fallback.                                                *)

(* A finite set of integers that is not empty has a greatest member: the   *)
(* one that the fewest members exceed.                                     *)
LEMMA MaxOfIntegers ==
  ASSUME NEW S \in SUBSET Int, S # {}, IsFiniteSet(S)
  PROVE  Max(S) \in S /\ \A y \in S : Max(S) >= y
<1> DEFINE Above(x) == {y \in S : y > x}
           rank == [x \in S |-> Cardinality(Above(x))]
           T == {rank[x] : x \in S}
<1>1. ASSUME NEW x \in S
      PROVE  IsFiniteSet(Above(x)) /\ rank[x] \in Nat
  <2>1. IsFiniteSet(Above(x))
    BY FinitePart
  <2> QED BY <2>1, FS_CardinalityType
<1>2. T \subseteq Nat /\ T # {}
  BY <1>1
<1>3. PICK m \in T : \A n \in T : m <= n
  <2> HIDE DEF T
  <2> QED BY <1>2, LeastExists
<1>4. PICK x \in S : m = rank[x]
  OBVIOUS
<1>5. ASSUME NEW y \in S, y > x
      PROVE  FALSE
  <2>1. Above(y) \subseteq Above(x) \ {y} /\ y \in Above(x)
    <3>1. x \in Int /\ y \in Int
      OBVIOUS
    <3>2. \A z \in S : z > y => z > x /\ z # y
      <4> TAKE z \in S
      <4>1. z \in Int
        OBVIOUS
      <4> QED BY <1>5, <3>1, <4>1
    <3> QED BY <1>5, <3>2, Zenon
  <2>2. IsFiniteSet(Above(x)) /\ IsFiniteSet(Above(y)) /\ rank[x] \in Nat /\ rank[y] \in Nat
    BY <1>1
  <2>3. rank[x] <= rank[y]
    BY <1>3, <1>4
  <2>4. rank[x] = Cardinality(Above(x)) /\ rank[y] = Cardinality(Above(y))
    OBVIOUS
  <2> HIDE DEF Above, rank
  <2>5. IsFiniteSet(Above(x) \ {y}) /\ Cardinality(Above(x) \ {y}) = Cardinality(Above(x)) - 1
    BY <2>1, <2>2, FS_RemoveElement
  <2>6. Cardinality(Above(y)) <= Cardinality(Above(x) \ {y})
    BY <2>1, <2>5, FS_Subset
  <2> QED BY <2>2, <2>3, <2>4, <2>5, <2>6
<1>6. x \in S /\ \A y \in S : x >= y
  BY <1>5
<1> QED BY <1>6 DEF Max

LEMMA AnswersAreIntegers ==
  ASSUME NEW answers \in Answers
  PROVE  \A a \in Aggregators : answers[a] \in Int
<1>1. \A output \in RouterOutputs \cup {NoRoute} : minAmountOut(output) \in Int
  <2> TAKE output \in RouterOutputs \cup {NoRoute}
  <2>1. CASE output = NoRoute
    BY <2>1 DEF minAmountOut, NoRoute
  <2>2. CASE output # NoRoute
    <3>1. output \in Nat
      BY <2>2, FallbackAssumption
    <3>2. SLIPPAGE_BPS \in Nat /\ BPS \in Nat \ {0}
      BY RouteAssumption DEF BPS
    <3>3. mulDiv(output, SLIPPAGE_BPS, BPS) \in Nat
      BY <3>1, <3>2, MulDivNat
    <3> QED BY <2>2, <3>1, <3>3 DEF minAmountOut
  <2> QED BY <2>1, <2>2
<1> DEFINE D == {minAmountOut(output) : output \in RouterOutputs \cup {NoRoute}}
<1>2. answers \in [Aggregators -> D]
  BY DEF Answers
<1>3. \A n \in D : n \in Int
  BY <1>1
<1> HIDE DEF D
<1> QED BY <1>2, <1>3

(* The quote that is picked is one of those asked for, and none is better. *)
LEMMA BestQuote ==
  ASSUME NEW answers \in Answers, NEW preferred
  PROVE  /\ getBestQuote(answers, preferred) \in Int
         /\ \/ getBestQuote(answers, preferred) = NoRoute
            \/ \E a \in Candidates(preferred) : getBestQuote(answers, preferred) = answers[a]
         /\ \A a \in Candidates(preferred) : getBestQuote(answers, preferred) >= answers[a]
         /\ Candidates(preferred) \subseteq Aggregators
<1> DEFINE C == Candidates(preferred)
           f == [a \in C |-> answers[a]]
           G == {answers[a] : a \in C}
           S == G \cup {NoRoute}
<1>1. C \subseteq Aggregators /\ IsFiniteSet(C)
  <2>1. C \subseteq Aggregators
    BY DEF Candidates
  <2> QED BY <2>1, RouteAssumption, FinitePart
<1>2. IsFiniteSet(G)
  <2>1. f \in Surjection(C, G)
    BY DEF Surjection
  <2> HIDE DEF f, C, G
  <2> QED BY <1>1, <2>1, FS_Surjection
<1>3. IsFiniteSet(S)
  <2> HIDE DEF G
  <2> QED BY <1>2, FS_AddElement
<1>4. S \subseteq Int /\ S # {}
  BY <1>1, AnswersAreIntegers DEF NoRoute
<1>5. Max(S) \in S /\ \A y \in S : Max(S) >= y
  <2> HIDE DEF S
  <2> QED BY <1>3, <1>4, MaxOfIntegers
<1>6. getBestQuote(answers, preferred) = Max(S)
  BY DEF getBestQuote
<1> DEFINE best == Max(S)
<1>7. best \in S /\ \A y \in S : best >= y
  BY <1>5
<1> HIDE DEF best
<1> QED BY <1>1, <1>4, <1>6, <1>7 DEF best

LEMMA MaxOfTwo ==
  ASSUME NEW x \in Int, NEW y \in Int
  PROVE  Max({x, y}) \in Int /\ \A n \in Int : n >= Max({x, y}) <=> n >= x /\ n >= y
<1>1. IsFiniteSet({x, y})
  <2>1. IsFiniteSet({x} \cup {y})
    BY FS_Singleton, FS_AddElement
  <2>2. {x} \cup {y} = {x, y}
    OBVIOUS
  <2> QED BY <2>1, <2>2
<1> DEFINE m == Max({x, y})
<1>2. m \in {x, y} /\ m >= x /\ m >= y
  BY <1>1, MaxOfIntegers
<1> HIDE DEF m
<1>3. m \in Int /\ \A n \in Int : n >= m <=> n >= x /\ n >= y
  BY <1>2
<1> QED BY <1>3 DEF m

LEMMA ShareType ==
  ASSUME TypeOK, NEW o \in Orders
  PROVE  /\ MinOutput[o] \in Nat /\ paid[o] \in Nat
         /\ mulDiv(MinOutput[o], remainingInput(o), InputAmount[o]) \in Nat
<1>1. /\ MinOutput[o] \in Nat /\ InputAmount[o] \in Nat \ {0} /\ paid[o] \in Nat
      /\ remainingInput(o) \in Nat
  BY OrderAssumption, RemainingNat DEF TypeOK
<1> QED BY <1>1, MulDivNat

(* A quote is what is required or more exactly when the chain accepts it,  *)
(* of an order whose fills the table knows; and only then, otherwise.      *)
LEMMA RequiredSettles ==
  ASSUME TypeOK, NEW o \in Orders, NEW paidSoFar \in 0..paid[o], NEW output \in Int
  PROVE  /\ output # NoRoute /\ output >= requiredMinOutput(o, paidSoFar) => Settles(o, output)
         /\ Settles(o, output) /\ paidSoFar = paid[o] => output >= requiredMinOutput(o, paidSoFar)
<1> DEFINE share == mulDiv(MinOutput[o], remainingInput(o), InputAmount[o])
           owed == remainingOutputOwed(o, paidSoFar)
<1>1. /\ MinOutput[o] \in Nat /\ paid[o] \in Nat /\ share \in Nat
  BY ShareType
<1>2. paidSoFar \in Nat /\ paidSoFar <= paid[o]
  BY <1>1
<1>3. /\ owed \in Nat /\ MinOutput[o] - paid[o] <= owed
      /\ paidSoFar = paid[o] => owed = 0 \/ owed = MinOutput[o] - paid[o]
  BY <1>1, <1>2 DEF remainingOutputOwed
<1>4. output >= requiredMinOutput(o, paidSoFar) <=> output >= share /\ output >= owed
  <2>1. requiredMinOutput(o, paidSoFar) = Max({share, owed})
    BY DEF requiredMinOutput, proRataFloor
  <2>2. share \in Int /\ owed \in Int
    BY <1>1, <1>3
  <2> HIDE DEF share, owed
  <2> QED BY <2>1, <2>2, MaxOfTwo
<1>5. Settles(o, output) <=> output # NoRoute /\ output >= share /\ paid[o] + output >= MinOutput[o]
  BY DEF Settles
<1> HIDE DEF share, owed
<1> QED BY <1>1, <1>2, <1>3, <1>4, <1>5

LEMMA TicksAreGood ==
  ASSUME TypeOK, NEW o \in Orders, NEW answers \in Answers
  PROVE  TicksSettle(o, answers)
<1>1. \A a \in Aggregators : answers[a] \in Int
  BY AnswersAreIntegers
<1>2. ASSUME NEW paidSoFar \in 0..paid[o], NEW a \in Ticked(o, paidSoFar, answers),
             NEW preferred, a \in Candidates(preferred)
      PROVE  Settles(o, getBestQuote(answers, preferred))
  <2> DEFINE best == getBestQuote(answers, preferred)
  <2>1. /\ best \in Int /\ best >= answers[a]
        /\ best = NoRoute \/ \E k \in Candidates(preferred) : best = answers[k]
    BY <1>2, BestQuote
  <2>2. a \in Aggregators /\ answers[a] # NoRoute /\ answers[a] >= requiredMinOutput(o, paidSoFar)
    BY DEF Ticked
  <2>3. Settles(o, answers[a])
    BY <1>1, <2>2, RequiredSettles
  <2>4. /\ MinOutput[o] \in Nat /\ paid[o] \in Nat
        /\ mulDiv(MinOutput[o], remainingInput(o), InputAmount[o]) \in Nat
    BY ShareType
  <2> HIDE DEF best
  <2> QED BY <1>1, <2>1, <2>2, <2>3, <2>4 DEF Settles, NoRoute, best
<1>3. ASSUME NEW paidSoFar \in 0..paid[o]
      PROVE  /\ Ticked(o, paidSoFar, answers) # {} => Settles(o, getBestQuote(answers, "auto"))
             /\ \A a \in Ticked(o, paidSoFar, answers) : Settles(o, getBestQuote(answers, a))
  <2>1. \A a \in Ticked(o, paidSoFar, answers) :
          a \in Aggregators /\ a \in Candidates("auto") /\ a \in Candidates(a)
    BY RouteAssumption DEF Ticked, Candidates
  <2> QED BY <1>2, <2>1
<1>4. paid[o] \in 0..paid[o]
  BY DEF TypeOK
<1>5. {a \in Aggregators : Settles(o, answers[a])} = Ticked(o, paid[o], answers)
  <2>1. \A a \in Aggregators :
          Settles(o, answers[a]) <=>
            answers[a] # NoRoute /\ answers[a] >= requiredMinOutput(o, paid[o])
    <3> TAKE a \in Aggregators
    <3>1. Settles(o, answers[a]) => answers[a] # NoRoute
      BY DEF Settles
    <3> QED BY <1>1, <1>4, <3>1, RequiredSettles
  <2> QED BY <2>1 DEF Ticked
<1> QED BY <1>3, <1>5 DEF TicksSettle

(* Whatever an order was sold for so far, and however far the fills table  *)
(* is behind: where the Orders page ticks an aggregator, the quote the     *)
(* watcher picks is one executeFallback accepts (fallbackWatcher.ts).      *)
THEOREM TicksCanBeReliedOn == Spec => []TickMeansFallback
<1>1. IInv => TickMeansFallback
  BY TicksAreGood DEF IInv, TickMeansFallback
<1> QED BY <1>1, InvariantHolds, PTL
=============================================================================
