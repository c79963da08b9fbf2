---------------------------- MODULE FillerBotProofs ----------------------------
(***************************************************************************)
(* A filler bot's properties hold for any number of orders, fillers and    *)
(* overlapping callbacks, any balances, order books, crashes and failures, *)
(* beside the commands of its prompt.  The argument is BotInv of           *)
(* FillerBot.tla: whatever is mined between two awaits of a callback moves *)
(* the contracts only onward, and what the callback knows bounds what is   *)
(* true of any later state.  HandInv of HandFill.tla says the same of what *)
(* a command knows, and leaves the bot's invariant as it is.               *)
(***************************************************************************)
EXTENDS HandFill, SettlementProofs

(* What no transaction takes back.                                         *)
Onward ==
  /\ block <= block'
  /\ recorded \subseteq recorded' /\ nonceInvalidated \subseteq nonceInvalidated'
  /\ \A o \in Orders :
       /\ cancelled[o] => cancelled'[o]
       /\ fallbackInitiated[o] => fallbackInitiated'[o]
       /\ remainingInput(o)' <= remainingInput(o)
       /\ raw'[o] = 0 => raw[o] = 0
       /\ raw[o] # 0 => openedAt'[o] = openedAt[o]
       /\ reg[o][Bot].registered => reg'[o][Bot].registered

(* The same, in the terms of Informed.                                     *)
ChainMoves ==
  /\ block' \in Nat /\ block <= block'
  /\ \A o \in Orders :
       /\ remainingInput(o)' \in Nat /\ remainingInput(o)' <= remainingInput(o)
       /\ StillOpen(o)' => StillOpen(o)
       /\ ~fallbackInitiated'[o] =>
            /\ ~fallbackInitiated[o]
            /\ PriceNow(o)' \in Nat /\ PriceNow(o)' <= PriceNow(o)
       /\ reg[o][Bot].registered => reg'[o][Bot].registered

(* The bot has staked on nothing new.                                      *)
NoNewStake ==
  \A o \in Orders :
    Active(reg'[o][Bot]) =>
      Active(reg[o][Bot]) /\ reg'[o][Bot].fillAmount = reg[o][Bot].fillAmount

-----------------------------------------------------------------------------
(* Prices.                                                                 *)
LEMMA CurveFalls ==
  ASSUME NEW o \in Orders, NEW i \in Nat, NEW j \in Nat, i <= j
  PROVE  CurveAfter(o, j) \in Nat /\ CurveAfter(o, j) <= CurveAfter(o, i)
         /\ CurveAfter(o, j) <= StartPrice[o]
<1>1. StartPrice[o] \in Nat /\ DecayPerBlock[o] \in Nat
  BY OrderAssumption
<1>2. i * DecayPerBlock[o] <= j * DecayPerBlock[o] /\ i * DecayPerBlock[o] \in Nat
      /\ j * DecayPerBlock[o] \in Nat
  BY <1>1
<1> QED BY <1>1, <1>2 DEF CurveAfter

PriceKnown ==
  \A o \in Orders :
    /\ PriceNow(o) \in Nat
    /\ isNewOrder(raw[o]) => PriceNow(o) = StartPrice[o]
    /\ ~isNewOrder(raw[o]) /\ ~fallbackInitiated[o] =>
         openedAt[o] <= block /\ PriceNow(o) = CurveAfter(o, block - openedAt[o])

LEMMA PriceIs == IInv => PriceKnown
<1> SUFFICES ASSUME IInv, NEW o \in Orders
             PROVE  /\ PriceNow(o) \in Nat
                    /\ isNewOrder(raw[o]) => PriceNow(o) = StartPrice[o]
                    /\ ~isNewOrder(raw[o]) /\ ~fallbackInitiated[o] =>
                         openedAt[o] <= block /\ PriceNow(o) = CurveAfter(o, block - openedAt[o])
  BY DEF PriceKnown
<1>1. TypeOK /\ CursorOnCurve
  BY DEF IInv
<1>2. PriceNow(o) \in Nat
  BY <1>1, PriceNat
<1>3. isNewOrder(raw[o]) => PriceNow(o) = StartPrice[o]
  BY DEF PriceNow
<1>4. ASSUME ~isNewOrder(raw[o]), ~fallbackInitiated[o]
      PROVE  openedAt[o] <= block /\ PriceNow(o) = CurveAfter(o, block - openedAt[o])
  BY <1>1, <1>4, PriceOnCurve DEF PriceNow
<1> QED BY <1>2, <1>3, <1>4

LEMMA PriceIsNext == IInv' => PriceKnown'
BY PriceIs, PTL

(* Whatever was mined, an order's price has not risen.                     *)
LEMMA PriceFalls ==
  ASSUME IInv, IInv', NEW o \in Orders, ~fallbackInitiated[o], ~fallbackInitiated'[o],
         block <= block', raw'[o] = 0 => raw[o] = 0, raw[o] # 0 => openedAt'[o] = openedAt[o]
  PROVE  PriceNow(o)' \in Nat /\ PriceNow(o)' <= PriceNow(o)
<1>1. /\ PriceNow(o) \in Nat
      /\ raw[o] = 0 => PriceNow(o) = StartPrice[o]
      /\ raw[o] # 0 => openedAt[o] <= block /\ PriceNow(o) = CurveAfter(o, block - openedAt[o])
  BY PriceIs DEF PriceKnown, isNewOrder
<1>2. /\ PriceNow(o)' \in Nat
      /\ raw'[o] = 0 => PriceNow(o)' = StartPrice[o]
      /\ raw'[o] # 0 =>
           openedAt'[o] <= block' /\ PriceNow(o)' = CurveAfter(o, block' - openedAt'[o])
  BY PriceIsNext DEF PriceKnown, isNewOrder, CurveAfter
<1>3. /\ block \in Nat /\ block' \in Nat /\ openedAt[o] \in Nat /\ openedAt'[o] \in Nat
      /\ StartPrice[o] \in Nat
  BY OrderAssumption DEF IInv, TypeOK
<1>4. CASE raw'[o] = 0
  BY <1>1, <1>2, <1>3, <1>4
<1>5. CASE raw'[o] # 0 /\ raw[o] = 0
  <2>1. block' - openedAt'[o] \in Nat
    BY <1>2, <1>3, <1>5
  <2> QED BY <1>1, <1>2, <1>3, <1>5, <2>1, CurveFalls
<1>6. CASE raw'[o] # 0 /\ raw[o] # 0
  <2>1. /\ block' - openedAt'[o] \in Nat /\ block - openedAt[o] \in Nat
        /\ block - openedAt[o] <= block' - openedAt'[o]
    BY <1>1, <1>2, <1>3, <1>6
  <2> QED BY <1>1, <1>2, <1>3, <1>6, <2>1, CurveFalls
<1> QED BY <1>4, <1>5, <1>6

LEMMA OnwardMoves ==
  ASSUME IInv, IInv', Onward
  PROVE  ChainMoves
<1>1. block' \in Nat /\ block <= block' /\ block \in Nat
  BY DEF IInv, TypeOK, Onward
<1> SUFFICES ASSUME NEW o \in Orders
             PROVE  /\ remainingInput(o)' \in Nat /\ remainingInput(o)' <= remainingInput(o)
                    /\ StillOpen(o)' => StillOpen(o)
                    /\ ~fallbackInitiated'[o] =>
                         /\ ~fallbackInitiated[o]
                         /\ PriceNow(o)' \in Nat /\ PriceNow(o)' <= PriceNow(o)
                    /\ reg[o][Bot].registered => reg'[o][Bot].registered
  BY <1>1 DEF ChainMoves
<1>2. /\ remainingInput(o)' \in Nat /\ remainingInput(o) \in Nat
      /\ remainingInput(o)' <= remainingInput(o)
  BY OrderAssumption DEF IInv, RemainingFits, Onward
<1>3. StillOpen(o)' => StillOpen(o)
  <2>1. Deadline[o] \in Nat /\ NonceOf[o] \in Nonces
    BY OrderAssumption
  <2> QED BY <1>1, <1>2, <2>1 DEF StillOpen, isNonceInvalidatedForOrder, Onward
<1>4. ASSUME ~fallbackInitiated'[o]
      PROVE  ~fallbackInitiated[o] /\ PriceNow(o)' \in Nat /\ PriceNow(o)' <= PriceNow(o)
  <2>1. ~fallbackInitiated[o]
    BY <1>4 DEF Onward
  <2> QED BY <1>1, <1>4, <2>1, PriceFalls DEF Onward
<1> QED BY <1>2, <1>3, <1>4 DEF Onward
-----------------------------------------------------------------------------
(* One lemma per transaction: the contracts' invariant stays, and they move*)
(* onward.                                                                 *)
ChainStep == IInv' /\ ChainMoves /\ NoNewStake

LEMMA Still ==
  ASSUME IInv, UNCHANGED vars
  PROVE  ChainStep
<1> USE DEF vars, reactorVars, fillVars, switchVars, auctionVars
<1>1. IInv'
  BY NextIInv
<1>2. Onward
  <2>1. block \in Nat /\ \A o \in Orders : remainingInput(o) \in Nat
    BY RemainingNat DEF IInv, TypeOK
  <2>2. \A o \in Orders : remainingInput(o)' = remainingInput(o)
    BY DEF remainingInput
  <2> QED BY <2>1, <2>2 DEF Onward
<1>3. NoNewStake
  BY DEF NoNewStake, Active, Settled
<1> QED BY <1>1, <1>2, <1>3, OnwardMoves DEF ChainStep

(* Blocks pass and orders die; nothing is filled and no stake touched.     *)
LEMMA SwitchesMove ==
  ASSUME IInv, IInv', UNCHANGED <<fillVars, fallbackInitiated, auctionVars>>,
         block <= block', recorded \subseteq recorded',
         nonceInvalidated \subseteq nonceInvalidated',
         \A o \in Orders : cancelled[o] => cancelled'[o]
  PROVE  ChainStep
<1> USE DEF fillVars, auctionVars
<1>1. \A o \in Orders : remainingInput(o) \in Nat
  BY RemainingNat DEF IInv
<1>2. \A o \in Orders : remainingInput(o)' = remainingInput(o)
  BY DEF remainingInput
<1>3. Onward
  BY <1>1, <1>2 DEF Onward
<1>4. NoNewStake
  BY DEF NoNewStake, Active, Settled
<1> QED BY <1>3, <1>4, OnwardMoves DEF ChainStep

LEMMA NextBlockMoves ==
  ASSUME IInv, NextBlock, UNCHANGED fallbackVars
  PROVE  ChainStep
<1>1. IInv'
  BY NextBlockPreserves
<1>2. block <= block'
  BY DEF NextBlock, IInv, TypeOK
<1> QED BY <1>1, <1>2, SwitchesMove DEF NextBlock, switchVars

LEMMA CancelMoves ==
  ASSUME IInv, NEW o \in Orders, cancelOrder(o), UNCHANGED fallbackVars
  PROVE  ChainStep
<1>1. IInv'
  BY CancelPreserves
<1>2. block <= block'
  BY DEF cancelOrder, IInv, TypeOK
<1>3. \A p \in Orders : cancelled[p] => cancelled'[p]
  BY DEF cancelOrder, IInv, TypeOK
<1> QED BY <1>1, <1>2, <1>3, SwitchesMove DEF cancelOrder

LEMMA InvalidateMoves ==
  ASSUME IInv, NEW n \in Nonces, invalidateNonce(n), UNCHANGED fallbackVars
  PROVE  ChainStep
<1>1. IInv'
  BY InvalidatePreserves
<1>2. block <= block'
  BY DEF invalidateNonce, IInv, TypeOK
<1> QED BY <1>1, <1>2, SwitchesMove DEF invalidateNonce

(* A stake is closed and nothing filled.                                   *)
LEMMA ClosingMoves ==
  ASSUME IInv, IInv', UNCHANGED reactorVars,
         NEW o \in Orders, NEW f \in Fillers,
         Settled(reg'[o][f]), SameTerms(reg[o][f], reg'[o][f]),
         \A p \in Orders, g \in Fillers : ~(p = o /\ g = f) => reg'[p][g] = reg[p][g]
  PROVE  ChainStep
<1> USE DEF reactorVars, fillVars, switchVars
<1>1. block \in Nat /\ \A p \in Orders : remainingInput(p) \in Nat
  BY RemainingNat DEF IInv, TypeOK
<1>2. \A p \in Orders : remainingInput(p)' = remainingInput(p)
  BY DEF remainingInput
<1>3. \A p \in Orders : reg[p][Bot].registered => reg'[p][Bot].registered
  BY BotAssumption DEF SameTerms
<1>4. Onward
  BY <1>1, <1>2, <1>3 DEF Onward
<1>5. NoNewStake
  BY BotAssumption DEF NoNewStake, Active, SameTerms
<1> QED BY <1>4, <1>5, OnwardMoves DEF ChainStep

LEMMA SlashMoves ==
  ASSUME IInv, NEW o \in Orders, NEW f \in Fillers, NEW caller \in Accounts,
         slash(o, f, caller), UNCHANGED fallbackVars
  PROVE  ChainStep
<1>1. IInv'
  BY SlashPreserves
<1>2. TypeOK /\ slashStake(o, f, caller) /\ UNCHANGED reactorVars
  BY DEF IInv, slash
<1>3. /\ reg'[o][f].slashed /\ SameTerms(reg[o][f], reg'[o][f])
      /\ \A p \in Orders, g \in Fillers : ~(p = o /\ g = f) => reg'[p][g] = reg[p][g]
  BY <1>2, SlashSetsOne
<1>4. Settled(reg'[o][f])
  BY <1>3 DEF Settled
<1> QED BY <1>1, <1>2, <1>3, <1>4, ClosingMoves

LEMMA ReleaseMoves ==
  ASSUME IInv, NEW o \in Orders, NEW f \in Fillers,
         releaseRegistration(o, f), UNCHANGED fallbackVars
  PROVE  ChainStep
<1>1. IInv'
  BY ReleasePreserves
<1>2. TypeOK /\ releaseStake(o, f) /\ UNCHANGED reactorVars
  BY DEF IInv, releaseRegistration
<1>3. /\ reg'[o][f].released /\ SameTerms(reg[o][f], reg'[o][f])
      /\ \A p \in Orders, g \in Fillers : ~(p = o /\ g = f) => reg'[p][g] = reg[p][g]
  BY <1>2, ReleaseSetsOne
<1>4. Settled(reg'[o][f])
  BY <1>3 DEF Settled
<1> QED BY <1>1, <1>2, <1>3, <1>4, ClosingMoves

(* A registration: the bot's own is the one new stake it may have.         *)
LEMMA RegisterMoves ==
  ASSUME IInv, NEW o \in Orders, NEW f \in Fillers, NEW n \in Nat,
         Register(o, f, n), UNCHANGED fallbackVars
  PROVE  /\ IInv' /\ ChainMoves
         /\ f # Bot => NoNewStake
         /\ ~reg[o][f].registered
         /\ reg'[o][f].fillAmount = n
         /\ \A p \in Orders, g \in Fillers : ~(p = o /\ g = f) => reg'[p][g] = reg[p][g]
         /\ UNCHANGED <<block, fillVars, cancelled>>
<1>1. IInv'
  BY RegisterPreserves
<1>2. PICK excess \in Nat : Commits(o, f, n, excess)
  BY RegisterRegisters DEF IInv
<1>3. /\ recorded' = recorded \cup {o}
      /\ UNCHANGED <<block, fillVars, payVars, fallbackInitiated, cancelled, nonceInvalidated>>
  BY DEF Register
<1>4. /\ ~reg[o][f].registered /\ reg'[o][f].registered /\ reg'[o][f].fillAmount = n
      /\ \A p \in Orders, g \in Fillers : ~(p = o /\ g = f) => reg'[p][g] = reg[p][g]
  BY <1>2 DEF Commits
<1>5. \A p \in Orders : reg[p][Bot].registered => reg'[p][Bot].registered
  BY <1>4, BotAssumption
<1>6. block \in Nat /\ \A p \in Orders : remainingInput(p) \in Nat
  BY RemainingNat DEF IInv, TypeOK
<1>7. \A p \in Orders : remainingInput(p)' = remainingInput(p)
  BY <1>3 DEF remainingInput, fillVars
<1>8. Onward
  BY <1>3, <1>5, <1>6, <1>7 DEF Onward, fillVars
<1>9. f # Bot => NoNewStake
  BY <1>4, BotAssumption DEF NoNewStake
<1> QED BY <1>1, <1>3, <1>4, <1>8, <1>9, OnwardMoves

LEMMA ExecuteMoves ==
  ASSUME IInv, NEW o \in Orders, NEW f \in Fillers, NEW n \in Nat,
         executePartialChunk(o, f, n), UNCHANGED fallbackVars
  PROVE  ChainStep /\ reg'[o][f].registered /\ Settled(reg'[o][f])
<1>1. IInv'
  BY ExecutePreserves
<1>2. /\ TypeOK /\ FillChecks(o, f, n) /\ TakeInput(o, n)
      /\ onFillSuccess(o, f, n, remainingInput(o))
      /\ UNCHANGED <<block, switchVars, frame>>
  BY DEF IInv, executePartialChunk, PayOutput
<1>3. reg[o][f].registered
  BY <1>2, FillChecksEffect
<1>4. /\ reg'[o][f].filled /\ SameTerms(reg[o][f], reg'[o][f])
      /\ \A p \in Orders, g \in Fillers : ~(p = o /\ g = f) => reg'[p][g] = reg[p][g]
  BY <1>2, FillSetsOne
<1>5. Settled(reg'[o][f]) /\ reg'[o][f].registered
  BY <1>3, <1>4 DEF Settled, SameTerms
<1>6. /\ remainingInput(o)' = remainingInput(o) - n
      /\ \A p \in Orders : p # o => remainingInput(p)' = remainingInput(p)
  BY <1>2, TakeInputEffect DEF switchVars
<1>7. block \in Nat /\ \A p \in Orders : remainingInput(p) \in Nat
  BY <1>2, RemainingNat DEF TypeOK
<1>8. \A p \in Orders : raw'[p] = 0 => raw[p] = 0
  <2> DEFINE left == remainingInput(o) - n
             packed == IF left = 0 THEN fullyFilled ELSE pack(left)
  <2>1. left \in 0..InputAmount[o]
    BY <1>2, FillChecksEffect
  <2> HIDE DEF left
  <2>2. packed # 0
    BY <2>1, PackUnpack
  <2>3. raw' = [raw EXCEPT ![o] = packed]
    BY <1>2 DEF TakeInput, left
  <2> HIDE DEF packed
  <2> QED BY <1>2, <2>2, <2>3 DEF TypeOK
<1>9. \A p \in Orders : raw[p] # 0 => openedAt'[p] = openedAt[p]
  BY <1>2 DEF TypeOK, TakeInput, isNewOrder
<1>10. \A p \in Orders : reg[p][Bot].registered => reg'[p][Bot].registered
  BY <1>4, BotAssumption DEF SameTerms
<1>11. Onward
  BY <1>2, <1>6, <1>7, <1>8, <1>9, <1>10 DEF Onward, switchVars
<1>12. NoNewStake
  BY <1>4, <1>5, BotAssumption DEF NoNewStake, Active
<1> QED BY <1>1, <1>5, <1>11, <1>12, OnwardMoves DEF ChainStep

LEMMA FallbackMoves ==
  ASSUME IInv, NEW o \in Orders, NEW r \in Routers, executeFallback(o, r)
  PROVE  ChainStep
<1>1. IInv'
  BY FallbackPreserves
<1>2. /\ TypeOK
      /\ raw' = [raw EXCEPT ![o] = fullyFilled]
      /\ fallbackInitiated' = [fallbackInitiated EXCEPT ![o] = TRUE]
      /\ UNCHANGED <<block, openedAt, cancelled, nonceInvalidated, recorded, auctionVars>>
  BY DEF IInv, executeFallback, StartFallback, markFallbackInitiated
<1>3. fullyFilled # 0 /\ Unpack(fullyFilled, InputAmount[o]) = 0
  BY OrderAssumption DEF fullyFilled, Unpack
<1> HIDE DEF fullyFilled
<1>4. /\ raw'[o] = fullyFilled
      /\ \A p \in Orders : p # o => raw'[p] = raw[p]
      /\ \A p \in Orders : fallbackInitiated[p] => fallbackInitiated'[p]
  BY <1>2 DEF TypeOK
<1>5. /\ remainingInput(o)' = 0
      /\ \A p \in Orders : p # o => remainingInput(p)' = remainingInput(p)
  BY <1>3, <1>4 DEF remainingInput
<1>6. block \in Nat /\ \A p \in Orders : remainingInput(p) \in Nat
  BY <1>2, RemainingNat DEF TypeOK
<1>7. Onward
  BY <1>2, <1>3, <1>4, <1>5, <1>6 DEF Onward, auctionVars
<1>8. NoNewStake
  BY <1>2 DEF NoNewStake, Active, Settled, auctionVars
<1> QED BY <1>1, <1>7, <1>8, OnwardMoves DEF ChainStep
-----------------------------------------------------------------------------
(* The bot's side of a step.  An order that is no longer watched is over,  *)
(* or its stake was settled.                                               *)
Dropped ==
  \A o \in Orders :
    o \in watching /\ o \notin watching' =>
      ~StillOpen(o)' \/ (reg'[o][Bot].registered /\ ~Active(reg'[o][Bot]))

(* Informed(k) after the step.                                             *)
InformedNext(k) ==
  /\ k.pc # "idle" => k.now <= block'
  /\ \A o \in Orders : k.order = o =>
       /\ k.pc \notin {"idle", "loop"} =>
            o \in watching' \/ ~StillOpen(o)' \/ reg'[o][Bot].registered
       /\ k.pc \in {"cancelled", "decide_register"} => remainingInput(o)' <= k.onChainRemaining
       /\ k.pc = "register" /\ strategy' = "whale" =>
            k.fillAmount >= MinFill[o] \/ k.fillAmount >= remainingInput(o)'
       /\ k.pc = "execute" /\ ~fallbackInitiated'[o] => PriceNow(o)' <= k.currentPrice
       /\ k.pc = "release" => ~StillOpen(o)'

LEMMA InformedPrimed ==
  ASSUME NEW c \in Callbacks, InformedNext(cb'[c])
  PROVE  Informed(cb[c])'
BY DEF Informed, InformedNext, Fillable

(* What a callback knows stays true while it awaits.                       *)
LEMMA InformedStays ==
  ASSUME IInv, ChainMoves, Dropped, strategy' = strategy, NEW k \in Callback, Informed(k)
  PROVE  InformedNext(k)
<1>1. block \in Nat /\ block' \in Nat /\ block <= block' /\ k.now \in Nat
  BY DEF IInv, TypeOK, ChainMoves, Callback
<1>2. k.pc # "idle" => k.now <= block'
  BY <1>1 DEF Informed
<1> SUFFICES ASSUME NEW o \in Orders, k.order = o
             PROVE  /\ k.pc \notin {"idle", "loop"} =>
                         o \in watching' \/ ~StillOpen(o)' \/ reg'[o][Bot].registered
                    /\ k.pc \in {"cancelled", "decide_register"} =>
                         remainingInput(o)' <= k.onChainRemaining
                    /\ k.pc = "register" /\ strategy' = "whale" =>
                         k.fillAmount >= MinFill[o] \/ k.fillAmount >= remainingInput(o)'
                    /\ k.pc = "execute" /\ ~fallbackInitiated'[o] =>
                         PriceNow(o)' <= k.currentPrice
                    /\ k.pc = "release" => ~StillOpen(o)'
  BY <1>2 DEF InformedNext
<1>3. /\ remainingInput(o) \in Nat /\ remainingInput(o)' \in Nat
      /\ remainingInput(o)' <= remainingInput(o)
      /\ k.onChainRemaining \in Nat /\ k.fillAmount \in Nat /\ k.currentPrice \in Nat
      /\ MinFill[o] \in Nat
  BY RemainingNat, OrderAssumption DEF IInv, ChainMoves, Callback
<1>4. k.pc \notin {"idle", "loop"} =>
        o \in watching' \/ ~StillOpen(o)' \/ reg'[o][Bot].registered
  BY DEF Informed, Dropped, ChainMoves
<1>5. k.pc \in {"cancelled", "decide_register"} => remainingInput(o)' <= k.onChainRemaining
  BY <1>3 DEF Informed
<1>6. k.pc = "register" /\ strategy' = "whale" =>
        k.fillAmount >= MinFill[o] \/ k.fillAmount >= remainingInput(o)'
  BY <1>3 DEF Informed, Fillable
<1>7. ASSUME k.pc = "execute", ~fallbackInitiated'[o]
      PROVE  PriceNow(o)' <= k.currentPrice
  <2>1. ~fallbackInitiated[o] /\ PriceNow(o)' \in Nat /\ PriceNow(o)' <= PriceNow(o)
    BY <1>7 DEF ChainMoves
  <2>2. PriceNow(o) \in Nat /\ PriceNow(o) <= k.currentPrice
    BY <1>7, <2>1, PriceIs DEF PriceKnown, Informed
  <2> QED BY <1>3, <2>1, <2>2
<1>8. k.pc = "release" => ~StillOpen(o)'
  BY DEF Informed, ChainMoves
<1> QED BY <1>4, <1>5, <1>6, <1>7, <1>8

(* Without a new stake, what the bot staked on stays watched and fillable. *)
LEMMA StakesStay ==
  ASSUME IInv, WhaleCommitmentFillable, StakedIsWatched,
         ChainMoves, NoNewStake, Dropped, seen' \subseteq seen \cup watching',
         UNCHANGED <<strategy, crashes>>
  PROVE  WhaleCommitmentFillable' /\ StakedIsWatched'
<1>1. ASSUME strategy' = "whale", NEW o \in Orders, Active(reg'[o][Bot])
      PROVE  \/ reg'[o][Bot].fillAmount >= MinFill[o]
             \/ reg'[o][Bot].fillAmount >= remainingInput(o)'
  <2>1. /\ Active(reg[o][Bot]) /\ reg'[o][Bot].fillAmount = reg[o][Bot].fillAmount
    BY <1>1 DEF NoNewStake
  <2>2. reg[o][Bot].fillAmount >= MinFill[o] \/ reg[o][Bot].fillAmount >= remainingInput(o)
    BY <1>1, <2>1 DEF WhaleCommitmentFillable, CommitmentFillable, Fillable
  <2>3. /\ remainingInput(o) \in Nat /\ remainingInput(o)' \in Nat
        /\ remainingInput(o)' <= remainingInput(o)
        /\ MinFill[o] \in Nat
    BY RemainingNat, OrderAssumption DEF IInv, ChainMoves
  <2>4. reg[o][Bot] \in Registration
    BY BotAssumption DEF IInv, TypeOK
  <2>5. reg[o][Bot].fillAmount \in Nat
    BY <2>4 DEF Registration
  <2> QED BY <2>1, <2>2, <2>3, <2>5
<1>2. ASSUME crashes' = 0, NEW o \in Orders, Active(reg'[o][Bot]), StillOpen(o)'
      PROVE  o \in watching' \/ o \notin seen'
  <2>1. Active(reg[o][Bot]) /\ StillOpen(o)
    BY <1>2 DEF NoNewStake, ChainMoves
  <2> QED BY <1>2, <2>1 DEF StakedIsWatched, Dropped
<1>3. WhaleCommitmentFillable'
  BY <1>1 DEF WhaleCommitmentFillable, CommitmentFillable, Fillable
<1>4. StakedIsWatched'
  BY <1>2 DEF StakedIsWatched
<1> QED BY <1>3, <1>4

LEMMA OrphansStay ==
  ASSUME IInv, BotTypeOK, OrphansFit, ChainMoves, UNCHANGED <<strategy, crashes>>,
         orphans' \subseteq orphans
  PROVE  OrphansFit'
<1> SUFFICES ASSUME NEW t \in orphans'
             PROVE  /\ crashes' > 0
                    /\ strategy' = "whale" /\ t.kind = "register" =>
                         \A o \in Orders : t.order = o =>
                           t.fillAmount >= MinFill[o] \/ t.fillAmount >= remainingInput(o)'
  BY DEF OrphansFit, Fillable
<1>1. t \in orphans /\ t.fillAmount \in Nat /\ crashes > 0
  BY DEF BotTypeOK, OrphansFit
<1>2. ASSUME NEW o \in Orders, t.order = o, strategy = "whale", t.kind = "register"
      PROVE  t.fillAmount >= MinFill[o] \/ t.fillAmount >= remainingInput(o)'
  <2>1. t.fillAmount >= MinFill[o] \/ t.fillAmount >= remainingInput(o)
    BY <1>1, <1>2 DEF OrphansFit, Fillable
  <2>2. /\ remainingInput(o) \in Nat /\ remainingInput(o)' \in Nat /\ MinFill[o] \in Nat
        /\ remainingInput(o)' <= remainingInput(o)
    BY RemainingNat, OrderAssumption DEF IInv, ChainMoves
  <2> QED BY <1>1, <2>1, <2>2
<1> QED BY <1>1, <1>2

-----------------------------------------------------------------------------
(* A step of one callback, c, with its stakes accounted for.  Of the others*)
(* it changes at most which entries they have been to.                     *)
Alike(k, m) ==
  /\ m.pc = k.pc /\ m.now = k.now /\ m.order = k.order
  /\ m.onChainRemaining = k.onChainRemaining
  /\ m.fillAmount = k.fillAmount /\ m.currentPrice = k.currentPrice

LEMMA AlikeInformed ==
  ASSUME NEW k, NEW m, Alike(k, m), InformedNext(k)
  PROVE  InformedNext(m)
BY DEF Alike, InformedNext

LEMMA StillAhead ==
  ASSUME NEW a \in Nat, NEW b \in Nat, a <= b, NEW h \in 0..(a + 1)
  PROVE  h \in 0..(b + 1)
OBVIOUS

LEMMA TypesStay ==
  ASSUME BotTypeOK, ChainMoves, UNCHANGED <<strategy, crashes>>,
         up' \in BOOLEAN, seen' \subseteq Orders, watching' \subseteq Orders,
         registered' \in [Orders -> Nat], heard' \in 0..(block' + 1),
         cb' \in [Callbacks -> Callback], orphans' \subseteq orphans
  PROVE  BotTypeOK'
BY DEF BotTypeOK

(* What is left to show of a step for BotInv to survive it.                *)
LEMMA StepPreserves ==
  ASSUME BotInv, IInv', ChainMoves, Dropped,
         WhaleCommitmentFillable', StakedIsWatched',
         UNCHANGED <<strategy, crashes>>, seen' \subseteq seen \cup watching',
         up' \in BOOLEAN, seen' \subseteq Orders, watching' \subseteq Orders,
         registered' \in [Orders -> Nat], heard' \in 0..(block' + 1),
         cb' \in [Callbacks -> Callback], orphans' \subseteq orphans,
         \A k \in Callbacks : Alike(cb[k], cb'[k]) \/ InformedNext(cb'[k])
  PROVE  BotInv'
<1>1. /\ IInv /\ BotTypeOK /\ OrphansFit /\ \A k \in Callbacks : Informed(cb[k])
  BY DEF BotInv
<1>2. BotTypeOK'
  BY <1>1, TypesStay
<1>3. OrphansFit'
  BY <1>1, OrphansStay
<1>4. ASSUME NEW k \in Callbacks PROVE Informed(cb[k])'
  <2>1. CASE InformedNext(cb'[k])
    BY <2>1, InformedPrimed
  <2>2. CASE Alike(cb[k], cb'[k])
    <3>1. cb[k] \in Callback /\ Informed(cb[k])
      BY <1>1 DEF BotTypeOK
    <3>2. InformedNext(cb[k])
      BY <1>1, <3>1, InformedStays
    <3>3. InformedNext(cb'[k])
      BY <2>2, <3>2, AlikeInformed
    <3> QED BY <3>3, InformedPrimed
  <2> QED BY <2>1, <2>2
<1>5. SeenIsWatched'
  <2> SUFFICES ASSUME NEW o \in seen', o \notin watching', StillOpen(o)'
               PROVE  reg'[o][Bot].registered
    BY DEF SeenIsWatched
  <2>1. o \in seen /\ o \in Orders /\ StillOpen(o)
    BY <1>1 DEF BotTypeOK, ChainMoves
  <2>2. o \in watching \/ reg[o][Bot].registered
    BY <2>1 DEF BotInv, SeenIsWatched
  <2> QED BY <2>1, <2>2 DEF Dropped, ChainMoves
<1> QED BY <1>2, <1>3, <1>4, <1>5 DEF BotInv

LEMMA HeardStays ==
  ASSUME IInv, BotTypeOK, ChainMoves, heard' = heard
  PROVE  heard' \in 0..(block' + 1)
<1>1. heard \in 0..(block + 1)
  BY DEF BotTypeOK
<1>2. block \in Nat /\ block' \in Nat /\ block <= block'
  BY DEF IInv, TypeOK, ChainMoves
<1>3. heard \in 0..(block' + 1)
  BY <1>1, <1>2, StillAhead
<1> QED BY <1>3

(* The contracts move, the bot's memory does not.                          *)
LEMMA ChainPreserves ==
  ASSUME BotInv, ChainStep, UNCHANGED botVars
  PROVE  BotInv'
<1>1. /\ IInv /\ BotTypeOK /\ WhaleCommitmentFillable /\ StakedIsWatched
      /\ UNCHANGED <<watching, registered, cb, strategy, up, seen, heard, orphans, crashes>>
      /\ IInv' /\ ChainMoves /\ NoNewStake
  BY DEF BotInv, botVars, mapVars, hostVars, ChainStep
<1>2. Dropped
  BY <1>1 DEF Dropped
<1>3. WhaleCommitmentFillable' /\ StakedIsWatched'
  BY <1>1, <1>2, StakesStay
<1>4. \A k \in Callbacks : Alike(cb[k], cb'[k])
  BY <1>1 DEF Alike
<1>5. heard' \in 0..(block' + 1)
  BY <1>1, HeardStays
<1> QED BY <1>1, <1>2, <1>3, <1>4, <1>5, StepPreserves DEF BotTypeOK

(* The turn of one callback, c, that stakes on nothing new.                *)
LEMMA TurnPreserves ==
  ASSUME BotInv, ChainStep, Dropped, UNCHANGED hostVars,
         watching' \subseteq Orders, registered' \in [Orders -> Nat],
         cb' \in [Callbacks -> Callback],
         NEW c \in Callbacks, InformedNext(cb'[c]),
         \A k \in Callbacks : k # c => Alike(cb[k], cb'[k])
  PROVE  BotInv'
<1>1. /\ IInv /\ BotTypeOK /\ WhaleCommitmentFillable /\ StakedIsWatched
      /\ UNCHANGED <<strategy, up, seen, heard, orphans, crashes>>
      /\ IInv' /\ ChainMoves /\ NoNewStake
  BY DEF BotInv, hostVars, ChainStep
<1>2. WhaleCommitmentFillable' /\ StakedIsWatched'
  BY <1>1, StakesStay
<1>3. heard' \in 0..(block' + 1)
  BY <1>1, HeardStays
<1>4. up' \in BOOLEAN /\ seen' \subseteq Orders
  BY <1>1 DEF BotTypeOK
<1> QED BY <1>1, <1>2, <1>3, <1>4, StepPreserves

-----------------------------------------------------------------------------
(* The loop of a callback.                                                 *)
LEMMA IdleIsCallback == IdleCallback \in Callback /\ IdleCallback.pc = "idle"
<1>1. (CHOOSE o \in Orders : TRUE) \in Orders
  BY BotAssumption
<1> QED BY <1>1 DEF IdleCallback, Callback

LEMMA LoopShape ==
  ASSUME NEW calls \in [Callbacks -> Callback], NEW w, NEW c \in Callbacks
  PROVE  /\ BackToLoop(calls, c, w) \in [Callbacks -> Callback]
         /\ \A k \in Callbacks : k # c => BackToLoop(calls, c, w)[k] = calls[k]
         /\ \/ BackToLoop(calls, c, w)[c].pc = "idle"
            \/ /\ BackToLoop(calls, c, w)[c].pc = "loop"
               /\ BackToLoop(calls, c, w)[c].now = calls[c].now
<1> DEFINE next == [IdleCallback EXCEPT !.pc = "loop", !.now = calls[c].now,
                                        !.visited = calls[c].visited]
<1>1. IdleCallback \in Callback /\ IdleCallback.pc = "idle"
  BY IdleIsCallback
<1>2. calls[c] \in Callback
  OBVIOUS
<1>3. next \in Callback /\ next.pc = "loop" /\ next.now = calls[c].now
  BY <1>1, <1>2 DEF Callback
<1>4. BackToLoop(calls, c, w) =
        [calls EXCEPT ![c] = IF w \subseteq calls[c].visited THEN IdleCallback ELSE next]
  BY DEF BackToLoop
<1> HIDE DEF next
<1> QED BY <1>1, <1>3, <1>4

LEMMA ForgottenShape ==
  ASSUME NEW calls \in [Callbacks -> Callback], NEW o
  PROVE  /\ Forgotten(calls, o) \in [Callbacks -> Callback]
         /\ \A k \in Callbacks : Alike(calls[k], Forgotten(calls, o)[k])
<1> SUFFICES ASSUME NEW k \in Callbacks
             PROVE  /\ [calls[k] EXCEPT !.visited = @ \ {o}] \in Callback
                    /\ Alike(calls[k], [calls[k] EXCEPT !.visited = @ \ {o}])
  BY DEF Forgotten
<1>1. calls[k] \in Callback
  OBVIOUS
<1> QED BY <1>1 DEF Callback, Alike

LEMMA LoopInformed ==
  ASSUME NEW k, k.pc = "idle" \/ (k.pc = "loop" /\ k.now <= block')
  PROVE  InformedNext(k)
BY DEF InformedNext

(* The callback is done with an order that it leaves as it was.            *)
LEMMA LoopTurn ==
  ASSUME BotInv, ChainStep, Dropped, UNCHANGED hostVars,
         watching' \subseteq Orders, registered' \in [Orders -> Nat],
         NEW c \in Callbacks, cb[c].pc # "idle",
         NEW w, cb' = BackToLoop(cb, c, w)
  PROVE  BotInv'
<1>1. cb \in [Callbacks -> Callback] /\ Informed(cb[c])
  BY DEF BotInv, BotTypeOK
<1>2. /\ cb' \in [Callbacks -> Callback]
      /\ \A k \in Callbacks : k # c => cb'[k] = cb[k]
      /\ cb'[c].pc = "idle" \/ (cb'[c].pc = "loop" /\ cb'[c].now = cb[c].now)
  BY <1>1, LoopShape
<1>3. cb[c].now <= block'
  <2>1. cb[c].now <= block /\ cb[c].now \in Nat /\ block \in Nat
    BY <1>1 DEF Informed, BotInv, IInv, TypeOK, Callback
  <2> QED BY <2>1 DEF ChainStep, ChainMoves
<1>4. InformedNext(cb'[c])
  BY <1>2, <1>3, LoopInformed
<1>5. \A k \in Callbacks : k # c => Alike(cb[k], cb'[k])
  BY <1>2 DEF Alike
<1> QED BY <1>2, <1>4, <1>5, TurnPreserves

(* It drops an order that is over for the bot.                             *)
LEMMA DropTurn ==
  ASSUME BotInv, ChainStep, UNCHANGED hostVars,
         NEW c \in Callbacks, cb[c].pc # "idle", NEW o \in Orders,
         watching' = watching \ {o},
         registered' = [registered EXCEPT ![o] = 0],
         cb' = Forgotten(BackToLoop(cb, c, watching \ {o}), o),
         ~StillOpen(o)' \/ (reg'[o][Bot].registered /\ ~Active(reg'[o][Bot]))
  PROVE  BotInv'
<1> DEFINE looped == BackToLoop(cb, c, watching \ {o})
<1>1. /\ cb \in [Callbacks -> Callback] /\ Informed(cb[c])
      /\ watching \subseteq Orders /\ registered \in [Orders -> Nat]
  BY DEF BotInv, BotTypeOK
<1>2. Dropped
  BY DEF Dropped
<1>3. /\ looped \in [Callbacks -> Callback]
      /\ \A k \in Callbacks : k # c => looped[k] = cb[k]
      /\ looped[c].pc = "idle" \/ (looped[c].pc = "loop" /\ looped[c].now = cb[c].now)
  BY <1>1, LoopShape
<1>4. cb' = Forgotten(looped, o)
  OBVIOUS
<1> HIDE DEF looped
<1>5. /\ cb' \in [Callbacks -> Callback]
      /\ \A k \in Callbacks : Alike(looped[k], cb'[k])
  BY <1>3, <1>4, ForgottenShape
<1>6. cb[c].now <= block'
  <2>1. cb[c].now <= block /\ cb[c].now \in Nat /\ block \in Nat
    BY <1>1 DEF Informed, BotInv, IInv, TypeOK, Callback
  <2> QED BY <2>1 DEF ChainStep, ChainMoves
<1>7. InformedNext(cb'[c])
  BY <1>3, <1>5, <1>6, LoopInformed DEF Alike
<1>8. \A k \in Callbacks : k # c => Alike(cb[k], cb'[k])
  BY <1>3, <1>5
<1>9. watching' \subseteq Orders /\ registered' \in [Orders -> Nat]
  BY <1>1
<1> QED BY <1>2, <1>5, <1>7, <1>8, <1>9, TurnPreserves

(* It goes on with the order, as callback k, watching no order less.       *)
LEMMA GoOnTurn ==
  ASSUME BotInv, UNCHANGED <<vars, hostVars>>, NEW c \in Callbacks,
         watching \subseteq watching', watching' \subseteq Orders,
         registered' \in [Orders -> Nat],
         NEW k \in Callback, cb' = [cb EXCEPT ![c] = k], InformedNext(k)
  PROVE  BotInv'
<1>1. cb \in [Callbacks -> Callback]
  BY DEF BotInv, BotTypeOK
<1>2. /\ cb' \in [Callbacks -> Callback] /\ cb'[c] = k
      /\ \A other \in Callbacks : other # c => Alike(cb[other], cb'[other])
  BY <1>1 DEF Alike
<1>3. ChainStep
  BY Still DEF BotInv
<1>4. Dropped
  BY DEF Dropped
<1> QED BY <1>2, <1>3, <1>4, TurnPreserves

-----------------------------------------------------------------------------
(* One lemma per action of the bot.                                        *)
LEMMA PollPreserves ==
  ASSUME BotInv, NEW o \in Orders, Poll(o)
  PROVE  BotInv'
<1>1. /\ IInv /\ BotTypeOK /\ WhaleCommitmentFillable /\ StakedIsWatched
      /\ IInv' /\ ChainMoves /\ NoNewStake
  BY Still DEF BotInv, Poll, ChainStep
<1>2. Dropped
  BY DEF Poll, Dropped
<1>3. WhaleCommitmentFillable' /\ StakedIsWatched'
  BY <1>1, <1>2, StakesStay DEF Poll
<1>4. \A k \in Callbacks : Alike(cb[k], cb'[k])
  BY DEF Poll, Alike
<1>5. heard' \in 0..(block' + 1)
  BY <1>1, HeardStays DEF Poll
<1> QED BY <1>1, <1>2, <1>3, <1>4, <1>5, StepPreserves DEF Poll, BotTypeOK

LEMMA OnBlockPreserves ==
  ASSUME BotInv, NEW c \in Callbacks, OnBlock(c)
  PROVE  BotInv'
<1>1. /\ IInv /\ BotTypeOK /\ WhaleCommitmentFillable /\ StakedIsWatched
      /\ IInv' /\ ChainMoves /\ NoNewStake
  BY Still DEF BotInv, OnBlock, ChainStep
<1>2. Dropped
  BY DEF OnBlock, mapVars, Dropped
<1>3. WhaleCommitmentFillable' /\ StakedIsWatched'
  BY <1>1, <1>2, StakesStay DEF OnBlock
<1>4. heard \in Nat /\ block \in Nat /\ heard <= block /\ heard' = heard + 1 /\ block' = block
  BY <1>1 DEF OnBlock, BotTypeOK, IInv, TypeOK, vars, reactorVars
<1>5. heard' \in 0..(block' + 1)
  BY <1>4
<1>6. cb' \in [Callbacks -> Callback] /\ \A k \in Callbacks : Alike(cb[k], cb'[k]) \/ InformedNext(cb'[k])
  <2> DEFINE begun == [cb[c] EXCEPT !.pc = "loop", !.now = heard]
  <2>1. cb \in [Callbacks -> Callback] /\ cb[c] \in Callback
    BY <1>1 DEF BotTypeOK
  <2>2. begun \in Callback /\ begun.pc = "loop" /\ begun.now <= block'
    BY <1>4, <2>1 DEF Callback
  <2>3. cb' = cb \/ cb' = [cb EXCEPT ![c] = begun]
    BY <2>1 DEF OnBlock, Callback
  <2> HIDE DEF begun
  <2>4. InformedNext(begun)
    BY <2>2, LoopInformed
  <2> QED BY <2>1, <2>2, <2>3, <2>4 DEF Alike
<1> QED BY <1>1, <1>2, <1>3, <1>5, <1>6, StepPreserves DEF OnBlock, mapVars, BotTypeOK

LEMMA EndOfLoopPreserves ==
  ASSUME BotInv, NEW c \in Callbacks, EndOfLoop(c)
  PROVE  BotInv'
<1>1. InformedNext(IdleCallback)
  BY IdleIsCallback, LoopInformed
<1>2. watching \subseteq Orders /\ registered \in [Orders -> Nat]
  BY DEF BotInv, BotTypeOK
<1> QED BY <1>1, <1>2, IdleIsCallback, GoOnTurn DEF EndOfLoop, mapVars

LEMMA VisitPreserves ==
  ASSUME BotInv, NEW c \in Callbacks, NEW o \in Orders, Visit(c, o)
  PROVE  BotInv'
<1>1. /\ cb \in [Callbacks -> Callback] /\ cb[c] \in Callback /\ Informed(cb[c])
      /\ watching \subseteq Orders /\ registered \in [Orders -> Nat]
      /\ cb[c].pc = "loop" /\ o \in watching /\ UNCHANGED <<vars, hostVars>>
  BY DEF BotInv, BotTypeOK, Visit, At
<1>2. ChainStep /\ block' = block
  BY <1>1, Still DEF BotInv, vars, reactorVars
<1>3. cb[c].now <= block /\ cb[c].now \in Nat /\ block \in Nat /\ Deadline[o] \in Nat
  BY <1>1, OrderAssumption DEF Informed, BotInv, IInv, TypeOK, Callback
<1> DEFINE been == [cb EXCEPT ![c].visited = @ \cup {o}]
           tooEarly == Deadline[o] - cb[c].now > REGISTER_AT_BLOCKS_LEFT * 3
<1>4. CASE /\ cb[c].now > Deadline[o]
           /\ watching' = watching \ {o}
           /\ registered' = [registered EXCEPT ![o] = 0]
           /\ cb' = Forgotten(BackToLoop(cb, c, watching \ {o}), o)
  <2>1. ~StillOpen(o)'
    BY <1>2, <1>3, <1>4 DEF StillOpen
  <2> QED BY <1>1, <1>2, <1>4, <2>1, DropTurn
<1>5. CASE cb' = BackToLoop(been, c, watching) /\ UNCHANGED mapVars
  <2>1. /\ been \in [Callbacks -> Callback] /\ been[c].now = cb[c].now
        /\ \A k \in Callbacks : k # c => been[k] = cb[k]
    BY <1>1 DEF Callback
  <2> HIDE DEF been
  <2>2. /\ cb' \in [Callbacks -> Callback]
        /\ \A k \in Callbacks : k # c => cb'[k] = been[k]
        /\ cb'[c].pc = "idle" \/ (cb'[c].pc = "loop" /\ cb'[c].now = been[c].now)
    BY <1>5, <2>1, LoopShape
  <2>3. InformedNext(cb'[c])
    BY <1>2, <1>3, <2>1, <2>2, LoopInformed
  <2>4. \A k \in Callbacks : k # c => Alike(cb[k], cb'[k])
    BY <2>1, <2>2 DEF Alike
  <2>5. Dropped /\ watching' \subseteq Orders /\ registered' \in [Orders -> Nat]
    BY <1>1, <1>5 DEF mapVars, Dropped
  <2> QED BY <1>1, <1>2, <2>2, <2>3, <2>4, <2>5, TurnPreserves
<1>6. CASE cb' = [been EXCEPT ![c].pc = "fetch", ![c].order = o] /\ UNCHANGED mapVars
  <2> DEFINE k == [cb[c] EXCEPT !.visited = @ \cup {o}, !.pc = "fetch", !.order = o]
  <2>1. k \in Callback /\ k.pc = "fetch" /\ k.order = o /\ k.now = cb[c].now
    BY <1>1 DEF Callback
  <2>2. cb' = [cb EXCEPT ![c] = k]
    BY <1>1, <1>6 DEF Callback
  <2> HIDE DEF k, been
  <2>3. watching' = watching /\ registered' = registered
    BY <1>6 DEF mapVars
  <2>4. InformedNext(k)
    BY <1>1, <1>2, <1>3, <2>1, <2>3 DEF InformedNext
  <2> QED BY <1>1, <2>1, <2>2, <2>3, <2>4, GoOnTurn
<1> QED BY <1>4, <1>5, <1>6 DEF Visit

(* A callback that goes on knows what it knew, and what it has just read.  *)
LEMMA StillInformed ==
  ASSUME BotInv, UNCHANGED <<vars, strategy>>, watching \subseteq watching',
         NEW c \in Callbacks, NEW m, cb[c].pc \notin {"idle", "loop"},
         m.order = cb[c].order, m.now = cb[c].now,
         \A o \in Orders : m.order = o =>
           /\ m.pc \in {"cancelled", "decide_register"} =>
                remainingInput(o)' <= m.onChainRemaining
           /\ m.pc = "register" /\ strategy' = "whale" =>
                m.fillAmount >= MinFill[o] \/ m.fillAmount >= remainingInput(o)'
           /\ m.pc = "execute" /\ ~fallbackInitiated'[o] => PriceNow(o)' <= m.currentPrice
           /\ m.pc = "release" => ~StillOpen(o)'
  PROVE  InformedNext(m)
<1>1. IInv /\ cb[c] \in Callback /\ Informed(cb[c])
  BY DEF BotInv, BotTypeOK
<1>2. ChainMoves
  BY <1>1, Still DEF ChainStep
<1>3. InformedNext(cb[c])
  BY <1>1, <1>2, InformedStays DEF Dropped
<1> QED BY <1>3 DEF InformedNext

LEMMA FetchPreserves ==
  ASSUME BotInv, NEW c \in Callbacks, Fetch(c)
  PROVE  BotInv'
<1> DEFINE k == [cb[c] EXCEPT !.pc = "remaining"]
<1>1. /\ cb \in [Callbacks -> Callback] /\ cb[c] \in Callback
      /\ watching \subseteq Orders /\ registered \in [Orders -> Nat]
      /\ cb[c].pc = "fetch" /\ UNCHANGED <<vars, registered, hostVars>>
  BY DEF BotInv, BotTypeOK, Fetch, At
<1>2. watching \subseteq watching' /\ watching' \subseteq Orders
  BY <1>1 DEF Fetch, Callback
<1>3. /\ k \in Callback /\ k.pc = "remaining" /\ k.order = cb[c].order /\ k.now = cb[c].now
      /\ cb' = [cb EXCEPT ![c] = k]
  BY <1>1 DEF Fetch, Goto, Callback
<1> HIDE DEF k
<1>4. InformedNext(k)
  BY <1>1, <1>2, <1>3, StillInformed DEF hostVars
<1> QED BY <1>1, <1>2, <1>3, <1>4, GoOnTurn

(* The order is sold out or cancelled.                                     *)
LEMMA ReclaimPreserves ==
  ASSUME BotInv, NEW c \in Callbacks, cb[c].pc \notin {"idle", "loop"},
         UNCHANGED <<vars, hostVars>>, ~StillOpen(cb[c].order), Reclaim(c)
  PROVE  BotInv'
<1>0. PICK o \in Orders : o = cb[c].order
  BY DEF BotInv, BotTypeOK, Callback
<1> DEFINE k == [cb[c] EXCEPT !.pc = "release"]
<1>1. /\ cb \in [Callbacks -> Callback] /\ cb[c] \in Callback /\ o = cb[c].order
      /\ watching \subseteq Orders /\ registered \in [Orders -> Nat]
  BY <1>0 DEF BotInv, BotTypeOK
<1>2. ChainStep /\ ~StillOpen(o)'
  <2>1. ChainStep
    BY Still DEF BotInv
  <2> QED BY <1>0, <2>1 DEF ChainStep, ChainMoves
<1>3. CASE Drop(c)
  <2>1. /\ watching' = watching \ {o}
        /\ registered' = [registered EXCEPT ![o] = 0]
        /\ cb' = Forgotten(BackToLoop(cb, c, watching \ {o}), o)
    BY <1>1, <1>3 DEF Drop
  <2> QED BY <1>1, <1>2, <2>1, DropTurn
<1>4. CASE Goto(c, "release") /\ UNCHANGED mapVars
  <2>1. /\ k \in Callback /\ k.pc = "release" /\ k.order = o /\ k.now = cb[c].now
        /\ cb' = [cb EXCEPT ![c] = k]
        /\ watching' = watching /\ registered' = registered
    BY <1>1, <1>4 DEF Goto, mapVars, Callback
  <2> HIDE DEF k
  <2>2. InformedNext(k)
    BY <1>1, <1>2, <2>1, StillInformed DEF hostVars
  <2> QED BY <1>1, <2>1, <2>2, GoOnTurn
<1> QED BY <1>3, <1>4 DEF Reclaim

LEMMA LeastNat ==
  ASSUME NEW a \in Nat, NEW b \in Nat
  PROVE  Least(a, b) \in Nat /\ Least(a, b) <= a /\ Least(a, b) <= b
         /\ (Least(a, b) = a \/ Least(a, b) = b)
BY DEF Least

(* What it has read as left, it may be less by now.                        *)
LEMMA EnterPhasePreserves ==
  ASSUME BotInv, NEW c \in Callbacks, cb[c].pc \notin {"idle", "loop"},
         UNCHANGED <<vars, hostVars>>, NEW left \in Nat,
         remainingInput(cb[c].order) <= left, EnterPhase(c, left)
  PROVE  BotInv'
<1>0. PICK o \in Orders : o = cb[c].order
  BY DEF BotInv, BotTypeOK, Callback
<1> DEFINE ke == [cb[c] EXCEPT !.pc = "decide_execute", !.onChainRemaining = 0,
                               !.fillAmount = Least(registered[o], left)]
           kr == [cb[c] EXCEPT !.pc = "decide_register", !.onChainRemaining = left]
<1>1. /\ cb \in [Callbacks -> Callback] /\ cb[c] \in Callback /\ o = cb[c].order
      /\ watching \subseteq Orders /\ registered \in [Orders -> Nat]
      /\ watching' = watching /\ registered' = registered
  BY <1>0 DEF BotInv, BotTypeOK, EnterPhase, mapVars
<1>2. CASE cb' = [cb EXCEPT ![c].pc = "decide_execute", ![c].onChainRemaining = 0,
                            ![c].fillAmount = Least(registered[o], left)]
  <2>1. Least(registered[o], left) \in Nat
    BY <1>1, LeastNat
  <2>2. /\ ke \in Callback /\ ke.pc = "decide_execute" /\ ke.order = o /\ ke.now = cb[c].now
        /\ cb' = [cb EXCEPT ![c] = ke]
    BY <1>1, <1>2, <2>1 DEF Callback
  <2> HIDE DEF ke
  <2>3. InformedNext(ke)
    BY <1>1, <2>2, StillInformed DEF hostVars
  <2> QED BY <1>1, <2>2, <2>3, GoOnTurn
<1>3. CASE cb' = [cb EXCEPT ![c].pc = "decide_register", ![c].onChainRemaining = left]
  <2>1. /\ kr \in Callback /\ kr.pc = "decide_register" /\ kr.order = o /\ kr.now = cb[c].now
        /\ kr.onChainRemaining = left /\ cb' = [cb EXCEPT ![c] = kr]
    BY <1>1, <1>3 DEF Callback
  <2>2. remainingInput(o)' <= left
    BY <1>1 DEF remainingInput, vars, reactorVars, fillVars
  <2> HIDE DEF kr
  <2>3. InformedNext(kr)
    BY <1>1, <2>1, <2>2, StillInformed DEF hostVars
  <2> QED BY <1>1, <2>1, <2>3, GoOnTurn
<1>4. CASE cb' = BackToLoop(cb, c, watching)
  <2>1. ChainStep
    BY Still DEF BotInv
  <2>2. Dropped
    BY <1>1 DEF Dropped
  <2> QED BY <1>1, <1>4, <2>1, <2>2, LoopTurn
<1> QED BY <1>1, <1>2, <1>3, <1>4 DEF EnterPhase

LEMMA ReadRemainingPreserves ==
  ASSUME BotInv, NEW c \in Callbacks, ReadRemaining(c)
  PROVE  BotInv'
<1>0. PICK o \in Orders : o = cb[c].order
  BY DEF BotInv, BotTypeOK, Callback
<1> DEFINE k == [cb[c] EXCEPT !.pc = "cancelled", !.onChainRemaining = remainingInput(o)]
<1>1. /\ cb \in [Callbacks -> Callback] /\ cb[c] \in Callback /\ o = cb[c].order
      /\ watching \subseteq Orders /\ registered \in [Orders -> Nat]
      /\ cb[c].pc = "remaining" /\ UNCHANGED <<vars, hostVars>>
  BY <1>0 DEF BotInv, BotTypeOK, ReadRemaining, At
<1>2. remainingInput(o) \in Nat
  BY <1>1, RemainingNat DEF BotInv, IInv
<1>3. CASE remainingInput(o) = 0 /\ Reclaim(c)
  <2>1. ~StillOpen(cb[c].order)
    BY <1>0, <1>3 DEF StillOpen
  <2> QED BY <1>1, <1>3, <2>1, ReclaimPreserves
<1>4. CASE /\ cb' = [cb EXCEPT ![c].pc = "cancelled", ![c].onChainRemaining = remainingInput(o)]
           /\ UNCHANGED mapVars
  <2>1. /\ k \in Callback /\ k.pc = "cancelled" /\ k.order = o /\ k.now = cb[c].now
        /\ k.onChainRemaining = remainingInput(o) /\ cb' = [cb EXCEPT ![c] = k]
        /\ watching' = watching /\ registered' = registered
    BY <1>1, <1>2, <1>4 DEF Callback, mapVars
  <2>2. remainingInput(o)' = remainingInput(o)
    BY <1>1 DEF remainingInput, vars, reactorVars, fillVars
  <2> HIDE DEF k
  <2>3. InformedNext(k)
    BY <1>1, <1>2, <2>1, <2>2, StillInformed DEF hostVars
  <2> QED BY <1>1, <2>1, <2>3, GoOnTurn
<1>5. CASE EnterPhase(c, remainingInput(o))
  BY <1>1, <1>2, <1>5, EnterPhasePreserves
<1> QED BY <1>1, <1>3, <1>4, <1>5 DEF ReadRemaining

LEMMA ReadCancelledPreserves ==
  ASSUME BotInv, NEW c \in Callbacks, ReadCancelled(c)
  PROVE  BotInv'
<1>1. /\ cb[c] \in Callback /\ Informed(cb[c]) /\ cb[c].pc = "cancelled"
      /\ UNCHANGED <<vars, hostVars>>
  BY DEF BotInv, BotTypeOK, ReadCancelled, At
<1>2. CASE cancelled[cb[c].order] /\ Reclaim(c)
  <2>1. ~StillOpen(cb[c].order)
    BY <1>2 DEF StillOpen
  <2> QED BY <1>1, <1>2, <2>1, ReclaimPreserves
<1>3. CASE EnterPhase(c, cb[c].onChainRemaining)
  <2>1. cb[c].onChainRemaining \in Nat /\ cb[c].order \in Orders
    BY <1>1 DEF Callback
  <2>2. remainingInput(cb[c].order) <= cb[c].onChainRemaining
    BY <1>1, <2>1 DEF Informed
  <2> QED BY <1>1, <1>3, <2>1, <2>2, EnterPhasePreserves
<1> QED BY <1>2, <1>3 DEF ReadCancelled

-----------------------------------------------------------------------------
(* The two decisions.                                                      *)
LEMMA CapacityNat ==
  ASSUME NEW funds \in Nat, NEW price \in Nat \ {0}
  PROVE  Capacity(funds, price) \in Nat
<1>1. BPS \in Nat \ {0} /\ MAX_INVENTORY_USE_BPS \in Nat
  BY StrategyAssumption DEF BPS
<1>2. usableBalance(funds) \in Nat
  BY <1>1, MulDivNat DEF usableBalance
<1> QED BY <1>2, MulDivNat, StrategyAssumption DEF Capacity

(* A Whale fills nothing, or at least the minimum chunk.                   *)
LEMMA WhaleDecides ==
  ASSUME NEW startPrice \in Nat, NEW price \in Nat, NEW inputAmount \in Nat,
         NEW minFill \in Nat, NEW funds \in Nat
  PROVE  LET fill == whaleDecide(startPrice, price, inputAmount, minFill, funds)
         IN  fill \in Nat /\ (fill = 0 \/ fill >= minFill)
<1> DEFINE fill == Least(Capacity(funds, price), inputAmount)
           pays == /\ price < mulDiv(startPrice, BPS + FAKE_MARKET_PREMIUM_BPS, BPS)
                   /\ mulDiv(mulDiv(startPrice, BPS + FAKE_MARKET_PREMIUM_BPS, BPS) - price, BPS,
                             mulDiv(startPrice, BPS + FAKE_MARKET_PREMIUM_BPS, BPS))
                        >= MIN_SPREAD_BPS
                   /\ Capacity(funds, price) > 0
<1>1. whaleDecide(startPrice, price, inputAmount, minFill, funds) =
        IF price > 0 /\ pays /\ fill >= minFill THEN fill ELSE 0
  BY DEF whaleDecide
<1>2. price > 0 => fill \in Nat
  BY CapacityNat, LeastNat
<1> HIDE DEF fill, pays
<1> QED BY <1>1, <1>2

LEMMA CowDecides ==
  ASSUME NEW price \in Nat, NEW inputAmount \in Nat, NEW funds \in Nat, NEW bids
  PROVE  cowDecide(price, inputAmount, funds, bids) \in Nat
<1> DEFINE available == Least(Capacity(funds, price), inputAmount)
           result    == match(price, available, bids)
           pays      == /\ result.fillAmount > 0
                        /\ result.totalRevenue - result.totalCost >= MIN_PROFIT_RAW
<1>1. price > 0 => available \in Nat
  BY CapacityNat, LeastNat
<1>2. cowDecide(price, inputAmount, funds, bids) =
        IF price > 0 /\ pays /\ result.fillAmount = available THEN result.fillAmount ELSE 0
  BY DEF cowDecide
<1> HIDE DEF available, result, pays
<1> QED BY <1>1, <1>2

LEMMA Decides ==
  ASSUME BotInv, NEW c \in Callbacks, NEW o \in Orders, o = cb[c].order,
         NEW price \in Nat, NEW wallet \in Balances, NEW bids
  PROVE  LET fill == decide(c, price, wallet, bids)
         IN  fill \in Nat /\ (strategy = "whale" => fill = 0 \/ fill >= MinFill[o])
<1>1. /\ StartPrice[o] \in Nat /\ InputAmount[o] \in Nat /\ MinFill[o] \in Nat
      /\ wallet \in Nat
  BY OrderAssumption, BotAssumption
<1> DEFINE whale == whaleDecide(StartPrice[o], price, InputAmount[o], MinFill[o], wallet)
           cow   == cowDecide(price, InputAmount[o], wallet, bids)
<1>2. whale \in Nat /\ (whale = 0 \/ whale >= MinFill[o]) /\ cow \in Nat
  BY <1>1, WhaleDecides, CowDecides
<1>3. decide(c, price, wallet, bids) =
        IF Deadline[o] - cb[c].now < MinBlocksLeft THEN 0
        ELSE IF strategy = "whale" THEN whale ELSE cow
  BY DEF decide
<1> HIDE DEF whale, cow
<1> QED BY <1>2, <1>3

(* The bot's price curve is the reactor's, for the fill block it was shown.*)
LEMMA DecayedIsCurve ==
  ASSUME NEW o \in Orders, NEW first \in Int, NEW now \in Nat
  PROVE  DecayedPrice(StartPrice[o], DecayPerBlock[o], first, now) =
           CurveAfter(o, IF now > first THEN now - first ELSE 0)
<1> DEFINE passed == IF now > first THEN now - first ELSE 0
<1>1. StartPrice[o] \in Nat /\ DecayPerBlock[o] \in Nat /\ passed \in Nat
  BY OrderAssumption
<1>2. passed * DecayPerBlock[o] \in Nat
  BY <1>1
<1>3. DecayedPrice(StartPrice[o], DecayPerBlock[o], first, now) =
        IF StartPrice[o] > passed * DecayPerBlock[o]
          THEN StartPrice[o] - passed * DecayPerBlock[o] ELSE 0
  BY DEF DecayedPrice
<1>4. CurveAfter(o, passed) =
        IF passed * DecayPerBlock[o] >= StartPrice[o]
          THEN 0 ELSE StartPrice[o] - passed * DecayPerBlock[o]
  BY DEF CurveAfter
<1> QED BY <1>1, <1>2, <1>3, <1>4

(* A list of fills that is late and a block that has passed only make the  *)
(* price the bot works out too high.                                       *)
LEMMA PriceIsEnough ==
  ASSUME BotInv, NEW c \in Callbacks, cb[c].pc # "idle",
         NEW o \in Orders, o = cb[c].order, NEW first \in ShownFirstFill(c, o)
  PROVE  LET price == DecayedPrice(StartPrice[o], DecayPerBlock[o], first, cb[c].now)
         IN  price \in Nat /\ (~fallbackInitiated[o] => PriceNow(o) <= price)
<1> DEFINE passed == IF cb[c].now > first THEN cb[c].now - first ELSE 0
<1>1. /\ IInv /\ cb[c] \in Callback /\ Informed(cb[c])
  BY DEF BotInv, BotTypeOK
<1>2. /\ cb[c].now \in Nat /\ block \in Nat /\ cb[c].now <= block
      /\ openedAt[o] \in Nat /\ cursor[o].resetAt \in Nat /\ StartPrice[o] \in Nat
  BY <1>1, OrderAssumption DEF Callback, Informed, IInv, TypeOK
<1>3. /\ first \in Int
      /\ first = cb[c].now \/ (~isNewOrder(raw[o]) /\ openedAt[o] <= first)
  BY <1>2 DEF ShownFirstFill
<1>4. passed \in Nat
  BY <1>2, <1>3
<1>5. DecayedPrice(StartPrice[o], DecayPerBlock[o], first, cb[c].now) = CurveAfter(o, passed)
  BY <1>2, <1>3, DecayedIsCurve
<1>6. CurveAfter(o, passed) \in Nat
  BY <1>4, CurveFalls
<1>7. ASSUME ~fallbackInitiated[o]
      PROVE  PriceNow(o) <= CurveAfter(o, passed)
  <2>1. CASE isNewOrder(raw[o])
    <3>1. passed = 0
      BY <1>2, <1>3, <2>1
    <3>2. CurveAfter(o, 0) = StartPrice[o]
      BY <1>2, OrderAssumption DEF CurveAfter
    <3>3. PriceNow(o) = StartPrice[o]
      BY <1>1, <2>1, PriceIs DEF PriceKnown
    <3> HIDE DEF passed
    <3> QED BY <1>2, <3>1, <3>2, <3>3
  <2>2. CASE ~isNewOrder(raw[o])
    <3>1. openedAt[o] <= block /\ PriceNow(o) = CurveAfter(o, block - openedAt[o])
      BY <1>1, <1>7, <2>2, PriceIs DEF PriceKnown
    <3>2. passed <= block - openedAt[o] /\ block - openedAt[o] \in Nat
      BY <1>2, <1>3, <3>1
    <3> HIDE DEF passed
    <3> QED BY <1>4, <3>1, <3>2, CurveFalls
  <2> QED BY <2>1, <2>2
<1> HIDE DEF passed
<1> QED BY <1>5, <1>6, <1>7

-----------------------------------------------------------------------------
LEMMA DecideRegisterPreserves ==
  ASSUME BotInv, NEW c \in Callbacks, DecideRegister(c)
  PROVE  BotInv'
<1>1. /\ IInv /\ cb \in [Callbacks -> Callback] /\ cb[c] \in Callback /\ Informed(cb[c])
      /\ watching \subseteq Orders /\ registered \in [Orders -> Nat]
      /\ cb[c].pc = "decide_register" /\ UNCHANGED <<vars, watching, hostVars>>
  BY DEF BotInv, BotTypeOK, DecideRegister, At
<1>2. PICK o \in Orders : o = cb[c].order
  BY <1>1 DEF Callback
<1> DEFINE Decided(p, first, wallet, bids) ==
             LET price == DecayedPrice(StartPrice[p], DecayPerBlock[p], first, cb[c].now)
                 fill  == decide(c, price, wallet, bids)
                 n     == Least(fill, cb[c].onChainRemaining)
             IN  IF fill = 0
                   THEN cb' = BackToLoop(cb, c, watching) /\ UNCHANGED registered
                   ELSE /\ registered' = [registered EXCEPT ![p] = n]
                        /\ cb' = [cb EXCEPT ![c].pc = "register", ![c].fillAmount = n,
                                            ![c].onChainRemaining = 0]
<1>3. PICK first \in ShownFirstFill(c, o), wallet \in Balances, bids \in Books :
        Decided(o, first, wallet, bids)
  <2>1. \E first \in ShownFirstFill(c, cb[c].order), wallet \in Balances, bids \in Books :
          Decided(cb[c].order, first, wallet, bids)
    BY DEF DecideRegister
  <2> HIDE DEF Decided
  <2> QED BY <1>2, <2>1
<1> DEFINE price == DecayedPrice(StartPrice[o], DecayPerBlock[o], first, cb[c].now)
           fill  == decide(c, price, wallet, bids)
           left  == cb[c].onChainRemaining
           n     == Least(fill, left)
           k     == [cb[c] EXCEPT !.pc = "register", !.fillAmount = n, !.onChainRemaining = 0]
<1>4. price \in Nat
  BY <1>1, <1>2, PriceIsEnough
<1>5. fill \in Nat /\ (strategy = "whale" => fill = 0 \/ fill >= MinFill[o])
  <2> HIDE DEF price
  <2> QED BY <1>2, <1>4, Decides
<1>6. left \in Nat /\ remainingInput(o) <= left
  BY <1>1, <1>2 DEF Callback, Informed
<1>7. n \in Nat /\ (n = fill \/ n = left)
  <2> HIDE DEF fill, left
  <2> QED BY <1>5, <1>6, LeastNat
<1>8. CASE fill = 0
  <2>1. cb' = BackToLoop(cb, c, watching) /\ registered' = registered
    BY <1>3, <1>8
  <2>2. ChainStep /\ Dropped
    BY <1>1, Still DEF Dropped
  <2> QED BY <1>1, <2>1, <2>2, LoopTurn
<1>9. CASE fill # 0
  <2>1. /\ registered' = [registered EXCEPT ![o] = n]
        /\ cb' = [cb EXCEPT ![c].pc = "register", ![c].fillAmount = n,
                            ![c].onChainRemaining = 0]
    BY <1>3, <1>9
  <2>2. strategy = "whale" => n >= MinFill[o] \/ n >= remainingInput(o)
    BY <1>5, <1>6, <1>7, <1>9
  <2> HIDE DEF n
  <2>3. /\ k \in Callback /\ k.pc = "register" /\ k.order = o /\ k.now = cb[c].now
        /\ k.fillAmount = n /\ cb' = [cb EXCEPT ![c] = k]
    BY <1>1, <1>2, <1>7, <2>1 DEF Callback
  <2> HIDE DEF k
  <2>4. remainingInput(o)' = remainingInput(o) /\ strategy' = strategy
    BY <1>1 DEF remainingInput, vars, reactorVars, fillVars, hostVars
  <2>5. InformedNext(k)
    BY <1>1, <1>2, <2>2, <2>3, <2>4, StillInformed DEF hostVars
  <2>6. registered' \in [Orders -> Nat]
    BY <1>1, <1>7, <2>1
  <2> QED BY <1>1, <2>3, <2>5, <2>6, GoOnTurn
<1> QED BY <1>8, <1>9

LEMMA DecideExecutePreserves ==
  ASSUME BotInv, NEW c \in Callbacks, DecideExecute(c)
  PROVE  BotInv'
<1>1. /\ IInv /\ cb \in [Callbacks -> Callback] /\ cb[c] \in Callback
      /\ watching \subseteq Orders /\ registered \in [Orders -> Nat]
      /\ cb[c].pc = "decide_execute" /\ UNCHANGED <<vars, hostVars>>
      /\ watching' = watching /\ registered' = registered
  BY DEF BotInv, BotTypeOK, DecideExecute, At, mapVars
<1>2. PICK o \in Orders : o = cb[c].order
  BY <1>1 DEF Callback
<1>3. PICK first \in ShownFirstFill(c, o), wallet \in Balances, bids \in Books :
        LET price == DecayedPrice(StartPrice[o], DecayPerBlock[o], first, cb[c].now)
        IN  cb' = IF decide(c, price, wallet, bids) = 0 THEN BackToLoop(cb, c, watching)
                  ELSE [cb EXCEPT ![c].pc = "execute", ![c].currentPrice = price]
  BY <1>2 DEF DecideExecute
<1> DEFINE price == DecayedPrice(StartPrice[o], DecayPerBlock[o], first, cb[c].now)
           k     == [cb[c] EXCEPT !.pc = "execute", !.currentPrice = price]
<1>4. price \in Nat /\ (~fallbackInitiated[o] => PriceNow(o) <= price)
  BY <1>1, <1>2, PriceIsEnough
<1>5. \/ cb' = BackToLoop(cb, c, watching)
      \/ cb' = [cb EXCEPT ![c].pc = "execute", ![c].currentPrice = price]
  BY <1>3
<1> HIDE DEF price
<1>6. CASE cb' = BackToLoop(cb, c, watching)
  <2>1. ChainStep /\ Dropped
    BY <1>1, Still DEF Dropped
  <2> QED BY <1>1, <1>6, <2>1, LoopTurn
<1>7. CASE cb' = [cb EXCEPT ![c].pc = "execute", ![c].currentPrice = price]
  <2>1. /\ k \in Callback /\ k.pc = "execute" /\ k.order = o /\ k.now = cb[c].now
        /\ k.currentPrice = price /\ cb' = [cb EXCEPT ![c] = k]
    BY <1>1, <1>2, <1>4, <1>7 DEF Callback
  <2> HIDE DEF k
  <2>2. PriceNow(o)' = PriceNow(o) /\ fallbackInitiated' = fallbackInitiated
    BY <1>1 DEF PriceNow, getCurrentPrice, vars, reactorVars, fillVars, switchVars
  <2>3. InformedNext(k)
    BY <1>1, <1>2, <1>4, <2>1, <2>2, StillInformed DEF hostVars
  <2> QED BY <1>1, <2>1, <2>3, GoOnTurn
<1> QED BY <1>5, <1>6, <1>7

-----------------------------------------------------------------------------
(* The bot's own registration is the new stake it may have.                *)
LEMMA StakeIsGood ==
  ASSUME BotInv, NEW o \in Orders, NEW n \in Nat, SubmitRegister(o, n),
         UNCHANGED <<watching, strategy, crashes>>,
         strategy = "whale" => Fillable(o, n),
         seen' = seen,
         crashes > 0 \/ o \in watching \/ o \notin seen \/ ~StillOpen(o) \/ reg[o][Bot].registered
  PROVE  IInv' /\ ChainMoves /\ WhaleCommitmentFillable' /\ StakedIsWatched'
<1>1. IInv /\ Register(o, Bot, n) /\ UNCHANGED fallbackVars
  BY DEF BotInv, SubmitRegister
<1>2. /\ IInv' /\ ChainMoves
      /\ ~reg[o][Bot].registered /\ reg'[o][Bot].fillAmount = n
      /\ \A p \in Orders : p # o => reg'[p][Bot] = reg[p][Bot]
      /\ UNCHANGED <<block, fillVars, cancelled>>
  BY <1>1, BotAssumption, RegisterMoves
<1>3. \A p \in Orders : remainingInput(p)' = remainingInput(p)
  BY <1>2 DEF remainingInput, fillVars
<1>4. ASSUME strategy' = "whale", NEW p \in Orders, Active(reg'[p][Bot])
      PROVE  \/ reg'[p][Bot].fillAmount >= MinFill[p]
             \/ reg'[p][Bot].fillAmount >= remainingInput(p)'
  <2>1. CASE p = o
    BY <1>2, <1>3, <1>4, <2>1 DEF Fillable
  <2>2. CASE p # o
    BY <1>2, <1>3, <1>4, <2>2
       DEF BotInv, WhaleCommitmentFillable, CommitmentFillable, Fillable
  <2> QED BY <2>1, <2>2
<1>5. ASSUME crashes' = 0, NEW p \in Orders, Active(reg'[p][Bot]), StillOpen(p)'
      PROVE  p \in watching' \/ p \notin seen'
  <2>1. StillOpen(p)
    BY <1>2, <1>5 DEF ChainMoves
  <2>2. CASE p = o
    BY <1>2, <1>5, <2>1, <2>2
  <2>3. CASE p # o
    BY <1>2, <1>5, <2>1, <2>3 DEF BotInv, StakedIsWatched
  <2> QED BY <2>2, <2>3
<1>6. WhaleCommitmentFillable'
  BY <1>4 DEF WhaleCommitmentFillable, CommitmentFillable, Fillable
<1>7. StakedIsWatched'
  BY <1>5 DEF StakedIsWatched
<1> QED BY <1>2, <1>6, <1>7

LEMMA RegisteredPreserves ==
  ASSUME BotInv, NEW c \in Callbacks, Registered(c)
  PROVE  BotInv'
<1>1. /\ IInv /\ BotTypeOK /\ cb \in [Callbacks -> Callback] /\ cb[c] \in Callback
      /\ Informed(cb[c]) /\ cb[c].pc = "register"
      /\ cb' = BackToLoop(cb, c, watching)
      /\ UNCHANGED <<watching, registered, strategy, up, seen, heard, orphans, crashes>>
  BY DEF BotInv, BotTypeOK, Registered, At, mapVars, hostVars
<1>2. PICK o \in Orders : o = cb[c].order
  BY <1>1 DEF Callback
<1>3. SubmitRegister(o, cb[c].fillAmount) /\ cb[c].fillAmount \in Nat
  BY <1>1, <1>2 DEF Registered, Callback
<1>4. /\ strategy = "whale" => Fillable(o, cb[c].fillAmount)
      /\ o \in watching \/ ~StillOpen(o) \/ reg[o][Bot].registered
  BY <1>1, <1>2 DEF Informed
<1>5. IInv' /\ ChainMoves /\ WhaleCommitmentFillable' /\ StakedIsWatched'
  BY <1>1, <1>3, <1>4, StakeIsGood
<1>6. Dropped
  BY <1>1 DEF Dropped
<1>7. /\ cb' \in [Callbacks -> Callback]
      /\ \A k \in Callbacks : k # c => cb'[k] = cb[k]
      /\ cb'[c].pc = "idle" \/ (cb'[c].pc = "loop" /\ cb'[c].now = cb[c].now)
  BY <1>1, LoopShape
<1>8. cb[c].now <= block'
  <2>1. cb[c].now <= block /\ cb[c].now \in Nat /\ block \in Nat
    BY <1>1 DEF Informed, IInv, TypeOK, Callback
  <2> QED BY <1>5, <2>1 DEF ChainMoves
<1>9. InformedNext(cb'[c])
  BY <1>7, <1>8, LoopInformed
<1>10. \A k \in Callbacks : Alike(cb[k], cb'[k]) \/ InformedNext(cb'[k])
  BY <1>7, <1>9 DEF Alike
<1>11. heard' \in 0..(block' + 1)
  BY <1>1, <1>5, HeardStays
<1> QED BY <1>1, <1>5, <1>6, <1>7, <1>10, <1>11, StepPreserves DEF BotTypeOK

LEMMA ExecutedPreserves ==
  ASSUME BotInv, NEW c \in Callbacks, Executed(c)
  PROVE  BotInv'
<1>1. /\ IInv /\ cb[c] \in Callback /\ cb[c].pc = "execute" /\ UNCHANGED hostVars
  BY DEF BotInv, BotTypeOK, Executed, At
<1>2. PICK o \in Orders : o = cb[c].order
  BY <1>1 DEF Callback
<1>3. /\ executePartialChunk(o, Bot, cb[c].fillAmount) /\ UNCHANGED fallbackVars
      /\ cb[c].fillAmount \in Nat
  BY <1>1, <1>2 DEF Executed, SubmitExecute, Callback
<1>4. ChainStep /\ reg'[o][Bot].registered /\ ~Active(reg'[o][Bot])
  BY <1>1, <1>3, BotAssumption, ExecuteMoves DEF Active
<1>5. /\ watching' = watching \ {o}
      /\ registered' = [registered EXCEPT ![o] = 0]
      /\ cb' = Forgotten(BackToLoop(cb, c, watching \ {o}), o)
  BY <1>2 DEF Executed, Drop
<1> QED BY <1>1, <1>4, <1>5, DropTurn

(* Only an order that is over is released and dropped.                     *)
LEMMA ReleaseEnds ==
  ASSUME BotInv, ChainStep, NEW c \in Callbacks, cb[c].pc = "release", Drop(c),
         UNCHANGED hostVars
  PROVE  BotInv'
<1>1. cb[c] \in Callback /\ Informed(cb[c])
  BY DEF BotInv, BotTypeOK
<1>2. PICK o \in Orders : o = cb[c].order
  BY <1>1 DEF Callback
<1>3. ~StillOpen(o)'
  BY <1>1, <1>2 DEF Informed, ChainStep, ChainMoves
<1>4. /\ watching' = watching \ {o}
      /\ registered' = [registered EXCEPT ![o] = 0]
      /\ cb' = Forgotten(BackToLoop(cb, c, watching \ {o}), o)
  BY <1>2 DEF Drop
<1> QED BY <1>3, <1>4, DropTurn

LEMMA ReleasedPreserves ==
  ASSUME BotInv, NEW c \in Callbacks, Released(c)
  PROVE  BotInv'
<1>1. /\ IInv /\ cb[c] \in Callback /\ cb[c].pc = "release" /\ Drop(c) /\ UNCHANGED hostVars
  BY DEF BotInv, BotTypeOK, Released, At
<1>2. PICK o \in Orders : o = cb[c].order
  BY <1>1 DEF Callback
<1>3. releaseRegistration(o, Bot) /\ UNCHANGED fallbackVars
  BY <1>2 DEF Released, SubmitRelease
<1>4. ChainStep
  BY <1>1, <1>3, BotAssumption, ReleaseMoves
<1> QED BY <1>1, <1>4, ReleaseEnds

LEMMA ReleaseFailsPreserves ==
  ASSUME BotInv, NEW c \in Callbacks, ReleaseFails(c)
  PROVE  BotInv'
BY Still, ReleaseEnds DEF BotInv, ReleaseFails, At

(* The transaction or a read failed: nothing is mined, nothing dropped.    *)
LEMMA FailurePreserves ==
  ASSUME BotInv, NEW c \in Callbacks,
         RegisteredBefore(c) \/ RegisterFails(c) \/ TryFillFails(c)
  PROVE  BotInv'
<1>1. /\ cb[c] \in Callback /\ watching \subseteq Orders /\ registered \in [Orders -> Nat]
      /\ cb[c].pc # "idle" /\ UNCHANGED <<vars, hostVars>>
      /\ watching' = watching /\ cb' = BackToLoop(cb, c, watching)
  BY DEF BotInv, BotTypeOK, RegisteredBefore, RegisterFails, TryFillFails, At, mapVars
<1>2. registered' \in [Orders -> Nat]
  BY <1>1 DEF RegisteredBefore, RegisterFails, TryFillFails, mapVars
<1>3. ChainStep /\ Dropped
  BY <1>1, Still DEF BotInv, Dropped
<1> QED BY <1>1, <1>2, <1>3, LoopTurn

LEMMA CallbackPreserves ==
  ASSUME BotInv, NEW c \in Callbacks, CallbackNext(c)
  PROVE  BotInv'
BY OnBlockPreserves, EndOfLoopPreserves, VisitPreserves, FetchPreserves,
   ReadRemainingPreserves, ReadCancelledPreserves, DecideRegisterPreserves,
   DecideExecutePreserves, RegisteredPreserves, ExecutedPreserves,
   ReleasedPreserves, ReleaseFailsPreserves, FailurePreserves
   DEF CallbackNext

-----------------------------------------------------------------------------
(* What a dying process had sent goes on with what the process knew.       *)
LEMMA CrashPreserves ==
  ASSUME BotInv, Crash
  PROVE  BotInv'
<1>1. /\ IInv /\ BotTypeOK /\ WhaleCommitmentFillable /\ OrphansFit
      /\ cb \in [Callbacks -> Callback] /\ \A c \in Callbacks : Informed(cb[c])
      /\ UNCHANGED vars /\ UNCHANGED <<strategy, heard>>
      /\ crashes \in Nat /\ crashes' = crashes + 1
      /\ cb' = [c \in Callbacks |-> IdleCallback]
      /\ IInv' /\ ChainMoves /\ block' = block
  BY Still DEF BotInv, BotTypeOK, Crash, ChainStep, vars, reactorVars
<1>2. crashes' > 0 /\ crashes' \in Nat
  BY <1>1
<1>3. \A c \in Callbacks : cb'[c] = IdleCallback
  BY <1>1
<1>4. ASSUME NEW t \in orphans'
      PROVE  /\ t.order \in Orders /\ t.fillAmount \in Nat
             /\ strategy = "whale" /\ t.kind = "register" =>
                  \A o \in Orders : t.order = o => Fillable(o, t.fillAmount)
  <2>1. CASE t \in orphans
    BY <1>1, <2>1 DEF BotTypeOK, OrphansFit
  <2>2. CASE t \notin orphans
    <3>1. PICK c \in Callbacks :
            t = [kind |-> cb[c].pc, order |-> cb[c].order, fillAmount |-> cb[c].fillAmount]
      BY <2>2 DEF Crash
    <3>2. cb[c] \in Callback /\ Informed(cb[c])
      BY <1>1
    <3> QED BY <3>1, <3>2 DEF Callback, Informed
  <2> QED BY <2>1, <2>2
<1>5. \A o \in Orders : remainingInput(o)' = remainingInput(o)
  BY <1>1 DEF remainingInput, vars, reactorVars, fillVars
<1>6. BotTypeOK'
  <2>1. \A t \in orphans' : t.order \in Orders /\ t.fillAmount \in Nat
    BY <1>4
  <2>2. registered' \in [Orders -> Nat] /\ cb' \in [Callbacks -> Callback]
    BY <1>1, IdleIsCallback DEF Crash
  <2>3. /\ strategy' \in Strategies /\ up' \in BOOLEAN /\ seen' \subseteq Orders
        /\ watching' \subseteq Orders /\ heard' \in 0..(block' + 1)
    BY <1>1 DEF Crash, BotTypeOK
  <2> QED BY <1>2, <2>1, <2>2, <2>3 DEF BotTypeOK
<1>7. OrphansFit'
  BY <1>1, <1>2, <1>4, <1>5 DEF OrphansFit, Fillable
<1>8. WhaleCommitmentFillable'
  BY <1>1, <1>5 DEF WhaleCommitmentFillable, CommitmentFillable, Fillable, Active, Settled,
                    vars, auctionVars
<1>9. StakedIsWatched'
  BY <1>2 DEF StakedIsWatched
<1>10. ASSUME NEW c \in Callbacks PROVE Informed(cb[c])'
  <2>1. InformedNext(cb'[c])
    BY <1>3, IdleIsCallback, LoopInformed
  <2> QED BY <2>1, InformedPrimed
<1>11. SeenIsWatched'
  BY DEF Crash, SeenIsWatched
<1> QED BY <1>1, <1>6, <1>7, <1>8, <1>9, <1>10, <1>11 DEF BotInv

LEMMA RestartPreserves ==
  ASSUME BotInv, Restart
  PROVE  BotInv'
<1>1. /\ IInv /\ BotTypeOK /\ WhaleCommitmentFillable /\ StakedIsWatched
      /\ IInv' /\ ChainMoves /\ NoNewStake
  BY Still DEF BotInv, Restart, ChainStep
<1>2. Dropped
  BY DEF Restart, mapVars, Dropped
<1>3. WhaleCommitmentFillable' /\ StakedIsWatched'
  BY <1>1, <1>2, StakesStay DEF Restart
<1>4. \A k \in Callbacks : Alike(cb[k], cb'[k])
  BY DEF Restart, Alike
<1>5. heard' \in 0..(block' + 1)
  BY <1>1 DEF Restart, IInv, TypeOK, vars, reactorVars
<1> QED BY <1>1, <1>2, <1>3, <1>4, <1>5, StepPreserves DEF Restart, mapVars, BotTypeOK

LEMMA OrphanPreserves ==
  ASSUME BotInv, NEW t \in orphans, OrphanMined(t)
  PROVE  BotInv'
<1>1. /\ IInv /\ BotTypeOK /\ WhaleCommitmentFillable /\ StakedIsWatched /\ OrphansFit
      /\ t.order \in Orders /\ t.fillAmount \in Nat /\ crashes > 0
      /\ UNCHANGED <<watching, registered, cb, strategy, up, seen, heard, crashes>>
      /\ orphans' \subseteq orphans
  BY DEF BotInv, BotTypeOK, OrphansFit, OrphanMined, mapVars
<1>2. Dropped
  BY <1>1 DEF Dropped
<1>3. IInv' /\ ChainMoves /\ WhaleCommitmentFillable' /\ StakedIsWatched'
  <2>1. CASE t.kind = "register" /\ SubmitRegister(t.order, t.fillAmount)
    <3>1. strategy = "whale" => Fillable(t.order, t.fillAmount)
      BY <1>1, <2>1 DEF OrphansFit
    <3> QED BY <1>1, <2>1, <3>1, StakeIsGood
  <2>2. CASE SubmitExecute(t.order, t.fillAmount)
    <3>1. ChainStep
      BY <1>1, <2>2, BotAssumption, ExecuteMoves DEF SubmitExecute
    <3> QED BY <1>1, <1>2, <3>1, StakesStay DEF ChainStep
  <2>3. CASE SubmitRelease(t.order)
    <3>1. ChainStep
      BY <1>1, <2>3, BotAssumption, ReleaseMoves DEF SubmitRelease
    <3> QED BY <1>1, <1>2, <3>1, StakesStay DEF ChainStep
  <2> QED BY <2>1, <2>2, <2>3 DEF OrphanMined
<1>4. \A k \in Callbacks : Alike(cb[k], cb'[k])
  BY <1>1 DEF Alike
<1>5. heard' \in 0..(block' + 1)
  BY <1>1, <1>3, HeardStays
<1> QED BY <1>1, <1>2, <1>3, <1>4, <1>5, StepPreserves DEF BotTypeOK

(* What the others do.                                                     *)
LEMMA ChainNextMoves ==
  ASSUME IInv, ChainNext
  PROVE  ChainStep
<1>1. CASE \E o \in Orders, r \in Routers : executeFallback(o, r)
  BY <1>1, FallbackMoves
<1>2. CASE OthersNext
  <2>1. UNCHANGED fallbackVars
    BY <1>2 DEF OthersNext
  <2>2. CASE NextBlock
    BY <2>1, <2>2, NextBlockMoves
  <2>3. CASE \E o \in Orders : cancelOrder(o)
    BY <2>1, <2>3, CancelMoves
  <2>4. CASE \E n \in Nonces : invalidateNonce(n)
    BY <2>1, <2>4, InvalidateMoves
  <2>5. CASE \E o \in Orders, f \in Fillers \ {Bot} : releaseRegistration(o, f)
    BY <2>1, <2>5, ReleaseMoves
  <2>6. CASE \E o \in Orders, f \in Fillers \ {Bot}, n \in FillAmounts : Register(o, f, n)
    <3>1. PICK o \in Orders, f \in Fillers \ {Bot}, n \in FillAmounts : Register(o, f, n)
      BY <2>6
    <3>2. n \in Nat /\ f # Bot
      BY <3>1, OrderAssumption
    <3> QED BY <2>1, <3>1, <3>2, RegisterMoves DEF ChainStep
  <2>7. CASE \E o \in Orders, f \in Fillers \ {Bot}, n \in FillAmounts :
               executePartialChunk(o, f, n)
    <3>1. PICK o \in Orders, f \in Fillers \ {Bot}, n \in FillAmounts :
            executePartialChunk(o, f, n)
      BY <2>7
    <3>2. n \in Nat
      BY <3>1, OrderAssumption
    <3> QED BY <2>1, <3>1, <3>2, ExecuteMoves
  <2>8. CASE \E o \in Orders, f \in Fillers, caller \in Accounts : slash(o, f, caller)
    BY <2>1, <2>8, SlashMoves
  <2> QED BY <1>2, <2>2, <2>3, <2>4, <2>5, <2>6, <2>7, <2>8 DEF OthersNext
<1> QED BY <1>1, <1>2 DEF ChainNext

-----------------------------------------------------------------------------
LEMMA InitBotInv == Init /\ BotInit => BotInv
<1> SUFFICES ASSUME Init, BotInit PROVE BotInv
  OBVIOUS
<1>1. IInv
  BY InitIInv
<1>2. \A c \in Callbacks : cb[c] = IdleCallback
  BY DEF BotInit
<1>3. BotTypeOK
  BY <1>1, IdleIsCallback DEF BotInit, BotTypeOK, IInv, TypeOK
<1>4. \A o \in Orders : ~Active(reg[o][Bot])
  BY BotAssumption DEF Init, AuctionInit, Unregistered, Active
<1>5. WhaleCommitmentFillable /\ StakedIsWatched
  BY <1>4 DEF WhaleCommitmentFillable, CommitmentFillable, StakedIsWatched
<1>6. \A c \in Callbacks : Informed(cb[c])
  BY <1>2, IdleIsCallback DEF Informed
<1>7. OrphansFit /\ SeenIsWatched
  BY DEF BotInit, OrphansFit, SeenIsWatched
<1> QED BY <1>1, <1>3, <1>5, <1>6, <1>7 DEF BotInv

LEMMA NextBotInv == BotInv /\ [BotNext]_botSystemVars => BotInv'
<1> SUFFICES ASSUME BotInv, [BotNext]_botSystemVars PROVE BotInv'
  OBVIOUS
<1>1. CASE ChainNext /\ UNCHANGED botVars
  BY <1>1, ChainNextMoves, ChainPreserves DEF BotInv
<1>2. CASE \E c \in Callbacks : CallbackNext(c)
  BY <1>2, CallbackPreserves
<1>3. CASE \E o \in Orders : Poll(o)
  BY <1>3, PollPreserves
<1>4. CASE Crash
  BY <1>4, CrashPreserves
<1>5. CASE Restart
  BY <1>5, RestartPreserves
<1>6. CASE \E t \in orphans : OrphanMined(t)
  BY <1>6, OrphanPreserves
<1>7. CASE UNCHANGED botSystemVars
  BY <1>7, Still, ChainPreserves DEF BotInv, botSystemVars
<1> QED BY <1>1, <1>2, <1>3, <1>4, <1>5, <1>6, <1>7 DEF BotNext

(* The invariant of the bot and the contracts holds in every reachable     *)
(* state, whatever fails, overlaps or crashes.                             *)
THEOREM BotInvariant == BotSpec => []BotInv
<1> QED BY InitBotInv, NextBotInv, PTL DEF BotSpec

LEMMA MulDivGrows ==
  ASSUME NEW a \in Nat, NEW b \in Nat, NEW d \in Nat, b <= d
  PROVE  mulDiv(a, b, PriceUnit) <= mulDiv(a, d, PriceUnit)
<1>1. a * b \in Nat /\ a * d \in Nat /\ a * b <= a * d
  OBVIOUS
<1> QED BY <1>1, OrderAssumption DEF mulDiv

-----------------------------------------------------------------------------
(* The prompt.  Of the bot and the chain it needs to know that no stake is *)
(* made twice, whoever makes it.                                           *)
NoStakeTwice ==
  \A o \in Orders :
    reg[o][Bot].registered /\ Active(reg'[o][Bot]) =>
      Active(reg[o][Bot]) /\ reg'[o][Bot].fillAmount = reg[o][Bot].fillAmount

LEMMA NothingTwice ==
  ASSUME ChainStep
  PROVE  ChainMoves /\ NoStakeTwice
BY DEF ChainStep, NoNewStake, NoStakeTwice

LEMMA SubmitsMove ==
  ASSUME IInv, NEW o \in Orders, NEW n \in Nat,
         SubmitRegister(o, n) \/ SubmitExecute(o, n) \/ SubmitRelease(o)
  PROVE  ChainMoves /\ NoStakeTwice
<1>1. CASE SubmitRegister(o, n)
  <2>1. /\ ChainMoves /\ ~reg[o][Bot].registered
        /\ \A p \in Orders : p # o => reg'[p][Bot] = reg[p][Bot]
    BY <1>1, BotAssumption, RegisterMoves DEF SubmitRegister
  <2> QED BY <2>1 DEF NoStakeTwice
<1>2. CASE SubmitExecute(o, n)
  BY <1>2, BotAssumption, ExecuteMoves, NothingTwice DEF SubmitExecute
<1>3. CASE SubmitRelease(o)
  BY <1>3, BotAssumption, ReleaseMoves, NothingTwice DEF SubmitRelease
<1> QED BY <1>1, <1>2, <1>3

LEMMA CallbackMoves ==
  ASSUME BotInv, NEW c \in Callbacks, CallbackNext(c)
  PROVE  ChainMoves /\ NoStakeTwice
<1>1. /\ IInv /\ cb[c] \in Callback
      /\ cb[c].order \in Orders /\ cb[c].fillAmount \in Nat
  BY DEF BotInv, BotTypeOK, Callback
<1>2. CASE Registered(c) \/ Executed(c) \/ Released(c)
  BY <1>1, <1>2, SubmitsMove DEF Registered, Executed, Released
<1>3. CASE UNCHANGED vars
  BY <1>1, <1>3, Still, NothingTwice
<1> QED BY <1>2, <1>3
        DEF CallbackNext, OnBlock, EndOfLoop, Visit, Fetch, ReadRemaining, ReadCancelled,
            DecideRegister, DecideExecute, RegisteredBefore, RegisterFails, TryFillFails,
            ReleaseFails

LEMMA BotMoves ==
  ASSUME BotInv, [BotNext]_botSystemVars
  PROVE  ChainMoves /\ NoStakeTwice
<1>1. IInv /\ \A t \in orphans : t.order \in Orders /\ t.fillAmount \in Nat
  BY DEF BotInv, BotTypeOK
<1>2. CASE ChainNext
  BY <1>1, <1>2, ChainNextMoves, NothingTwice
<1>3. CASE \E c \in Callbacks : CallbackNext(c)
  BY <1>3, CallbackMoves
<1>4. CASE \E t \in orphans : OrphanMined(t)
  BY <1>1, <1>4, SubmitsMove DEF OrphanMined
<1>5. CASE UNCHANGED vars
  BY <1>1, <1>5, Still, NothingTwice
<1> QED BY <1>2, <1>3, <1>4, <1>5 DEF BotNext, botSystemVars, Poll, Crash, Restart

-----------------------------------------------------------------------------
(* The amount of a command.                                                *)
LEMMA MostNat ==
  ASSUME NEW a \in Nat, NEW b \in Nat
  PROVE  Most(a, b) \in Nat /\ Most(a, b) >= a /\ Most(a, b) >= b
         /\ (Most(a, b) = a \/ Most(a, b) = b)
BY DEF Most

LEMMA ShareIsFillable ==
  ASSUME NEW o \in Orders, NEW left \in Nat, NEW share \in Nat
  PROVE  /\ fillAmount(o, left, share) \in Nat
         /\ fillAmount(o, left, share) <= left
         /\ fillAmount(o, left, share) >= MinFill[o] \/ fillAmount(o, left, share) = left
<1> DEFINE part == mulDiv(left, share, BPS)
           most == Most(part, MinFill[o])
<1>1. part \in Nat /\ MinFill[o] \in Nat
  <2>1. BPS \in Nat \ {0}
    BY DEF BPS
  <2> QED BY <2>1, MulDivNat, OrderAssumption
<1> HIDE DEF part
<1>2. most \in Nat /\ most >= MinFill[o]
  BY <1>1, MostNat
<1> HIDE DEF most
<1>3. Least(most, left) \in Nat /\ Least(most, left) <= left
      /\ (Least(most, left) = most \/ Least(most, left) = left)
  BY <1>2, LeastNat
<1> QED BY <1>1, <1>2, <1>3 DEF fillAmount, most, part

LEMMA ShareGrows ==
  ASSUME NEW o \in Orders, NEW left \in Nat, NEW more \in Nat, left <= more,
         NEW share \in Nat, NEW wider \in Nat, share <= wider
  PROVE  fillAmount(o, left, share) <= fillAmount(o, more, wider)
<1> DEFINE part == mulDiv(left, share, BPS)
           whole == mulDiv(more, wider, BPS)
<1>1. part \in Nat /\ whole \in Nat /\ MinFill[o] \in Nat
  <2>1. BPS \in Nat \ {0}
    BY DEF BPS
  <2> QED BY <2>1, MulDivNat, OrderAssumption
<1>2. part <= whole
  <2>1. /\ left * share \in Nat /\ more * wider \in Nat /\ left * wider \in Nat
        /\ left * share <= left * wider
    BY ProductMonotone
  <2>2. wider * left <= wider * more
    BY ProductMonotone
  <2>3. left * share <= more * wider
    BY <2>1, <2>2
  <2> QED BY <2>1, <2>3, QuotientMonotone DEF mulDiv, BPS
<1> HIDE DEF part, whole
<1>3. Least(Most(part, MinFill[o]), left) <= Least(Most(whole, MinFill[o]), more)
  BY <1>1, <1>2 DEF Least, Most
<1> QED BY <1>3 DEF fillAmount, part, whole

-----------------------------------------------------------------------------
(* What a command learned and what was staked by hand stay good, whatever  *)
(* else happens.                                                           *)
ShownFalls ==
  /\ shown' \in [Orders -> Nat]
  /\ \A o \in Orders : remainingInput(o)' <= shown'[o] /\ shown'[o] <= shown[o]

LEMMA ShownStays ==
  ASSUME IInv, ChainMoves, HandTypes, shown' = shown
  PROVE  ShownFalls
<1> SUFFICES ASSUME NEW o \in Orders
             PROVE  remainingInput(o)' <= shown[o] /\ shown[o] <= shown[o]
  BY DEF HandTypes, ShownFalls
<1>1. /\ remainingInput(o) \in Nat /\ remainingInput(o)' \in Nat /\ shown[o] \in Nat
      /\ remainingInput(o)' <= remainingInput(o) /\ remainingInput(o) <= shown[o]
  BY RemainingNat DEF IInv, ChainMoves, HandTypes
<1> QED BY <1>1

LEMMA HandTypesStay ==
  ASSUME HandTypes, ShownFalls, hand' \in Command, handShare' \in [Orders -> Nat]
  PROVE  HandTypes'
BY DEF HandTypes, ShownFalls

(* The amount an earlier share comes to only falls.                        *)
LEMMA ShareFalls ==
  ASSUME HandTypes, ShownFalls, NEW o \in Orders, NEW share \in Nat, NEW n \in Nat,
         n >= fillAmount(o, shown[o], share)
  PROVE  n >= fillAmount(o, shown'[o], share)
<1>1. shown[o] \in Nat /\ shown'[o] \in Nat /\ shown'[o] <= shown[o]
  BY DEF HandTypes, ShownFalls
<1>2. fillAmount(o, shown'[o], share) <= fillAmount(o, shown[o], share)
  BY <1>1, ShareGrows
<1>3. fillAmount(o, shown'[o], share) \in Nat /\ fillAmount(o, shown[o], share) \in Nat
  BY <1>1, ShareIsFillable
<1> QED BY <1>2, <1>3

LEMMA StakeAmount ==
  ASSUME IInv, NEW o \in Orders
  PROVE  reg[o][Bot].fillAmount \in Nat
BY BotAssumption DEF IInv, TypeOK, Registration

(* A stake made by hand, on order o, after a step that made none there.    *)
LEMMA StakeKept ==
  ASSUME IInv, ChainMoves, NoStakeTwice, HandTypes, HandStakes, ShownFalls,
         NEW o \in Orders, handShare[o] > 0, handShare'[o] = handShare[o]
  PROVE  /\ reg'[o][Bot].registered
         /\ Active(reg'[o][Bot]) => reg'[o][Bot].fillAmount >= fillAmount(o, shown'[o], handShare'[o])
<1>1. /\ reg[o][Bot].registered /\ handShare[o] \in Nat /\ reg[o][Bot].fillAmount \in Nat
      /\ Active(reg[o][Bot]) => reg[o][Bot].fillAmount >= fillAmount(o, shown[o], handShare[o])
  BY StakeAmount DEF HandStakes, HandTypes
<1>2. reg'[o][Bot].registered
  BY <1>1 DEF ChainMoves
<1>3. ASSUME Active(reg'[o][Bot])
      PROVE  reg'[o][Bot].fillAmount >= fillAmount(o, shown'[o], handShare'[o])
  <2>1. Active(reg[o][Bot]) /\ reg'[o][Bot].fillAmount = reg[o][Bot].fillAmount
    BY <1>1, <1>3 DEF NoStakeTwice
  <2> QED BY <1>1, <2>1, ShareFalls
<1> QED BY <1>2, <1>3

LEMMA HandStakesStay ==
  ASSUME IInv, ChainMoves, NoStakeTwice, HandTypes, HandStakes, ShownFalls, handShare' = handShare
  PROVE  HandStakes'
BY StakeKept DEF HandStakes

(* A command that waits.                                                   *)
LEMMA HandKnowsStays ==
  ASSUME IInv, ChainMoves, NoStakeTwice, HandTypes, HandStakes, HandKnows, ShownFalls,
         UNCHANGED <<hand, handShare>>
  PROVE  HandKnows'
<1> SUFFICES ASSUME NEW o \in Orders, hand.pc # "idle", hand.order = o
             PROVE  /\ hand.fillBps > 0
                    /\ hand.fillAmount >= fillAmount(o, shown'[o], hand.fillBps)
                    /\ ~fallbackInitiated'[o] => PriceNow(o)' <= hand.currentPrice
                    /\ handShare[o] >= hand.fillBps =>
                         /\ hand.pc = "check" /\ Active(reg'[o][Bot]) =>
                              reg'[o][Bot].fillAmount >= hand.fillAmount
                         /\ hand.pc = "register" =>
                              ~(Active(reg'[o][Bot]) /\ block' <= Deadline[o])
  BY DEF HandKnows
<1>1. /\ hand.fillBps > 0
      /\ hand.fillAmount >= fillAmount(o, shown[o], hand.fillBps)
      /\ ~fallbackInitiated[o] => PriceNow(o) <= hand.currentPrice
      /\ handShare[o] >= hand.fillBps =>
           /\ hand.pc = "check" /\ Active(reg[o][Bot]) => reg[o][Bot].fillAmount >= hand.fillAmount
           /\ hand.pc = "register" => ~(Active(reg[o][Bot]) /\ block <= Deadline[o])
  BY DEF HandKnows
<1>2. /\ hand.fillBps \in Nat /\ hand.fillAmount \in Nat /\ hand.currentPrice \in Nat
      /\ handShare[o] \in Nat /\ Deadline[o] \in Nat
      /\ block \in Nat /\ block' \in Nat /\ block <= block'
  BY OrderAssumption DEF HandTypes, Command, IInv, TypeOK, ChainMoves
<1>3. hand.fillAmount >= fillAmount(o, shown'[o], hand.fillBps)
  BY <1>1, <1>2, ShareFalls
<1>4. ASSUME ~fallbackInitiated'[o]
      PROVE  PriceNow(o)' <= hand.currentPrice
  <2>1. ~fallbackInitiated[o] /\ PriceNow(o)' \in Nat /\ PriceNow(o)' <= PriceNow(o)
    BY <1>4 DEF ChainMoves
  <2>2. PriceNow(o) \in Nat
    BY PriceIs DEF PriceKnown
  <2> QED BY <1>1, <1>2, <2>1, <2>2
<1>5. ASSUME handShare[o] >= hand.fillBps, Active(reg'[o][Bot])
      PROVE  Active(reg[o][Bot]) /\ reg'[o][Bot].fillAmount = reg[o][Bot].fillAmount
  <2>1. handShare[o] > 0
    BY <1>1, <1>2, <1>5
  <2>2. reg[o][Bot].registered
    BY <2>1 DEF HandStakes
  <2> QED BY <1>5, <2>2 DEF NoStakeTwice
<1> QED BY <1>1, <1>2, <1>3, <1>4, <1>5

(* Whatever the bot and the others do, and the backend's list of fills.    *)
LEMMA WaitingPreserves ==
  ASSUME HandInv, BotInv', ChainMoves, NoStakeTwice, ShownFalls, UNCHANGED <<hand, handShare>>
  PROVE  HandInv'
<1>1. IInv /\ HandTypes /\ HandStakes /\ HandKnows
  BY DEF HandInv, BotInv
<1>2. HandTypes'
  BY <1>1, HandTypesStay DEF HandTypes
<1> QED BY <1>1, <1>2, HandStakesStay, HandKnowsStays DEF HandInv

(* A command that is over.                                                 *)
LEMMA NoCommandIsCommand == NoCommand \in Command /\ NoCommand.pc = "idle"
<1>1. (CHOOSE o \in Orders : TRUE) \in Orders
  BY BotAssumption
<1> QED BY <1>1 DEF NoCommand, Command

LEMMA OverPreserves ==
  ASSUME HandInv, BotInv', ChainMoves, NoStakeTwice, hand' = NoCommand,
         UNCHANGED <<shown, handShare>>
  PROVE  HandInv'
<1>1. IInv /\ HandTypes /\ HandStakes
  BY DEF HandInv, BotInv
<1>2. ShownFalls
  BY <1>1, ShownStays
<1>3. HandTypes'
  BY <1>1, <1>2, HandTypesStay, NoCommandIsCommand DEF HandTypes
<1>4. HandStakes'
  BY <1>1, <1>2, HandStakesStay
<1>5. HandKnows'
  BY NoCommandIsCommand DEF HandKnows
<1> QED BY <1>3, <1>4, <1>5 DEF HandInv

-----------------------------------------------------------------------------
(* One lemma per action of the prompt.                                     *)
LEMMA BackendShowsPreserves ==
  ASSUME HandInv, NEW o \in Orders, BackendShows(o)
  PROVE  HandInv'
<1>1. BotInv /\ IInv /\ HandTypes /\ UNCHANGED botSystemVars /\ UNCHANGED <<hand, handShare>>
  BY DEF HandInv, BotInv, BackendShows
<1>2. BotInv' /\ ChainMoves /\ NoStakeTwice
  BY <1>1, NextBotInv, BotMoves
<1>3. \A p \in Orders : /\ remainingInput(p) \in Nat /\ shown[p] \in Nat
                        /\ remainingInput(p) <= shown[p]
                        /\ remainingInput(p)' = remainingInput(p)
  BY <1>1, RemainingNat
     DEF IInv, HandTypes, botSystemVars, vars, reactorVars, fillVars, remainingInput
<1>4. ShownFalls
  <2> DEFINE left == remainingInput(o)
  <2>1. shown' = [shown EXCEPT ![o] = left] /\ shown \in [Orders -> Nat]
    BY <1>1 DEF BackendShows, HandTypes
  <2>2. left \in Nat /\ left <= shown[o] /\ remainingInput(o)' = left
    BY <1>3
  <2> HIDE DEF left
  <2>3. shown' \in [Orders -> Nat] /\ shown'[o] = left
        /\ \A p \in Orders : p # o => shown'[p] = shown[p]
    BY <2>1, <2>2
  <2>4. ASSUME NEW p \in Orders
        PROVE  remainingInput(p)' <= shown'[p] /\ shown'[p] <= shown[p]
    <3>1. CASE p = o
      BY <2>2, <2>3, <3>1
    <3>2. CASE p # o
      <4>1. shown'[p] = shown[p] /\ shown[p] \in Nat
        BY <1>3, <2>3, <3>2
      <4> QED BY <1>3, <4>1
    <3> QED BY <3>1, <3>2
  <2> QED BY <2>3, <2>4 DEF ShownFalls
<1> QED BY <1>1, <1>2, <1>4, WaitingPreserves

(* A list of fills that is late only makes the estimate too high.          *)
LEMMA EstimateIsEnough ==
  ASSUME IInv, NEW o \in Orders, NEW first \in ListedFirstFill(o)
  PROVE  LET price == estimateAuctionPrice(o, first, block)
         IN  price \in Nat /\ (~fallbackInitiated[o] => PriceNow(o) <= price)
<1> DEFINE passed == IF block > first THEN block - first ELSE 0
<1>1. /\ block \in Nat /\ openedAt[o] \in Nat /\ cursor[o].resetAt \in Nat /\ StartPrice[o] \in Nat
  BY OrderAssumption DEF IInv, TypeOK
<1>2. first \in Int /\ (first = block \/ (~isNewOrder(raw[o]) /\ openedAt[o] <= first))
  BY <1>1 DEF ListedFirstFill
<1>3. passed \in Nat
  BY <1>1, <1>2
<1>4. DecayedPrice(StartPrice[o], DecayPerBlock[o], first, block) = CurveAfter(o, passed)
  BY <1>1, <1>2, DecayedIsCurve
<1>5. CurveAfter(o, passed) \in Nat
  BY <1>3, CurveFalls
<1>6. /\ PriceNow(o) \in Nat
      /\ isNewOrder(raw[o]) => PriceNow(o) = StartPrice[o]
      /\ ~isNewOrder(raw[o]) /\ ~fallbackInitiated[o] =>
           openedAt[o] <= block /\ PriceNow(o) = CurveAfter(o, block - openedAt[o])
  BY PriceIs DEF PriceKnown
<1>7. ASSUME ~fallbackInitiated[o]
      PROVE  PriceNow(o) <= CurveAfter(o, passed)
  <2>1. CASE isNewOrder(raw[o])
    <3>1. passed = 0
      BY <1>1, <1>2, <2>1
    <3>2. CurveAfter(o, 0) = StartPrice[o]
      BY <1>1, OrderAssumption DEF CurveAfter
    <3> HIDE DEF passed
    <3> QED BY <1>1, <1>6, <2>1, <3>1, <3>2
  <2>2. CASE ~isNewOrder(raw[o])
    <3>1. openedAt[o] <= block /\ PriceNow(o) = CurveAfter(o, block - openedAt[o])
      BY <1>6, <1>7, <2>2
    <3>2. passed <= block - openedAt[o] /\ block - openedAt[o] \in Nat
      BY <1>1, <1>2, <3>1
    <3> HIDE DEF passed
    <3> QED BY <1>3, <3>1, <3>2, CurveFalls
  <2> QED BY <2>1, <2>2
<1> DEFINE curve == CurveAfter(o, passed)
<1>8. estimateAuctionPrice(o, first, block) = Most(1, curve)
  BY <1>4 DEF estimateAuctionPrice
<1>9. curve \in Nat /\ (~fallbackInitiated[o] => PriceNow(o) <= curve)
  BY <1>5, <1>7
<1> HIDE DEF curve
<1>10. Most(1, curve) \in Nat /\ curve <= Most(1, curve)
  BY <1>9, MostNat
<1> QED BY <1>6, <1>8, <1>9, <1>10

(* A share is a positive number of basis points.                           *)
LEMMA ShareNat ==
  ASSUME NEW fillBps \in Shares
  PROVE  fillBps \in Nat /\ fillBps > 0
<1>1. fillBps \in 1..BPS
  BY HandAssumption, Zenon
<1> QED BY <1>1 DEF BPS

(* A command is given: a smaller share than was staked on by hand before   *)
(* is covered by that stake.                                               *)
LEMMA StartCommandPreserves ==
  ASSUME HandInv, NEW o \in Orders, NEW fillBps \in Shares, StartCommand(o, fillBps)
  PROVE  HandInv'
<1>1. /\ BotInv /\ IInv /\ HandTypes /\ HandStakes
      /\ UNCHANGED botSystemVars /\ UNCHANGED <<vars, shown, handShare>>
  BY DEF HandInv, BotInv, StartCommand, botSystemVars
<1>2. BotInv' /\ ChainMoves /\ NoStakeTwice
  BY <1>1, NextBotInv, BotMoves
<1>3. PICK first \in ListedFirstFill(o) :
        hand' = [pc |-> "check", order |-> o, fillBps |-> fillBps,
                 fillAmount |-> fillAmount(o, shown[o], fillBps),
                 currentPrice |-> estimateAuctionPrice(o, first, block)]
  BY DEF StartCommand
<1> DEFINE n == fillAmount(o, shown[o], fillBps)
           price == estimateAuctionPrice(o, first, block)
<1>4. fillBps \in Nat /\ fillBps > 0 /\ shown[o] \in Nat /\ handShare[o] \in Nat
  <2>1. fillBps \in Nat /\ fillBps > 0
    BY ShareNat, Zenon
  <2>2. shown[o] \in Nat /\ handShare[o] \in Nat
    <3>1. shown \in [Orders -> Nat] /\ handShare \in [Orders -> Nat]
      BY <1>1, Zenon DEF HandTypes
    <3> QED BY <3>1, Zenon
  <2> QED BY <2>1, <2>2, Zenon
<1>5. n \in Nat
  BY <1>4, ShareIsFillable
<1>6. price \in Nat /\ (~fallbackInitiated[o] => PriceNow(o) <= price)
  BY <1>1, EstimateIsEnough
<1>7. ASSUME handShare[o] >= fillBps, Active(reg[o][Bot])
      PROVE  reg[o][Bot].fillAmount >= n
  <2>1. /\ fillAmount(o, shown[o], handShare[o]) \in Nat
        /\ n <= fillAmount(o, shown[o], handShare[o])
    <3> DEFINE left == shown[o]
               earlier == handShare[o]
    <3>1. left \in Nat /\ left <= left /\ earlier \in Nat /\ fillBps <= earlier /\ fillBps \in Nat
      BY <1>4, <1>7
    <3> HIDE DEF left, earlier
    <3>2. fillAmount(o, left, earlier) \in Nat
      BY <3>1, ShareIsFillable
    <3>3. fillAmount(o, left, fillBps) <= fillAmount(o, left, earlier)
      BY <3>1, ShareGrows
    <3> QED BY <3>2, <3>3 DEF left, earlier
  <2>2. /\ reg[o][Bot].fillAmount >= fillAmount(o, shown[o], handShare[o])
        /\ reg[o][Bot].fillAmount \in Nat
    BY <1>1, <1>4, <1>7, StakeAmount DEF HandStakes
  <2> HIDE DEF n
  <2> QED BY <1>5, <2>1, <2>2
<1>8. /\ PriceNow(o)' = PriceNow(o) /\ fallbackInitiated' = fallbackInitiated
      /\ reg' = reg /\ shown' = shown /\ handShare' = handShare
  BY <1>1 DEF PriceNow, getCurrentPrice, vars, reactorVars, fillVars, switchVars, auctionVars
<1>9. hand' = [pc |-> "check", order |-> o, fillBps |-> fillBps,
               fillAmount |-> n, currentPrice |-> price]
  BY <1>3
<1>10. n = fillAmount(o, shown'[o], fillBps)
  BY <1>8
<1> HIDE DEF n, price
<1>11. /\ hand' \in Command /\ hand'.pc = "check" /\ hand'.order = o /\ hand'.fillBps = fillBps
       /\ hand'.fillAmount = n /\ hand'.currentPrice = price
  BY <1>4, <1>5, <1>6, <1>9 DEF Command
<1>12. HandTypes'
  <2>1. ShownFalls
    BY <1>1, <1>2, ShownStays
  <2> QED BY <1>1, <1>11, <2>1, HandTypesStay DEF HandTypes
<1>13. HandStakes'
  BY <1>1, <1>2, ShownStays, HandStakesStay
<1>14. HandKnows'
  BY <1>4, <1>5, <1>6, <1>7, <1>8, <1>10, <1>11 DEF HandKnows
<1> QED BY <1>2, <1>12, <1>13, <1>14 DEF HandInv

LEMMA CheckRegistrationPreserves ==
  ASSUME HandInv, CheckRegistration
  PROVE  HandInv'
<1>1. /\ BotInv /\ IInv /\ HandTypes /\ HandStakes /\ HandKnows
      /\ UNCHANGED botSystemVars /\ UNCHANGED <<vars, shown, handShare>>
      /\ hand \in Command /\ hand.pc = "check"
  BY DEF HandInv, BotInv, HandTypes, CheckRegistration, botSystemVars
<1>2. BotInv' /\ ChainMoves /\ NoStakeTwice
  BY <1>1, NextBotInv, BotMoves
<1>3. PICK o \in Orders : o = hand.order
  BY <1>1 DEF Command
<1> DEFINE valid == hasValidRegistration(o, Bot, hand.fillAmount, block, Deadline[o])
<1>4. hand' = [hand EXCEPT !.pc = IF valid THEN "execute" ELSE "register"]
  BY <1>3 DEF CheckRegistration
<1>5. /\ hand.fillBps > 0
      /\ hand.fillAmount >= fillAmount(o, shown[o], hand.fillBps)
      /\ ~fallbackInitiated[o] => PriceNow(o) <= hand.currentPrice
      /\ handShare[o] >= hand.fillBps /\ Active(reg[o][Bot]) =>
           reg[o][Bot].fillAmount >= hand.fillAmount
  BY <1>1, <1>3 DEF HandKnows
<1>6. ASSUME handShare[o] >= hand.fillBps, ~valid
      PROVE  ~(Active(reg[o][Bot]) /\ block <= Deadline[o])
  <2> SUFFICES ASSUME Active(reg[o][Bot]), block <= Deadline[o]
               PROVE  reg[o][Bot].fillAmount >= hand.fillAmount % U128
    BY <1>6 DEF hasValidRegistration
  <2>1. hand.fillAmount \in Nat /\ reg[o][Bot].fillAmount \in Nat
    BY <1>1, StakeAmount DEF Command
  <2>2. hand.fillAmount % U128 \in Nat /\ hand.fillAmount % U128 <= hand.fillAmount
    <3> DEFINE n == hand.fillAmount
    <3>1. n \in Nat /\ U128 \in Nat \ {0}
      BY <2>1, AuctionAssumption
    <3> HIDE DEF n
    <3>2. n % U128 \in Nat /\ n % U128 <= n
      <4>1. n \div U128 \in Nat /\ (n \div U128) * U128 \in Nat
        BY <3>1, Division
      <4>2. n = (n \div U128) * U128 + (n % U128) /\ n % U128 \in Nat
        BY <3>1
      <4> QED BY <3>1, <4>1, <4>2
    <3> QED BY <3>2 DEF n
  <2> QED BY <1>5, <1>6, <2>1, <2>2
<1> HIDE DEF valid
<1>7. /\ hand' \in Command /\ hand'.pc = (IF valid THEN "execute" ELSE "register")
      /\ hand'.order = o /\ hand'.fillBps = hand.fillBps
      /\ hand'.fillAmount = hand.fillAmount /\ hand'.currentPrice = hand.currentPrice
  BY <1>1, <1>3, <1>4 DEF Command
<1>8. /\ PriceNow(o)' = PriceNow(o) /\ fallbackInitiated' = fallbackInitiated
      /\ reg' = reg /\ shown' = shown /\ handShare' = handShare /\ block' = block
  BY <1>1 DEF PriceNow, getCurrentPrice, vars, reactorVars, fillVars, switchVars, auctionVars
<1>9. HandTypes'
  <2>1. ShownFalls
    BY <1>1, <1>2, ShownStays
  <2> QED BY <1>1, <1>7, <2>1, HandTypesStay DEF HandTypes
<1>10. HandStakes'
  BY <1>1, <1>2, ShownStays, HandStakesStay
<1>11. HandKnows'
  BY <1>5, <1>6, <1>7, <1>8 DEF HandKnows
<1> QED BY <1>2, <1>9, <1>10, <1>11 DEF HandInv

(* What a command stakes on, the reactor lets it fill.                     *)
LEMMA AmountIsFillable ==
  ASSUME IInv, HandTypes, NEW o \in Orders, NEW share \in Nat, NEW n \in Nat,
         n >= fillAmount(o, shown[o], share)
  PROVE  Fillable(o, n)
<1>1. /\ shown[o] \in Nat /\ remainingInput(o) \in Nat /\ remainingInput(o) <= shown[o]
      /\ MinFill[o] \in Nat
  BY RemainingNat, OrderAssumption DEF IInv, HandTypes
<1> DEFINE m == fillAmount(o, shown[o], share)
<1>2. m \in Nat /\ (m >= MinFill[o] \/ m = shown[o])
  BY <1>1, ShareIsFillable
<1> HIDE DEF m
<1>3. n >= MinFill[o] \/ n >= remainingInput(o)
  BY <1>1, <1>2 DEF m
<1> QED BY <1>3 DEF Fillable

LEMMA RegisterByHandPreserves ==
  ASSUME HandInv, RegisterByHand
  PROVE  HandInv'
<1>1. /\ BotInv /\ IInv /\ BotTypeOK /\ HandTypes /\ HandStakes /\ HandKnows /\ SeenIsWatched
      /\ UNCHANGED botVars /\ shown' = shown
      /\ UNCHANGED <<watching, registered, cb, strategy, up, seen, heard, orphans, crashes>>
      /\ hand \in Command /\ hand.pc = "register"
  BY DEF HandInv, BotInv, HandTypes, RegisterByHand, botVars, mapVars, hostVars
<1>2. PICK o \in Orders : o = hand.order
  BY <1>1 DEF Command
<1>3. /\ SubmitRegister(o, hand.fillAmount) /\ hand.fillAmount \in Nat /\ hand.fillBps \in Nat
      /\ hand' = [hand EXCEPT !.pc = "execute"]
      /\ handShare' = [handShare EXCEPT ![o] = hand.fillBps]
  BY <1>1, <1>2 DEF RegisterByHand, Command
<1>4. /\ hand.fillBps > 0
      /\ hand.fillAmount >= fillAmount(o, shown[o], hand.fillBps)
      /\ ~fallbackInitiated[o] => PriceNow(o) <= hand.currentPrice
  BY <1>1, <1>2 DEF HandKnows
<1>5. Fillable(o, hand.fillAmount)
  BY <1>1, <1>3, <1>4, AmountIsFillable
<1>6. o \in watching \/ o \notin seen \/ ~StillOpen(o) \/ reg[o][Bot].registered
  BY <1>1 DEF SeenIsWatched
<1>7. IInv' /\ ChainMoves /\ WhaleCommitmentFillable' /\ StakedIsWatched'
  BY <1>1, <1>3, <1>5, <1>6, StakeIsGood
<1>8. /\ NoStakeTwice /\ ~reg[o][Bot].registered
      /\ reg'[o][Bot].registered /\ reg'[o][Bot].fillAmount = hand.fillAmount
  <2>1. /\ ~reg[o][Bot].registered /\ reg'[o][Bot].fillAmount = hand.fillAmount
    BY <1>1, <1>3, BotAssumption, RegisterMoves DEF SubmitRegister
  <2>2. NoStakeTwice
    BY <1>1, <1>3, SubmitsMove
  <2>3. reg'[o][Bot].registered
    <3>1. PICK excess \in Nat : Commits(o, Bot, hand.fillAmount, excess)
      BY <1>1, <1>3, BotAssumption, RegisterRegisters DEF IInv, SubmitRegister
    <3> QED BY <3>1 DEF Commits
  <2> QED BY <2>1, <2>2, <2>3
<1>9. BotInv'
  <2>1. Dropped
    BY <1>1 DEF Dropped
  <2>2. \A k \in Callbacks : Alike(cb[k], cb'[k])
    BY <1>1 DEF Alike
  <2>3. heard' \in 0..(block' + 1)
    BY <1>1, <1>7, HeardStays
  <2> QED BY <1>1, <1>7, <2>1, <2>2, <2>3, StepPreserves DEF BotTypeOK
<1>10. /\ hand' \in Command /\ hand'.pc = "execute" /\ hand'.order = o
       /\ hand'.fillBps = hand.fillBps /\ hand'.fillAmount = hand.fillAmount
       /\ hand'.currentPrice = hand.currentPrice
  BY <1>1, <1>2, <1>3 DEF Command
<1>11. /\ handShare' \in [Orders -> Nat] /\ handShare'[o] = hand.fillBps
       /\ \A p \in Orders : p # o => handShare'[p] = handShare[p]
  BY <1>1, <1>3 DEF HandTypes
<1>12. ShownFalls
  BY <1>1, <1>7, ShownStays
<1>13. HandTypes'
  BY <1>1, <1>10, <1>11, <1>12, HandTypesStay
<1>14. HandStakes'
  <2> SUFFICES ASSUME NEW p \in Orders, handShare'[p] > 0
               PROVE  /\ reg'[p][Bot].registered
                      /\ Active(reg'[p][Bot]) =>
                           reg'[p][Bot].fillAmount >= fillAmount(p, shown'[p], handShare'[p])
    BY DEF HandStakes
  <2>1. CASE p = o
    BY <1>1, <1>4, <1>8, <1>11, <2>1
  <2>2. CASE p # o
    BY <1>1, <1>7, <1>8, <1>11, <1>12, <2>2, StakeKept
  <2> QED BY <2>1, <2>2
<1>15. HandKnows'
  <2>1. ~fallbackInitiated'[o] => PriceNow(o)' <= hand.currentPrice
    <3> SUFFICES ASSUME ~fallbackInitiated'[o] PROVE PriceNow(o)' <= hand.currentPrice
      OBVIOUS
    <3>1. ~fallbackInitiated[o] /\ PriceNow(o)' \in Nat /\ PriceNow(o)' <= PriceNow(o)
      BY <1>7 DEF ChainMoves
    <3>2. PriceNow(o) \in Nat /\ hand.currentPrice \in Nat
      BY <1>1, PriceIs DEF PriceKnown, Command
    <3> QED BY <1>4, <3>1, <3>2
  <2> QED BY <1>1, <1>4, <1>10, <2>1 DEF HandKnows
<1> QED BY <1>9, <1>13, <1>14, <1>15 DEF HandInv

LEMMA ExecuteByHandPreserves ==
  ASSUME HandInv, ExecuteByHand
  PROVE  HandInv'
<1>1. /\ BotInv /\ IInv /\ hand \in Command /\ UNCHANGED botVars
      /\ hand' = NoCommand /\ UNCHANGED <<shown, handShare>>
  BY DEF HandInv, BotInv, HandTypes, ExecuteByHand
<1>2. hand.order \in Orders /\ hand.fillAmount \in Nat
  BY <1>1 DEF Command
<1>3. ChainStep
  BY <1>1, <1>2, BotAssumption, ExecuteMoves DEF ExecuteByHand, SubmitExecute
<1>4. BotInv'
  BY <1>1, <1>3, ChainPreserves
<1> QED BY <1>1, <1>3, <1>4, NothingTwice, OverPreserves

LEMMA CommandFailsPreserves ==
  ASSUME HandInv, CommandFails
  PROVE  HandInv'
<1>1. /\ BotInv /\ UNCHANGED botSystemVars
      /\ hand' = NoCommand /\ UNCHANGED <<shown, handShare>>
  BY DEF HandInv, CommandFails
<1>2. BotInv' /\ ChainMoves /\ NoStakeTwice
  BY <1>1, NextBotInv, BotMoves
<1> QED BY <1>1, <1>2, OverPreserves

(* What a dying command has sent is as good as what the bot sends.         *)
LEMMA CommandDiesPreserves ==
  ASSUME HandInv, CommandDies
  PROVE  HandInv'
<1> DEFINE sent == [kind |-> hand.pc, order |-> hand.order, fillAmount |-> hand.fillAmount]
<1>1. /\ BotInv /\ IInv /\ BotTypeOK /\ HandTypes /\ HandKnows /\ hand \in Command
      /\ WhaleCommitmentFillable /\ SeenIsWatched /\ OrphansFit
      /\ \A c \in Callbacks : Informed(cb[c])
      /\ UNCHANGED vars
      /\ UNCHANGED <<watching, registered, cb, strategy, up, seen, heard>>
      /\ crashes' = crashes + 1 /\ orphans' = orphans \cup {sent}
      /\ hand.pc \in {"register", "execute"}
      /\ hand' = NoCommand /\ UNCHANGED <<shown, handShare>>
  BY DEF HandInv, BotInv, HandTypes, CommandDies, mapVars
<1>2. ChainStep /\ block' = block
  BY <1>1, Still DEF vars, reactorVars
<1>3. crashes \in Nat /\ crashes' \in Nat /\ crashes' > 0
  BY <1>1 DEF BotTypeOK
<1>4. hand.order \in Orders /\ hand.fillAmount \in Nat /\ hand.fillBps \in Nat
  BY <1>1 DEF Command
<1>5. Fillable(hand.order, hand.fillAmount)
  <2>1. hand.fillAmount >= fillAmount(hand.order, shown[hand.order], hand.fillBps)
    BY <1>1, <1>4 DEF HandKnows
  <2> QED BY <1>1, <1>4, <2>1, AmountIsFillable
<1>6. \A t \in orphans' :
        /\ t.order \in Orders /\ t.fillAmount \in Nat
        /\ strategy = "whale" /\ t.kind = "register" =>
             \A o \in Orders : t.order = o => Fillable(o, t.fillAmount)
  <2> SUFFICES ASSUME NEW t \in orphans'
               PROVE  /\ t.order \in Orders /\ t.fillAmount \in Nat
                      /\ strategy = "whale" /\ t.kind = "register" =>
                           \A o \in Orders : t.order = o => Fillable(o, t.fillAmount)
    OBVIOUS
  <2>1. CASE t \in orphans
    BY <1>1, <2>1 DEF BotTypeOK, OrphansFit
  <2>2. CASE t = sent
    BY <1>4, <1>5, <2>2
  <2> QED BY <1>1, <2>1, <2>2
<1> HIDE DEF sent
<1>7. \A o \in Orders :
        /\ remainingInput(o)' = remainingInput(o) /\ (StillOpen(o)' <=> StillOpen(o))
        /\ PriceNow(o)' = PriceNow(o)
      /\ fallbackInitiated' = fallbackInitiated /\ reg' = reg
  BY <1>1 DEF remainingInput, StillOpen, isNonceInvalidatedForOrder, PriceNow, getCurrentPrice,
              vars, reactorVars, fillVars, switchVars, auctionVars
<1>8. BotInv'
  <2>1. BotTypeOK'
    BY <1>1, <1>2, <1>3, <1>6 DEF BotTypeOK
  <2>2. OrphansFit'
    BY <1>1, <1>3, <1>6, <1>7 DEF OrphansFit, Fillable
  <2>3. WhaleCommitmentFillable'
    BY <1>1, <1>7 DEF WhaleCommitmentFillable, CommitmentFillable, Fillable
  <2>4. StakedIsWatched'
    BY <1>3 DEF StakedIsWatched
  <2>5. SeenIsWatched'
    <3> SUFFICES ASSUME NEW o \in seen'
                 PROVE  o \in watching' \/ ~StillOpen(o)' \/ reg'[o][Bot].registered
      BY DEF SeenIsWatched
    <3>1. o \in seen /\ o \in Orders
      BY <1>1 DEF BotTypeOK
    <3> QED BY <1>1, <1>7, <3>1 DEF SeenIsWatched
  <2>6. ASSUME NEW c \in Callbacks PROVE Informed(cb[c])'
    <3>1. Informed(cb[c])
      BY <1>1
    <3> QED BY <1>1, <1>2, <1>7, <3>1 DEF Informed, Fillable
  <2>7. IInv'
    BY <1>2 DEF ChainStep
  <2> QED BY <2>1, <2>2, <2>3, <2>4, <2>5, <2>6, <2>7 DEF BotInv
<1> QED BY <1>1, <1>2, <1>8, NothingTwice, OverPreserves

-----------------------------------------------------------------------------
LEMMA InitHandInv == Init /\ BotInit /\ HandInit => HandInv
<1> SUFFICES ASSUME Init, BotInit, HandInit PROVE HandInv
  OBVIOUS
<1>1. BotInv
  BY InitBotInv
<1>2. \A o \in Orders : remainingInput(o) = InputAmount[o] /\ InputAmount[o] \in Nat
  BY OrderAssumption DEF Init, ReactorInit, remainingInput, Unpack
<1>3. HandTypes
  <2>1. shown \in [Orders -> Nat] /\ handShare \in [Orders -> Nat]
    BY <1>2 DEF HandInit
  <2>2. \A o \in Orders : remainingInput(o) <= shown[o]
    BY <1>2 DEF HandInit
  <2> QED BY <2>1, <2>2, NoCommandIsCommand DEF HandInit, HandTypes
<1>4. HandStakes /\ HandKnows
  BY NoCommandIsCommand DEF HandInit, HandStakes, HandKnows
<1> QED BY <1>1, <1>3, <1>4 DEF HandInv

LEMMA NextHandInv ==
  HandInv /\ [(BotNext /\ UNCHANGED handVars) \/ HandNext]_handSystemVars => HandInv'
<1> SUFFICES ASSUME HandInv, [(BotNext /\ UNCHANGED handVars) \/ HandNext]_handSystemVars
             PROVE  HandInv'
  OBVIOUS
<1>1. CASE [BotNext]_botSystemVars /\ UNCHANGED handVars
  <2>1. BotInv /\ IInv /\ HandTypes
    BY DEF HandInv, BotInv
  <2>2. BotInv' /\ ChainMoves /\ NoStakeTwice
    BY <1>1, <2>1, NextBotInv, BotMoves
  <2>3. ShownFalls
    BY <1>1, <2>1, <2>2, ShownStays DEF handVars
  <2> QED BY <1>1, <2>2, <2>3, WaitingPreserves DEF handVars
<1>2. CASE \E o \in Orders : BackendShows(o)
  BY <1>2, BackendShowsPreserves
<1>3. CASE \E o \in Orders, fillBps \in Shares : StartCommand(o, fillBps)
  BY <1>3, StartCommandPreserves
<1>4. CASE CheckRegistration
  BY <1>4, CheckRegistrationPreserves
<1>5. CASE RegisterByHand
  BY <1>5, RegisterByHandPreserves
<1>6. CASE ExecuteByHand
  BY <1>6, ExecuteByHandPreserves
<1>7. CASE CommandFails
  BY <1>7, CommandFailsPreserves
<1>8. CASE CommandDies
  BY <1>8, CommandDiesPreserves
<1> QED BY <1>1, <1>2, <1>3, <1>4, <1>5, <1>6, <1>7, <1>8 DEF HandNext, handSystemVars

(* The invariant of the bot, its prompt and the contracts.                 *)
THEOREM HandInvariant == HandSpec => []HandInv
<1> QED BY InitHandInv, NextHandInv, PTL DEF HandSpec

(* While its process lives, a bot never stops working on an order it has an*)
(* open commitment to, by its own decision or by hand, and can still earn  *)
(* its stake back from.                                                    *)
THEOREM BotStakesAreWatched == HandSpec => []StakedIsWatched
<1>1. HandInv => StakedIsWatched
  BY DEF HandInv, BotInv
<1> QED BY <1>1, HandInvariant, PTL

(* A Whale never stakes on a chunk the reactor would refuse to let it fill.*)
THEOREM BotCommitmentsFillable == HandSpec => []WhaleCommitmentFillable
<1>1. HandInv => WhaleCommitmentFillable
  BY DEF HandInv, BotInv
<1> QED BY <1>1, HandInvariant, PTL

(* A price that is not below the reactor's provides for a fill.            *)
LEMMA PriceProvides ==
  ASSUME IInv, NEW o \in Orders, NEW n \in Nat, NEW price \in Nat,
         ~fallbackInitiated[o] => PriceNow(o) <= price, ~fallbackInitiated[o]
  PROVE  OutputAmount(o, n) <= mulDiv(n, price, PriceUnit)
<1>1. PriceNow(o) \in Nat /\ PriceNow(o) <= price
  BY PriceIs DEF PriceKnown
<1> QED BY <1>1, MulDivGrows DEF OutputAmount

(* A bot's allowance covers every fill the reactor would accept from it.   *)
THEOREM BotProvisions == HandSpec => []Provisioned
<1>1. HandInv => Provisioned
  <2> SUFFICES ASSUME BotInv, NEW c \in Callbacks, cb[c].pc = "execute",
                      FillChecks(cb[c].order, Bot, cb[c].fillAmount)
               PROVE  OutputAmount(cb[c].order, cb[c].fillAmount)
                        <= mulDiv(cb[c].fillAmount, cb[c].currentPrice, PriceUnit)
    BY DEF HandInv, Provisioned, At
  <2>1. /\ cb[c] \in Callback /\ Informed(cb[c]) /\ IInv
    BY DEF BotInv, BotTypeOK
  <2>2. PICK o \in Orders : o = cb[c].order
    BY <2>1 DEF Callback
  <2>3. /\ ~fallbackInitiated[o] /\ PriceNow(o) <= cb[c].currentPrice
        /\ cb[c].fillAmount \in Nat /\ cb[c].currentPrice \in Nat
    BY <2>1, <2>2 DEF FillChecks, Informed, Callback
  <2> QED BY <2>1, <2>2, <2>3, PriceProvides
<1> QED BY <1>1, HandInvariant, PTL

-----------------------------------------------------------------------------
(* What sim shows is what the chain would move.                            *)
LEMMA SimShowsChain ==
  ASSUME IInv, NEW o \in Orders, NEW fillBps \in Shares
  PROVE  SimIsExact(o, fillBps)
<1> DEFINE left  == remainingInput(o)
           first == IF isNewOrder(raw[o]) THEN block ELSE openedAt[o]
           s     == sim(o, left, first, fillBps)
           n     == fillAmount(o, left, fillBps)
           price == DecayedPrice(StartPrice[o], DecayPerBlock[o], first, block)
<1> SUFFICES ASSUME left > 0, ~fallbackInitiated[o]
             PROVE  /\ Fillable(o, s.receive) /\ s.receive <= left
                    /\ s.provide = OutputAmount(o, s.receive)
                    /\ s.fillable =>
                         OutputAmount(o, s.receive) >= mulDiv(MinOutput[o], s.receive, InputAmount[o])
  BY DEF SimIsExact
<1>1. left \in Nat /\ fillBps \in Nat /\ MinFill[o] \in Nat
  <2>1. left \in Nat
    BY RemainingNat DEF IInv
  <2>2. fillBps \in Nat
    BY ShareNat, Zenon
  <2>3. MinFill[o] \in Nat
    BY OrderAssumption
  <2> QED BY <2>1, <2>2, <2>3
<1>2. n \in Nat /\ n <= left /\ (n >= MinFill[o] \/ n = left)
  <2> HIDE DEF left
  <2> QED BY <1>1, ShareIsFillable
<1>3. price = PriceNow(o)
  <2>1. /\ block \in Nat /\ openedAt[o] \in Nat /\ StartPrice[o] \in Nat
        /\ isNewOrder(raw[o]) => PriceNow(o) = StartPrice[o]
        /\ ~isNewOrder(raw[o]) =>
             openedAt[o] <= block /\ PriceNow(o) = CurveAfter(o, block - openedAt[o])
    BY PriceIs, OrderAssumption DEF PriceKnown, IInv, TypeOK
  <2> DEFINE passed == IF block > first THEN block - first ELSE 0
  <2>2. first \in Int
    BY <2>1
  <2>3. passed = (IF isNewOrder(raw[o]) THEN 0 ELSE block - openedAt[o])
    BY <2>1
  <2>4. price = CurveAfter(o, passed)
    <3> HIDE DEF first
    <3> QED BY <2>1, <2>2, DecayedIsCurve
  <2>5. CurveAfter(o, 0) = StartPrice[o]
    BY <2>1, OrderAssumption DEF CurveAfter
  <2> HIDE DEF passed, price
  <2> QED BY <2>1, <2>3, <2>4, <2>5
<1>4. s = [receive |-> n, provide |-> mulDiv(n, price, PriceUnit),
           fillable |-> left > 0 /\ price > 0
                          /\ mulDiv(n, price, PriceUnit) >= mulDiv(MinOutput[o], n, InputAmount[o])]
  BY DEF sim
<1> HIDE DEF n, price, s
<1>5. /\ s.receive = n /\ s.provide = mulDiv(n, price, PriceUnit)
      /\ s.fillable => mulDiv(n, price, PriceUnit) >= mulDiv(MinOutput[o], n, InputAmount[o])
  BY <1>4, Zenon
<1>6. Fillable(o, n)
  BY <1>1, <1>2 DEF Fillable
<1> QED BY <1>2, <1>3, <1>5, <1>6 DEF OutputAmount

(* A command of the prompt does what it says, whatever the bot, the other  *)
(* fillers, the swapper and the fallback do meanwhile.                     *)
THEOREM CommandsDeliver == HandSpec => []CommandDelivers
<1>1. HandInv => CommandDelivers
  <2> SUFFICES ASSUME HandInv PROVE CommandDelivers
    OBVIOUS
  <2>1. IInv /\ HandTypes /\ HandStakes /\ HandKnows /\ hand \in Command
    BY DEF HandInv, BotInv, HandTypes
  <2>2. ASSUME NEW o \in Orders, handShare[o] > 0, Active(reg[o][Bot])
        PROVE  Fillable(o, reg[o][Bot].fillAmount)
    <3>1. /\ reg[o][Bot].fillAmount \in Nat /\ handShare[o] \in Nat
          /\ reg[o][Bot].fillAmount >= fillAmount(o, shown[o], handShare[o])
      BY <2>1, <2>2, StakeAmount DEF HandStakes, HandTypes
    <3> QED BY <2>1, <3>1, AmountIsFillable
  <2>3. PICK o \in Orders : o = hand.order
    BY <2>1 DEF Command
  <2>4. ASSUME hand.pc = "execute", FillChecks(o, Bot, hand.fillAmount)
        PROVE  OutputAmount(o, hand.fillAmount)
                 <= mulDiv(hand.fillAmount, hand.currentPrice, PriceUnit)
    <3>1. /\ ~fallbackInitiated[o] /\ PriceNow(o) <= hand.currentPrice
          /\ hand.fillAmount \in Nat /\ hand.currentPrice \in Nat
      BY <2>1, <2>3, <2>4 DEF FillChecks, HandKnows, Command
    <3> QED BY <2>1, <3>1, PriceProvides
  <2>5. hand.pc = "register" /\ handShare[o] >= hand.fillBps =>
          ~(Active(reg[o][Bot]) /\ block <= Deadline[o])
    BY <2>1, <2>3 DEF HandKnows
  <2>6. \A p \in Orders, fillBps \in Shares : SimIsExact(p, fillBps)
    BY <2>1, SimShowsChain
  <2> QED BY <2>2, <2>3, <2>4, <2>5, <2>6 DEF CommandDelivers
<1> QED BY <1>1, HandInvariant, PTL
=============================================================================
