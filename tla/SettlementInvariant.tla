------------------------- MODULE SettlementInvariant -------------------------
(***************************************************************************)
(* The inductive invariant behind the safety properties of Settlement.     *)
(* TLC checks it on small instances, SettlementProofs.tla proves it.       *)
(***************************************************************************)
EXTENDS Settlement

(* A registered stake carries terms it can be settled by, on an order the  *)
(* reactor knows the nonce of and whose amounts fit in 128 bits.           *)
RegistrationsFit ==
  \A o \in Orders, f \in Fillers :
    reg[o][f].registered =>
      /\ RowFits(reg[o][f].refundRow, reg[o][f].ratioSnapshot)
      /\ o \in recorded
      /\ InputAmount[o] < U128

(* The fallback leaves nothing of an order to fill or to fall back on.     *)
RemainingFits ==
  \A o \in Orders :
    /\ remainingInput(o) \in 0..InputAmount[o]
    /\ fallbackInitiated[o] => remainingInput(o) = 0

(* The open callback, if any, belongs to a registered filler that keeps to *)
(* its commitment; the order still has what the fill left of it, unless    *)
(* the fallback took that in the meantime.                                 *)
FrameFits ==
  /\ \A fr, other \in frame : fr = other
  /\ \A fr \in frame :
       /\ reg[fr.order][fr.filler].registered
       /\ fr.fill <= reg[fr.order][fr.filler].fillAmount
       /\ fr.currentRemaining = fr.newRemaining + fr.fill
       /\ fallbackInitiated[fr.order] \/ remainingInput(fr.order) = fr.newRemaining

(* The straight decay of an order's price, some blocks after it opened.    *)
CurveAfter(o, blocks) ==
  LET decayed == blocks * DecayPerBlock[o]
  IN  IF decayed >= StartPrice[o] THEN 0 ELSE StartPrice[o] - decayed

(* The cursor of an open order lies on its curve.                          *)
CursorOnCurve ==
  \A o \in Orders :
    ~isNewOrder(raw[o]) /\ ~fallbackInitiated[o] =>
      /\ openedAt[o] <= cursor[o].resetAt
      /\ cursor[o].resetAt <= block
      /\ cursor[o].price = CurveAfter(o, cursor[o].resetAt - openedAt[o])

(* The open route, if any, belongs to an order the fallback has taken over *)
(* and that has not been credited for it yet; only another order can have  *)
(* moved the swapper's balance since the first reading.                    *)
RouteFits ==
  /\ \A rt, other \in route : rt = other
  /\ \A rt \in route :
       /\ fallbackInitiated[rt.order]
       /\ IF rt.inCallback THEN frame # {} ELSE \A fr \in frame : fr.order # rt.order
       /\ alsoPaid[rt.order] = 0
       /\ paid[rt.order] <= rt.balBefore
       /\ rt.balBefore <= outputBalance[PayeeOf[rt.order]]
       /\ rt.balBefore < outputBalance[PayeeOf[rt.order]] => OthersPaid(rt.order)

(* What an order shows as paid has reached the swapper, and is its own but *)
(* for what other orders paid beside its route.                            *)
PaymentsReceived ==
  \A o \in Orders :
    /\ alsoPaid[o] <= paid[o]
    /\ paid[o] <= outputBalance[PayeeOf[o]]
    /\ alsoPaid[o] > 0 => fallbackInitiated[o] /\ OthersPaid(o)

(* FloorPaid, also inside a callback or a route: only the fill or fallback *)
(* that is about to pay for the last of an order may still be in debt.     *)
FloorPaidOrPending ==
  \A o \in Orders :
    \/ remainingInput(o) > 0
    \/ paid[o] >= MinOutput[o]
    \/ \E fr \in frame : fr.order = o /\ fr.newRemaining = 0
    \/ \E rt \in route : rt.order = o

IInv ==
  /\ TypeOK
  /\ RegistrationsFit
  /\ RemainingFits
  /\ InputConserved
  /\ FrameFits
  /\ RouteFits
  /\ PaymentsReceived
  /\ CursorOnCurve
  /\ FloorPaidOrPending
=============================================================================
