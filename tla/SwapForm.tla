-------------------------------- MODULE SwapForm --------------------------------
(***************************************************************************)
(* The swap page (frontend/src/pages/DutchAuction.tsx): amounts typed or   *)
(* quoted, approvals read and given, and an order signed and posted whose  *)
(* price falls from a premium on the quote to the signed floor.  Whatever  *)
(* is awaited (a quote, an allowance, a transaction, a signature) answers  *)
(* later, in any order, to a form that has changed.                        *)
(*                                                                         *)
(* The output token decides nothing here but the rate, which is one of     *)
(* Rates, and is left out; so are balances, the minimum fill, the pinned   *)
(* aggregator and the card's polling, of which no guard depends on any but *)
(* the balance's.  An amount of 0 is an empty field.                       *)
(***************************************************************************)
EXTENDS FillStrategy

CONSTANTS
  Tokens,      \* what may be sold
  Amounts,     \* what may be typed
  Rates,       \* what a quote may come to, per Unit
  Decays,      \* what may be typed or suggested as the decay; 0: left blank
  START_PREMIUM_BPS, FLOOR_SLIPPAGE_BPS, AUCTION_BLOCKS, DECAY_PER_BLOCK_MAX,
  MaxInputs    \* bound on what the user does

ASSUME FormAssumption ==
  /\ Amounts \subseteq Nat /\ Rates \subseteq Nat \ {0} /\ Decays \subseteq Nat
  /\ START_PREMIUM_BPS \in Nat /\ FLOOR_SLIPPAGE_BPS \in 0..BPS
  /\ AUCTION_BLOCKS \in Nat \ {0} /\ DECAY_PER_BLOCK_MAX \in Nat /\ MaxInputs \in Nat

VARIABLES
  inKey, inAmt, outAmt, manualDecay,  \* the fields
  debounced,   \* the amount whose quote waits for the timer, or 0
  quotes,      \* the amounts whose quotes are under way
  step,
  approvals,   \* of each token: 0 none, 1 Permit2, 2 and the reactor, 3 and the fallback executor
  checks,      \* of each token, how many reads of its approvals are under way
  approving,   \* the approval transactions under way
  signing,     \* the orders at the wallet or on their way to the backend
  card,        \* the page shows the order it posted
  inputs

fieldVars    == <<inKey, inAmt, outAmt, manualDecay, debounced, quotes>>
approvalVars == <<step, approvals, checks, approving>>
formVars     == <<fieldVars, approvalVars, signing, card, inputs>>

(* The effect that reads a token's approvals.                              *)
CheckApproval(k) == step' = "checking" /\ checks' = [checks EXCEPT ![k] = @ + 1]

(* The effect that asks for a quote half a second after the last change.   *)
AutoQuote(amt, shown) == debounced' = amt /\ outAmt' = IF amt = 0 THEN 0 ELSE shown

FormInit ==
  \E k \in Tokens :
    /\ inKey = k /\ inAmt = 0 /\ outAmt = 0 /\ manualDecay = 0
    /\ debounced = 0 /\ quotes = {}
    /\ step = "checking" /\ checks = [t \in Tokens |-> IF t = k THEN 1 ELSE 0]
    /\ approvals \in [Tokens -> 0..3] /\ approving = {}
    /\ signing = {} /\ card = FALSE /\ inputs = 0

(* The user acts on the form.                                              *)
Input == ~card /\ inputs < MaxInputs /\ inputs' = inputs + 1

-----------------------------------------------------------------------------
(* Fields and quotes.                                                      *)
TypeInput(a) ==
  /\ Input /\ a # inAmt
  /\ inAmt' = a /\ AutoQuote(a, outAmt)
  /\ UNCHANGED <<inKey, manualDecay, quotes, approvalVars, signing, card>>

TypeOutput(a) ==
  /\ Input /\ outAmt' = a
  /\ UNCHANGED <<inKey, inAmt, manualDecay, debounced, quotes, approvalVars, signing, card>>

(* By hand or, for an amount that is there, by a suggestion.               *)
SetDecay(d) ==
  /\ Input /\ manualDecay' = d
  /\ UNCHANGED <<inKey, inAmt, outAmt, debounced, quotes, approvalVars, signing, card>>

ChooseToken(k) ==
  /\ Input /\ k # inKey
  /\ inKey' = k /\ AutoQuote(inAmt, outAmt) /\ CheckApproval(k)
  /\ UNCHANGED <<inAmt, manualDecay, quotes, approvals, approving, signing, card>>

Flip(k) ==
  /\ Input /\ k # inKey
  /\ inKey' = k /\ inAmt' = outAmt /\ AutoQuote(outAmt, inAmt) /\ CheckApproval(k)
  /\ UNCHANGED <<manualDecay, quotes, approvals, approving, signing, card>>

AskQuote ==
  /\ debounced > 0
  /\ quotes' = quotes \cup {debounced} /\ debounced' = 0
  /\ UNCHANGED <<inKey, inAmt, outAmt, manualDecay, approvalVars, signing, card, inputs>>

(* An answer is shown, whatever the form says by then; a failure is not.   *)
QuoteAnswers(a) ==
  /\ a \in quotes /\ quotes' = quotes \ {a}
  /\ outAmt' \in {outAmt} \cup {mulDiv(a, rate, Unit) : rate \in Rates}
  /\ UNCHANGED <<inKey, inAmt, manualDecay, debounced, approvalVars, signing, card, inputs>>

-----------------------------------------------------------------------------
(* Approvals.                                                              *)
CheckAnswers(k) ==
  /\ checks[k] > 0 /\ checks' = [checks EXCEPT ![k] = @ - 1]
  /\ step' \in {"idle", CASE approvals[k] = 0 -> "erc20"
                          [] approvals[k] \in 1..2 -> "p2"
                          [] OTHER -> "ready"}
  /\ UNCHANGED <<fieldVars, approvals, approving, signing, card, inputs>>

(* doApproveERC20 and doApproveP2.                                         *)
Approve ==
  /\ Input /\ step \in {"erc20", "p2"}
  /\ approving' = approving \cup {[kind |-> step, token |-> inKey]}
  /\ step' = "busy"
  /\ UNCHANGED <<fieldVars, approvals, checks, signing, card>>

(* Permit2 takes a transaction for each of its two spenders.               *)
ApprovalMined(a) ==
  /\ a \in approving
  /\ LET had  == approvals[a.token]
         has  == IF a.kind = "erc20" THEN IF had = 0 THEN 1 ELSE had
                 ELSE IF had < 2 THEN 2 ELSE 3
     IN  /\ approvals' = [approvals EXCEPT ![a.token] = has]
         /\ IF a.kind = "p2" /\ has = 2
              THEN UNCHANGED <<approving, step, checks>>
              ELSE approving' = approving \ {a} /\ CheckApproval(a.token)
  /\ UNCHANGED <<fieldVars, signing, card, inputs>>

ApprovalFails(a) ==
  /\ a \in approving /\ approving' = approving \ {a}
  /\ step' = a.kind
  /\ UNCHANGED <<fieldVars, approvals, checks, signing, card, inputs>>

-----------------------------------------------------------------------------
(* The order.                                                              *)

startOut == mulDiv(outAmt, BPS + START_PREMIUM_BPS, BPS)
floorOut == mulDiv(outAmt, BPS - FLOOR_SLIPPAGE_BPS, BPS)

calcStartPrice(inWei, outWei) == mulDiv(outWei, Unit, inWei)

sp        == calcStartPrice(inAmt, startOut)
floorRate == calcStartPrice(inAmt, floorOut)

(* Fault: the last block of the window is reached a block early.           *)
sweep_Short ==
  Least(DECAY_PER_BLOCK_MAX, IF sp > floorRate THEN (sp - floorRate) \div (AUCTION_BLOCKS - 1) ELSE 0)

(* From start to floor over the window, as far as the field holds it.      *)
sweep ==
  Least(DECAY_PER_BLOCK_MAX, IF sp > floorRate THEN (sp - floorRate) \div AUCTION_BLOCKS ELSE 0)

orderBody ==
  [inputAmount |-> inAmt, minOutputAmount |-> floorOut, startPrice |-> sp,
   decayPerBlock |-> IF manualDecay > 0 THEN manualDecay ELSE sweep,
   swept |-> manualDecay = 0,  \* history: no decay was set
   resolved |-> sp > floorRate]

canSwap == ~card /\ inAmt > 0 /\ outAmt > 0 /\ step = "ready"

(* Fault: a refusal leaves the button as it was for the signature.         *)
DecayRefused_Busy ==
  /\ Input /\ canSwap /\ manualDecay > DECAY_PER_BLOCK_MAX
  /\ step' = "busy"
  /\ UNCHANGED <<fieldVars, approvals, checks, approving, signing, card>>

(* doSwap, for a decay that the order's field cannot hold.                 *)
DecayRefused ==
  /\ Input /\ canSwap /\ manualDecay > DECAY_PER_BLOCK_MAX
  /\ step' = "ready"
  /\ UNCHANGED <<fieldVars, approvals, checks, approving, signing, card>>

DoSwap ==
  /\ Input /\ canSwap /\ manualDecay <= DECAY_PER_BLOCK_MAX
  /\ step' = "busy"
  /\ signing' = signing \cup {orderBody}
  /\ UNCHANGED <<fieldVars, approvals, checks, approving, card>>

Posted(b) ==
  /\ b \in signing /\ signing' = signing \ {b}
  /\ card' = TRUE
  /\ UNCHANGED <<fieldVars, approvalVars, inputs>>

SwapFails(b) ==
  /\ b \in signing /\ signing' = signing \ {b}
  /\ step' = "ready"
  /\ UNCHANGED <<fieldVars, approvals, checks, approving, card, inputs>>

(* Back to the form, which reads the approvals again.                      *)
Back ==
  /\ card /\ card' = FALSE
  /\ CheckApproval(inKey)
  /\ UNCHANGED <<fieldVars, approvals, approving, signing, inputs>>

FormNext ==
  \/ \E a \in Amounts : TypeInput(a) \/ TypeOutput(a)
  \/ \E d \in Decays : SetDecay(d)
  \/ \E k \in Tokens : ChooseToken(k) \/ Flip(k) \/ CheckAnswers(k)
  \/ AskQuote \/ \E a \in quotes : QuoteAnswers(a)
  \/ Approve \/ \E a \in approving : ApprovalMined(a) \/ ApprovalFails(a)
  \/ DecayRefused \/ DoSwap \/ Back
  \/ \E b \in signing : Posted(b) \/ SwapFails(b)

FormSpec == FormInit /\ [][FormNext]_formVars

-----------------------------------------------------------------------------
(* What is signed can be filled to its last block: however the fields came *)
(* to what they are, an order whose decay was left to the form, and whose  *)
(* price tells its start from its floor, pays the signed floor for any part*)
(* of it in any block up to the deadline.  The curve starts at the first   *)
(* fill, at the earliest in the block after the one the form saw.          *)
SweepStaysFillable ==
  \A b \in signing : b.swept /\ b.resolved =>
    \A blocks \in 0 .. AUCTION_BLOCKS - 1, fill \in 1 .. b.inputAmount :
      mulDiv(b.minOutputAmount, fill, b.inputAmount)
        <= mulDiv(fill, b.startPrice - b.decayPerBlock * blocks, Unit)

(* A button that waits has something to wait for: where it is disabled for *)
(* a read of the approvals or for the wallet, one is under way, whatever   *)
(* failed, was refused or answered late, or the page shows an order.       *)
WaitsEnd ==
  /\ step = "checking" => \E k \in Tokens : checks[k] > 0
  /\ step = "busy" => approving # {} \/ signing # {} \/ card

(* Why: the fields hold amounts, and what was swept is still above the rate*)
(* of the floor at the last block of the window.                           *)
Body ==
  [inputAmount : Nat \ {0}, minOutputAmount : Nat, startPrice : Nat, decayPerBlock : Nat,
   swept : BOOLEAN, resolved : BOOLEAN]

AboveFloor(b) ==
  b.swept /\ b.resolved =>
    calcStartPrice(b.inputAmount, b.minOutputAmount)
      < b.startPrice - b.decayPerBlock * (AUCTION_BLOCKS - 1)

FormInv ==
  /\ inKey \in Tokens /\ inAmt \in Nat /\ outAmt \in Nat /\ manualDecay \in Nat
  /\ debounced \in Nat /\ quotes \subseteq Nat
  /\ step \in {"checking", "idle", "erc20", "p2", "ready", "busy"}
  /\ approvals \in [Tokens -> 0..3] /\ checks \in [Tokens -> Nat]
  /\ approving \subseteq [kind : {"erc20", "p2"}, token : Tokens]
  /\ \A b \in signing : b \in Body /\ AboveFloor(b)
  /\ card \in BOOLEAN
  /\ WaitsEnd
=============================================================================
