-------------------------------- MODULE HandFill --------------------------------
(***************************************************************************)
(* The fill and sim commands of a filler's prompt (cli/actions.ts and      *)
(* fill/partialFill.ts, the same in both bots): a fill of a share of what  *)
(* is left of an order, with the wallet the bot works with, beside the bot *)
(* and unknown to its two maps.                                            *)
(*                                                                         *)
(* What is left is worked out from the backend's list of fills, which may  *)
(* be late.  One command is under way at a time; it may run in a process   *)
(* of its own, which may die.                                              *)
(***************************************************************************)
EXTENDS FillerBot

CONSTANTS
  Shares,       \* what may be asked for, in 1/10000 of what is left
  MaxCommands   \* bound

ASSUME HandAssumption == Shares \subseteq 1..BPS /\ MaxCommands \in Nat

VARIABLES
  shown,     \* what is left of each order by the backend's list of fills
  hand,      \* the command under way
  commands,  \* bound: commands given, or not to be given
  handShare  \* history: the share an order was last registered for by hand, or 0

handVars == <<shown, hand, commands, handShare>>
handSystemVars == <<botSystemVars, handVars>>

Command ==
  [pc : {"idle", "check", "register", "execute"}, order : Orders,
   fillBps : Nat, fillAmount : Nat, currentPrice : Nat]

NoCommand ==
  [pc |-> "idle", order |-> CHOOSE o \in Orders : TRUE,
   fillBps |-> 0, fillAmount |-> 0, currentPrice |-> 0]

HandInit ==
  /\ shown = [o \in Orders |-> InputAmount[o]]
  /\ hand = NoCommand
  /\ commands \in 0..MaxCommands
  /\ handShare = [o \in Orders |-> 0]

BackendShows(o) ==
  /\ shown[o] # remainingInput(o)
  /\ shown' = [shown EXCEPT ![o] = remainingInput(o)]
  /\ UNCHANGED <<botSystemVars, hand, commands, handShare>>

-----------------------------------------------------------------------------
Most(a, b) == IF a > b THEN a ELSE b

(* Fault: the order's minimum is taken from what is left.                  *)
fillAmount_OfRest(o, left, fillBps) ==
  Least(Most(mulDiv(left, fillBps, BPS), mulDiv(MinFill[o], left, InputAmount[o])), left)

(* A share of what is left, raised to the order's minimum chunk, but not   *)
(* beyond what is left.                                                    *)
fillAmount(o, left, fillBps) ==
  Least(Most(mulDiv(left, fillBps, BPS), MinFill[o]), left)

(* Where the curve is at zero, one unit is assumed.                        *)
estimateAuctionPrice(o, first, now) ==
  Most(1, DecayedPrice(StartPrice[o], DecayPerBlock[o], first, now))

(* The first fill the backend lists, where it lists one.                   *)
ListedFirstFill(o) ==
  {block} \cup IF isNewOrder(raw[o]) THEN {} ELSE openedAt[o]..cursor[o].resetAt

(* fill: the order is fetched, the amount and the price are fixed, and the *)
(* output is provided for, with a tenth on top.                            *)
StartCommand(o, fillBps) ==
  /\ hand.pc = "idle" /\ commands < MaxCommands
  /\ shown[o] > 0
  /\ commands' = commands + 1
  /\ \E first \in ListedFirstFill(o) :
       hand' = [pc |-> "check", order |-> o, fillBps |-> fillBps,
                fillAmount |-> fillAmount(o, shown[o], fillBps),
                currentPrice |-> estimateAuctionPrice(o, first, block)]
  /\ UNCHANGED <<botSystemVars, shown, handShare>>

(* Whether there is a registration to use; if not, one is made.            *)
CheckRegistration ==
  LET o == hand.order
  IN  /\ hand.pc = "check"
      /\ hand' = [hand EXCEPT !.pc =
                    IF hasValidRegistration(o, Bot, hand.fillAmount, block, Deadline[o])
                      THEN "execute" ELSE "register"]
      /\ UNCHANGED <<botSystemVars, shown, commands, handShare>>

RegisterByHand ==
  /\ hand.pc = "register"
  /\ SubmitRegister(hand.order, hand.fillAmount)
  /\ hand' = [hand EXCEPT !.pc = "execute"]
  /\ handShare' = [handShare EXCEPT ![hand.order] = hand.fillBps]
  /\ UNCHANGED <<botVars, shown, commands>>

ExecuteByHand ==
  /\ hand.pc = "execute"
  /\ SubmitExecute(hand.order, hand.fillAmount)
  /\ hand' = NoCommand
  /\ UNCHANGED <<botVars, shown, commands, handShare>>

(* Anything fails, the dry run of the execution included: the command ends.*)
CommandFails ==
  /\ hand.pc # "idle"
  /\ hand' = NoCommand
  /\ UNCHANGED <<botSystemVars, shown, commands, handShare>>

(* Its process dies; a transaction that is out may still be mined.         *)
CommandDies ==
  /\ hand.pc \in {"register", "execute"} /\ crashes < MaxCrashes
  /\ crashes' = crashes + 1
  /\ orphans' = orphans \cup {[kind |-> hand.pc, order |-> hand.order, fillAmount |-> hand.fillAmount]}
  /\ hand' = NoCommand
  /\ UNCHANGED <<vars, mapVars, cb, strategy, up, seen, heard, shown, commands, handShare>>

HandNext ==
  \/ \E o \in Orders : BackendShows(o) \/ \E fillBps \in Shares : StartCommand(o, fillBps)
  \/ CheckRegistration \/ RegisterByHand \/ ExecuteByHand
  \/ CommandFails \/ CommandDies

HandSpec ==
  /\ Init /\ BotInit /\ HandInit
  /\ [][(BotNext /\ UNCHANGED handVars) \/ HandNext]_handSystemVars

-----------------------------------------------------------------------------
(* What sim shows, of an order as the backend lists it.                    *)
sim(o, left, first, fillBps) ==
  LET n     == fillAmount(o, left, fillBps)
      price == DecayedPrice(StartPrice[o], DecayPerBlock[o], first, block)
      out   == mulDiv(n, price, PriceUnit)
  IN  [receive  |-> n, provide |-> out,
       fillable |-> left > 0 /\ price > 0 /\ out >= mulDiv(MinOutput[o], n, InputAmount[o])]

(* What the prompt promises of an order it knows up to date.               *)
SimIsExact(o, fillBps) ==
  LET left  == remainingInput(o)
      first == IF isNewOrder(raw[o]) THEN block ELSE openedAt[o]
      s     == sim(o, left, first, fillBps)
  IN  left > 0 /\ ~fallbackInitiated[o] =>
        /\ Fillable(o, s.receive) /\ s.receive <= left
        /\ s.provide = OutputAmount(o, s.receive)
        /\ s.fillable =>
             OutputAmount(o, s.receive) >= mulDiv(MinOutput[o], s.receive, InputAmount[o])

(* A command does what it says beside everything else that happens to the  *)
(* order, the bot's own doing included.  What it stakes on, the reactor    *)
(* lets it fill; the output it provided for covers a fill the reactor      *)
(* accepts; a command that failed half way can be given again, for the same*)
(* share or a smaller one, and goes on with the stake it has; and what sim *)
(* shows is what the chain would move.                                     *)
CommandDelivers ==
  /\ \A o \in Orders :
       handShare[o] > 0 /\ Active(reg[o][Bot]) => Fillable(o, reg[o][Bot].fillAmount)
  /\ hand.pc = "execute" /\ FillChecks(hand.order, Bot, hand.fillAmount) =>
       OutputAmount(hand.order, hand.fillAmount)
         <= mulDiv(hand.fillAmount, hand.currentPrice, PriceUnit)
  /\ LET o == hand.order
     IN  hand.pc = "register" /\ handShare[o] >= hand.fillBps =>
           ~(Active(reg[o][Bot]) /\ block <= Deadline[o])
  /\ \A o \in Orders, fillBps \in Shares : SimIsExact(o, fillBps)

(* What a command adds to the inductive invariant of the bot.  The backend *)
(* never shows less of an order than is left.  The amount and the price of *)
(* a command were enough for what was shown when it was given, and so they *)
(* are for what is left now.  A stake made by hand is at least its share of*)
(* what is shown, and covers any smaller share asked for since; where it   *)
(* does not count any more it will never count again.                      *)
HandTypes ==
  /\ hand \in Command /\ handShare \in [Orders -> Nat]
  /\ shown \in [Orders -> Nat]
  /\ \A o \in Orders : remainingInput(o) <= shown[o]

HandStakes ==
  \A o \in Orders : handShare[o] > 0 =>
    /\ reg[o][Bot].registered
    /\ Active(reg[o][Bot]) => reg[o][Bot].fillAmount >= fillAmount(o, shown[o], handShare[o])

HandKnows ==
  \A o \in Orders : hand.pc # "idle" /\ hand.order = o =>
    /\ hand.fillBps > 0
    /\ hand.fillAmount >= fillAmount(o, shown[o], hand.fillBps)
    /\ ~fallbackInitiated[o] => PriceNow(o) <= hand.currentPrice
    /\ handShare[o] >= hand.fillBps =>
         /\ hand.pc = "check" /\ Active(reg[o][Bot]) =>
              reg[o][Bot].fillAmount >= hand.fillAmount
         /\ hand.pc = "register" => ~(Active(reg[o][Bot]) /\ block <= Deadline[o])

HandInv == BotInv /\ HandTypes /\ HandStakes /\ HandKnows
=============================================================================
