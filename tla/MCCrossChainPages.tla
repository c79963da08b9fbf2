-------------------------- MODULE MCCrossChainPages --------------------------
(* What is around the backend's board of cross-chain orders, for TLC.  The  *)
(* parts share no state: a behaviour is an order put on the board in the    *)
(* swap page, the signing of its fills in the list of orders, the fillers   *)
(* an admin registers, or the rows of the board as the watchers and the     *)
(* relay move them.                                                         *)
EXTENDS MCCrossChainRelay, IntentForm, FillSigning, FillerAdmin

(* Chain 2 has no USDC, and its WETH has the same address.                   *)
Tokens == 1 :> ("WETH" :> "0xa" @@ "USDC" :> "0xb") @@ 2 :> ("WETH" :> "0xa")

(* The second fill has to be redeemed earlier than the first.               *)
TwoProposals == <<{5}, {3}>>

TwoFillers == "Whale" :> {"0xc"} @@ "CoW" :> {"0xd"}

(* The table before the first start, and one in which all are known.       *)
Tables == {Seeded(Nobody), Seeded(Known(Names))}

VARIABLE scene

pagesVars == <<vars, intentVars, signingVars, fillersVars, scene>>

PagesInit ==
  /\ scene \in {"swap", "list", "admin", "board"}
  /\ Init /\ IntentInit /\ SigningInit /\ FillersInit
  /\ scene # "swap" =>
       /\ metamask = [account |-> "a", network |-> ChainA]
       /\ \A t \in Listed : allowed[t] = 0
  /\ cc_fillers \in Tables /\ (scene # "admin" => cc_fillers = Seeded(Nobody))

PagesNext ==
  \/ scene = "board" /\ Next /\ UNCHANGED <<intentVars, signingVars, fillersVars, scene>>
  \/ scene = "swap" /\ IntentNext /\ UNCHANGED <<vars, signingVars, fillersVars, scene>>
  \/ scene = "list" /\ SigningNext /\ UNCHANGED <<vars, intentVars, fillersVars, scene>>
  \/ scene = "admin" /\ FillersNext /\ UNCHANGED <<vars, intentVars, signingVars, scene>>

PagesSpec == PagesInit /\ [][PagesNext]_pagesVars

-----------------------------------------------------------------------------
(* What was meant for one thing is never used for another: an order stands  *)
(* as its account asked for it, between those chains (SignedAsAsked), a     *)
(* fill is signed by its own T1 (NeverExtended), and a filler is known by   *)
(* its own address (AddressIsItsOwn).                                       *)
NothingCarriedOver == SignedAsAsked /\ NeverExtended /\ AddressIsItsOwn
=============================================================================
