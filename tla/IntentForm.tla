------------------------------ MODULE IntentForm ------------------------------
(***************************************************************************)
(* The cross-chain swap page (frontend/src/pages/CrossChain.tsx): a        *)
(* direction and amounts are chosen, the intent is put on the backend's    *)
(* board (createIntent), signed in the wallet, and the signature added     *)
(* (setOrderSwapperSig).  The wallet (hooks/useWallet.ts) has an account   *)
(* and a network of its own, which the page knows as of its last look.     *)
(*                                                                         *)
(* An intent is known by the hash of what the swapper signs: the chains it *)
(* goes between are not in it.  Balances and the info panel are left out,  *)
(* on which no guard depends.  The deadline, in seconds from the click, the*)
(* nonce and the fee tier are one stamp.  An amount of 0 is an empty field,*)
(* a chain of 0 one not known yet; of two alike in a set of things under   *)
(* way only one is kept.                                                   *)
(***************************************************************************)
EXTENDS Integers

CONSTANTS
  chainIds,       \* the registry
  ChainA,         \* the configured chain, where the page starts
  Directory,      \* the tokens of each chain, with their addresses
  Accounts,
  Typable,        \* amounts that may be typed
  Stamps,         \* deadlines, nonces and fee tiers an intent may carry
  MaxActs,        \* bound: what the user does on the page
  MaxWalletActs   \* bound: and in the wallet

NoAccount == "none"
NoSig     == [by |-> NoAccount, chainId |-> 0]

(* The page and the wallet know two chains (factoryByChain, CHAIN_RPCS).   *)
ASSUME IntentAssumption ==
  /\ chainIds \subseteq Nat \ {0} /\ ChainA \in chainIds
  /\ \E chainB \in chainIds \ {ChainA} : chainIds = {ChainA, chainB}
  /\ \A c \in chainIds : DOMAIN Directory[c] # {}
  /\ NoAccount \notin Accounts /\ Typable \subseteq Nat
  /\ MaxActs \in Nat /\ MaxWalletActs \in Nat

VARIABLES
  metamask,  \* the wallet's account and network
  wallet,    \* what the page has of it
  builds,    \* by the network they have read, the buildStates under way
  srcChain, dstChain, inToken, outToken, inAmount, outAmount,
  switching, \* the page waits for a switch of the network
  asked,     \* the chains the wallet is asked to switch to
  approval,  \* the page's step
  allowed,   \* of each chain's tokens: 0 nothing, 1 Permit2, 2 and the factory
  reads,     \* the tokens whose approvals are being read
  approvals, \* the approval transactions under way
  swaps,     \* the doSwaps under way
  intents,   \* cc_orders
  done,      \* what the page last said is signed
  acts, walletActs

walletVars == <<metamask, wallet, builds>>
chosenVars == <<srcChain, dstChain, inToken, outToken, inAmount, outAmount>>
switchVars == <<switching, asked>>
allowVars  == <<approval, allowed, reads, approvals>>
swapVars   == <<swaps, intents, done>>
boundVars  == <<acts, walletActs>>
intentVars == <<walletVars, chosenVars, switchVars, allowVars, swapVars, boundVars>>

NoWallet == [account |-> NoAccount, chainId |-> 0]

Listed == UNION {{c} \X DOMAIN Directory[c] : c \in chainIds}

First(c) == CHOOSE k \in DOMAIN Directory[c] : TRUE
Other(c) == CHOOSE o \in chainIds : o # c

(* A token that the chain does not have is replaced by one it has.         *)
Valid(c, k) == IF c = 0 \/ k \in DOMAIN Directory[c] THEN k ELSE First(c)

wrongNetwork(src, w) == w.account # NoAccount /\ src # 0 /\ w.chainId # src

(* On a page load the wallet is looked at first.                           *)
IntentInit ==
  /\ \E a \in Accounts, c \in chainIds : metamask = [account |-> a, network |-> c] /\ builds = {c}
  /\ wallet = NoWallet
  /\ srcChain = 0 /\ dstChain = 0 /\ inToken = "" /\ outToken = ""
  /\ inAmount = 0 /\ outAmount = 0
  /\ switching = FALSE /\ asked = {}
  /\ approval = "idle" /\ reads = {} /\ approvals = {}
  /\ \E n \in {0, 2} : allowed = [t \in Listed |-> n]
  /\ swaps = {} /\ intents = {} /\ done = {}
  /\ acts = 0 /\ walletActs = 0

-----------------------------------------------------------------------------
(* The effects, after a step that leaves the page with this source chain,  *)
(* token and wallet.  The wallet is asked to switch once the network turns *)
(* out wrong; the approvals are read when what they depend on has changed. *)
SwitchEffect(src, w) ==
  IF wrongNetwork(src, w) /\ (src # srcChain \/ ~wrongNetwork(srcChain, wallet))
    THEN switching' = TRUE /\ asked' = asked \cup {src}
    ELSE UNCHANGED switchVars

checkApproval(src, k) == approval' = "checking" /\ reads' = reads \cup {<<src, k>>}

ApprovalEffect(src, k, w, shows) ==
  IF w.account # NoAccount /\ src # 0 /\ ~wrongNetwork(src, w)
    THEN checkApproval(src, k)
    ELSE approval' = (IF wrongNetwork(src, w) THEN "idle" ELSE shows) /\ UNCHANGED reads

Effects(src, k, w, shows) ==
  /\ SwitchEffect(src, w)
  /\ ApprovalEffect(src, k, w, shows)
  /\ UNCHANGED <<allowed, approvals>>

-----------------------------------------------------------------------------
(* The wallet.                                                             *)
InWallet == walletActs < MaxWalletActs /\ walletActs' = walletActs + 1

setWallet(w) == wallet' = w /\ Effects(srcChain, inToken, w, approval)

(* A change is announced to the page, whose buildState reads the network   *)
(* and, later, the account.                                                *)
ChangeNetwork(c) ==
  /\ InWallet /\ c # metamask.network
  /\ metamask' = [metamask EXCEPT !.network = c] /\ builds' = builds \cup {c}
  /\ UNCHANGED <<wallet, chosenVars, switchVars, allowVars, swapVars, acts>>

ChangeAccount(a) ==
  /\ InWallet /\ a # metamask.account
  /\ metamask' = [metamask EXCEPT !.account = a]
  /\ IF a = NoAccount THEN setWallet(NoWallet) /\ UNCHANGED builds
     ELSE builds' = builds \cup {metamask.network} /\ UNCHANGED <<wallet, switchVars, allowVars>>
  /\ UNCHANGED <<chosenVars, swapVars, acts>>

BuildEnds(c) ==
  /\ c \in builds /\ builds' = builds \ {c}
  /\ IF metamask.account = NoAccount THEN UNCHANGED <<wallet, switchVars, allowVars>>
     ELSE setWallet([account |-> metamask.account, chainId |-> c])
  /\ UNCHANGED <<metamask, chosenVars, swapVars, boundVars>>

(* switchNetwork: the wallet switches, and the page looks at it, as it does*)
(* once more when the change is announced ...                              *)
SwitchGranted(c) ==
  LET w == [account |-> metamask.account, chainId |-> c]
  IN  /\ c \in asked /\ w.account # NoAccount
      /\ metamask' = [metamask EXCEPT !.network = c]
      /\ builds' = IF c = metamask.network THEN builds ELSE builds \cup {c}
      /\ wallet' = w
      /\ asked' = (asked \ {c}) \cup
           IF wrongNetwork(srcChain, w) /\ ~wrongNetwork(srcChain, wallet) THEN {srcChain} ELSE {}
      /\ switching' = (wrongNetwork(srcChain, w) /\ ~wrongNetwork(srcChain, wallet))
      /\ ApprovalEffect(srcChain, inToken, w, approval)
      /\ UNCHANGED <<chosenVars, allowed, approvals, swapVars, boundVars>>

(* ... or it is refused, which the page shows and does not ask for again.  *)
SwitchRefused(c) ==
  /\ c \in asked /\ asked' = asked \ {c} /\ switching' = FALSE
  /\ UNCHANGED <<walletVars, chosenVars, allowVars, swapVars, boundVars>>

-----------------------------------------------------------------------------
(* The page.  The directory of tokens arrives once.                        *)
LoadTokens ==
  /\ srcChain = 0
  /\ srcChain' = ChainA /\ dstChain' = Other(ChainA)
  /\ inToken' = First(ChainA) /\ outToken' = First(Other(ChainA))
  /\ Effects(ChainA, First(ChainA), wallet, approval)
  /\ UNCHANGED <<walletVars, inAmount, outAmount, swapVars, boundVars>>

Acts == srcChain # 0 /\ acts < MaxActs /\ acts' = acts + 1

(* Source and destination stay apart.                                      *)
Choose(src, dst, shows) ==
  /\ srcChain' = src /\ dstChain' = dst
  /\ inToken' = Valid(src, inToken) /\ outToken' = Valid(dst, outToken)
  /\ IF src = srcChain THEN approval' = shows /\ UNCHANGED <<switchVars, allowed, reads, approvals>>
     ELSE Effects(src, Valid(src, inToken), wallet, shows)
  /\ UNCHANGED <<walletVars, inAmount, outAmount, swapVars, walletActs>>

chooseSrc(c) ==
  Acts /\ Choose(c, IF c = dstChain THEN Other(c) ELSE dstChain, "idle")

chooseDst(c) ==
  Acts /\ Choose(IF c = srcChain THEN Other(c) ELSE srcChain, c, approval)

ChooseInToken(k) ==
  /\ Acts /\ <<srcChain, k>> \in Listed /\ k # inToken
  /\ inToken' = k /\ Effects(srcChain, k, wallet, "idle")
  /\ UNCHANGED <<walletVars, srcChain, dstChain, outToken, inAmount, outAmount,
                 swapVars, walletActs>>

ChooseOutToken(k) ==
  /\ Acts /\ <<dstChain, k>> \in Listed /\ k # outToken /\ outToken' = k
  /\ UNCHANGED <<walletVars, srcChain, dstChain, inToken, inAmount, outAmount,
                 switchVars, allowVars, swapVars, walletActs>>

(* Both amounts are typed.                                                 *)
Type(in, out) ==
  /\ srcChain # 0 /\ <<in, out>> # <<inAmount, outAmount>>
  /\ inAmount' = in /\ outAmount' = out
  /\ UNCHANGED <<walletVars, srcChain, dstChain, inToken, outToken,
                 switchVars, allowVars, swapVars, boundVars>>

(* The button is there for the one thing to do next.                       *)
Button ==
  wallet.account # NoAccount /\ ~wrongNetwork(srcChain, wallet) /\ ~switching

-----------------------------------------------------------------------------
(* Approvals.                                                              *)
Shows(t) == CASE allowed[t] = 0 -> "erc20" [] allowed[t] = 1 -> "p2" [] OTHER -> "ready"

(* A read asks the network the wallet is on by now; it may fail.           *)
ReadAnswers(t) ==
  /\ t \in reads /\ reads' = reads \ {t}
  /\ approval' \in {"idle"} \cup IF metamask.network = t[1] THEN {Shows(t)} ELSE {}
  /\ UNCHANGED <<walletVars, chosenVars, switchVars, allowed, approvals, swapVars, boundVars>>

(* doApproveERC20 and doApproveP2 ...                                      *)
Approve ==
  /\ Acts /\ Button /\ approval \in {"erc20", "p2"}
  /\ approvals' = approvals \cup {[kind |-> approval, token |-> <<srcChain, inToken>>]}
  /\ approval' = "busy"
  /\ UNCHANGED <<walletVars, chosenVars, switchVars, allowed, reads, swapVars, walletActs>>

(* ... and what becomes of the transaction.                                *)
ApproveEnds(a) ==
  /\ a \in approvals /\ approvals' = approvals \ {a}
  /\ \/ /\ metamask.network = a.token[1]
        /\ allowed' = [allowed EXCEPT ![a.token] =
                         IF a.kind = "p2" THEN 2 ELSE IF @ = 0 THEN 1 ELSE @]
        /\ checkApproval(a.token[1], a.token[2])
     \/ approval' = a.kind /\ UNCHANGED <<allowed, reads>>
  /\ UNCHANGED <<walletVars, chosenVars, switchVars, swapVars, boundVars>>

-----------------------------------------------------------------------------
(* The intent.  What is signed, and the two chains beside it.              *)
hashOrder(s) ==
  <<s.swapper, s.inputToken, s.inputAmount, s.outputToken, s.minOutput, s.stamp>>

(* doSwap goes on with the form as it was when the button was pressed.     *)
doSwap(stamp) ==
  /\ Acts /\ Button /\ approval \in {"idle", "ready"} /\ inAmount > 0 /\ outAmount > 0
  /\ swaps' = swaps \cup
       {[pc |-> "create", swapper |-> wallet.account,
         inputToken |-> Directory[srcChain][inToken], inputAmount |-> inAmount,
         outputToken |-> Directory[dstChain][outToken], minOutput |-> outAmount,
         stamp |-> stamp, chainAId |-> srcChain, dstChainId |-> dstChain, swapperSig |-> NoSig]}
  /\ approval' = "busy"
  /\ UNCHANGED <<walletVars, chosenVars, switchVars, allowed, reads, approvals, intents, done,
                 walletActs>>

GoOn(s, into) == swaps' = (swaps \ {s}) \cup {into}

Row(s) ==
  [order |-> hashOrder(s), swapper |-> s.swapper, chainAId |-> s.chainAId,
   dstChainId |-> s.dstChainId, swapperSig |-> NoSig]

(* Fault: an intent posted again takes the place of the one that is there. *)
createIntent_Replacing(s) ==
  /\ s.chainAId # s.dstChainId /\ {s.chainAId, s.dstChainId} \subseteq chainIds
  /\ intents' = {r \in intents : r.order # hashOrder(s)} \cup {Row(s)}

(* INSERT ... ON CONFLICT (order_hash) DO NOTHING.                         *)
createIntent(s) ==
  /\ s.chainAId # s.dstChainId /\ {s.chainAId, s.dstChainId} \subseteq chainIds
  /\ intents' = IF \E r \in intents : r.order = hashOrder(s) THEN intents ELSE intents \cup {Row(s)}

(* The answer, with the order's hash, may be lost.                         *)
Create(s) ==
  /\ s \in swaps /\ s.pc = "create" /\ createIntent(s)
  /\ GoOn(s, [s EXCEPT !.pc = "sign"])
  /\ UNCHANGED <<walletVars, chosenVars, switchVars, allowVars, done, boundVars>>

(* The wallet signs for the network it is on, with the account it is on.   *)
Sign(s) ==
  /\ s \in swaps /\ s.pc = "sign"
  /\ metamask.network = s.chainAId /\ metamask.account # NoAccount
  /\ GoOn(s, [s EXCEPT !.pc = "save",
                       !.swapperSig = [by |-> metamask.account, chainId |-> s.chainAId]])
  /\ UNCHANGED <<walletVars, chosenVars, switchVars, allowVars, intents, done, boundVars>>

(* Fault: whatever is sent is taken for the swapper's signature.           *)
setOrderSwapperSig_Unverified(s, r) == r.order = hashOrder(s)

(* It must be the swapper's, of this order on the row's chain.             *)
setOrderSwapperSig(s, r) ==
  r.order = hashOrder(s) /\ s.swapperSig = [by |-> r.swapper, chainId |-> r.chainAId]

(* Signed: the page says so and empties the amounts, if it hears of it.    *)
Save(s) ==
  /\ s \in swaps /\ s.pc = "save" /\ swaps' = swaps \ {s}
  /\ \E r \in intents :
       /\ setOrderSwapperSig(s, r)
       /\ intents' = (intents \ {r}) \cup {[r EXCEPT !.swapperSig = s.swapperSig]}
  /\ \/ done' = {s} /\ inAmount' = 0 /\ outAmount' = 0
     \/ UNCHANGED <<done, inAmount, outAmount>>
  /\ approval' = "ready"
  /\ UNCHANGED <<walletVars, srcChain, dstChain, inToken, outToken, switchVars,
                 allowed, reads, approvals, boundVars>>

(* A call or a signature is refused, or its answer is lost.                *)
SwapFails(s) ==
  /\ s \in swaps /\ swaps' = swaps \ {s}
  /\ approval' = "ready"
  /\ UNCHANGED <<walletVars, chosenVars, switchVars, allowed, reads, approvals, intents, done,
                 boundVars>>

IntentNext ==
  \/ \E c \in chainIds : ChangeNetwork(c) \/ BuildEnds(c)
  \/ \E a \in Accounts \cup {NoAccount} : ChangeAccount(a)
  \/ LoadTokens
  \/ \E c \in asked : SwitchGranted(c) \/ SwitchRefused(c)
  \/ \E c \in chainIds : chooseSrc(c) \/ chooseDst(c)
  \/ \E t \in Listed : ChooseInToken(t[2]) \/ ChooseOutToken(t[2]) \/ ReadAnswers(t)
  \/ \E in, out \in Typable : Type(in, out)
  \/ Approve \/ \E a \in approvals : ApproveEnds(a)
  \/ \E stamp \in Stamps : doSwap(stamp)
  \/ \E s \in swaps : Create(s) \/ Sign(s) \/ Save(s) \/ SwapFails(s)

IntentSpec == IntentInit /\ [][IntentNext]_intentVars

-----------------------------------------------------------------------------
(* What the board offers as signed was signed by its swapper for the       *)
(* factory of its source chain, and what the page says is signed is on the *)
(* board in the direction it was asked for: though an intent is known by a *)
(* hash without its chains, account and network change under the page, and *)
(* a second swap starts while the first is under way.                      *)
SignedAsAsked ==
  /\ \A r \in intents :
       r.swapperSig \in {NoSig, [by |-> r.swapper, chainId |-> r.chainAId]}
  /\ \A s \in done : \E r \in intents :
       /\ r.order = hashOrder(s) /\ r.swapperSig # NoSig
       /\ r.chainAId = s.chainAId /\ r.dstChainId = s.dstChainId

(* Why: a row goes between the two chains there are, and a swap that has   *)
(* been signed carries a signature for the source chain it was asked with, *)
(* which only a row of that chain takes.                                   *)
TwoChains(r) == {r.chainAId, r.dstChainId} \subseteq chainIds /\ r.chainAId # r.dstChainId

IntentInv ==
  /\ SignedAsAsked
  /\ \A r \in intents :
       /\ {"order", "swapper", "chainAId", "dstChainId", "swapperSig"} \subseteq DOMAIN r
       /\ TwoChains(r)
  /\ \A s \in swaps :
       /\ {"pc", "swapperSig", "chainAId", "dstChainId"} \subseteq DOMAIN s
       /\ s.pc # "create" => TwoChains(s)
       /\ s.pc = "save" => s.swapperSig.chainId = s.chainAId
=============================================================================
