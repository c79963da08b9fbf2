------------------------------- MODULE FillerBot -------------------------------
(***************************************************************************)
(* One filler bot at work on the single-chain contracts:                   *)
(* filler/WhaleFiller/src (execution/executor.ts, listener, index.ts) and  *)
(* its twin filler/CoWFiller/src, which differs in its strategy and in that*)
(* it does not top up its balance before a fill.                           *)
(*                                                                         *)
(* Every new block starts a callback that walks the watched orders, with   *)
(* an await at every HTTP request, chain read and transaction.  Nothing    *)
(* makes a callback wait for the one before it: callbacks of several       *)
(* blocks overlap and share the two maps.  One action is what runs between *)
(* two awaits.  Everybody else on the chain, rival fillers and the swapper *)
(* included, is Settlement.                                                *)
(***************************************************************************)
EXTENDS SettlementInvariant, FillStrategy

CONSTANTS
  Bot,                      \* the bot's wallet
  Strategies,               \* which of "whale", "cow" may run
  REGISTER_AT_BLOCKS_LEFT,  \* when to register, in blocks before the deadline
  MinBlocksLeft,            \* closer to the deadline, decide refuses
  Balances,                 \* what the wallet may hold of the output token
  Books,                    \* the order books the exchange may show
  Callbacks,                \* bound: how many callbacks may overlap
  MaxCrashes                \* bound

ASSUME BotAssumption ==
  /\ Orders # {} /\ Bot \in Fillers
  /\ Strategies \subseteq {"whale", "cow"}
  /\ REGISTER_AT_BLOCKS_LEFT \in Nat /\ MinBlocksLeft \in Nat \ {0}
  /\ Balances \subseteq Nat
  /\ Books \subseteq Seq([price : Nat, size : Nat])
  /\ MaxCrashes \in Nat

VARIABLES
  strategy,    \* the strategy this bot was built with
  up,          \* the process is alive
  seen,        \* OrderListener.seen
  watching,    \* Executor.watching
  registered,  \* Executor.registered: the amount, or 0 for no entry
  heard,       \* the next block to be announced to the process
  cb,          \* the callbacks under way
  orphans,     \* transactions sent by a process that is gone
  crashes      \* bound

mapVars == <<watching, registered>>
hostVars == <<strategy, up, seen, heard, orphans, crashes>>
botVars == <<mapVars, cb, hostVars>>
botSystemVars == <<vars, botVars>>

(* A callback: its block, the entries it has been to, and the locals of    *)
(* tryFill for the order it is at.                                         *)
Callback ==
  [pc : {"idle", "loop", "fetch", "remaining", "cancelled", "decide_register",
         "decide_execute", "register", "execute", "release"},
   now : Nat, visited : SUBSET Orders, order : Orders,
   onChainRemaining : Nat, fillAmount : Nat, currentPrice : Nat]

IdleCallback ==
  [pc |-> "idle", now |-> 0, visited |-> {}, order |-> CHOOSE o \in Orders : TRUE,
   onChainRemaining |-> 0, fillAmount |-> 0, currentPrice |-> 0]

BotInit ==
  /\ strategy \in Strategies
  /\ up = TRUE
  /\ seen = {}
  /\ watching = {}
  /\ registered = [o \in Orders |-> 0]
  /\ heard = block
  /\ cb = [c \in Callbacks |-> IdleCallback]
  /\ orphans = {}
  /\ crashes = 0

-----------------------------------------------------------------------------
At(c, pc) == up /\ cb[c].pc = pc

Goto(c, pc) == cb' = [cb EXCEPT ![c].pc = pc]

(* tryFill is over, normally or by an exception: on to the next entry of   *)
(* the map, w, if there is one.                                            *)
BackToLoop(calls, c, w) ==
  [calls EXCEPT ![c] =
     IF w \subseteq calls[c].visited THEN IdleCallback
     ELSE [IdleCallback EXCEPT !.pc = "loop", !.now = calls[c].now,
                               !.visited = calls[c].visited]]

(* An entry that is deleted and set again later is new to every iteration. *)
Forgotten(calls, o) ==
  [k \in Callbacks |-> [calls[k] EXCEPT !.visited = @ \ {o}]]

(* watching.delete, registered.delete, and tryFill returns.                *)
Drop(c) ==
  LET o == cb[c].order
  IN  /\ watching' = watching \ {o}
      /\ registered' = [registered EXCEPT ![o] = 0]
      /\ cb' = Forgotten(BackToLoop(cb, c, watching \ {o}), o)

(* The listener finds an order the board lists as open and has it watched. *)
(* The board lists every order at some time, and may list one late.        *)
Poll(o) ==
  /\ up
  /\ o \notin seen
  /\ seen' = seen \cup {o}
  /\ watching' = watching \cup {o}
  /\ UNCHANGED <<vars, registered, cb, strategy, up, heard, orphans, crashes>>

(* The provider announces the next block.  With nothing to watch the       *)
(* callback is over at once.                                               *)
OnBlock(c) ==
  /\ At(c, "idle")
  /\ heard <= block
  /\ heard' = heard + 1
  /\ cb' = IF watching = {} THEN cb
           ELSE [cb EXCEPT ![c].pc = "loop", ![c].now = heard]
  /\ UNCHANGED <<vars, mapVars, strategy, up, seen, orphans, crashes>>

(* The next entry of the map: dropped after the deadline, skipped when it  *)
(* is too early, tried otherwise.                                          *)
Visit(c, o) ==
  LET tooEarly == Deadline[o] - cb[c].now > REGISTER_AT_BLOCKS_LEFT * 3
      been     == [cb EXCEPT ![c].visited = @ \cup {o}]
  IN  /\ At(c, "loop")
      /\ o \in watching \ cb[c].visited
      /\ \/ /\ cb[c].now > Deadline[o]
            /\ watching' = watching \ {o}
            /\ registered' = [registered EXCEPT ![o] = 0]
            /\ cb' = Forgotten(BackToLoop(cb, c, watching \ {o}), o)
         \/ /\ cb[c].now <= Deadline[o]
            /\ cb' = IF tooEarly THEN BackToLoop(been, c, watching)
                     ELSE [been EXCEPT ![c].pc = "fetch", ![c].order = o]
            /\ UNCHANGED mapVars
      /\ UNCHANGED <<vars, hostVars>>

(* The entries left to visit were deleted by another callback.             *)
EndOfLoop(c) ==
  /\ At(c, "loop")
  /\ watching \subseteq cb[c].visited
  /\ cb' = [cb EXCEPT ![c] = IdleCallback]
  /\ UNCHANGED <<vars, mapVars, hostVars>>

-----------------------------------------------------------------------------
(* The order is fetched again and set in the map, also when it was deleted *)
(* meanwhile; when the backend cannot be reached the cached one is used.   *)
Fetch(c) ==
  /\ At(c, "fetch")
  /\ \E reached \in BOOLEAN :
       watching' = IF reached THEN watching \cup {cb[c].order} ELSE watching
  /\ Goto(c, "remaining")
  /\ UNCHANGED <<vars, registered, hostVars>>

(* reclaimStake, for an order that is sold out or cancelled: without an    *)
(* entry there is nothing to release.                                      *)
Reclaim(c) ==
  IF registered[cb[c].order] = 0
    THEN Drop(c)
    ELSE Goto(c, "release") /\ UNCHANGED mapVars

(* The phase tryFill comes to once it knows what is left.  The entry of    *)
(* the map is read here, before decide is awaited.                         *)
EnterPhase(c, left) ==
  LET o     == cb[c].order
      close == Deadline[o] - cb[c].now <= REGISTER_AT_BLOCKS_LEFT
  IN  /\ \/ /\ registered[o] # 0
            /\ cb' = [cb EXCEPT ![c].pc = "decide_execute", ![c].onChainRemaining = 0,
                                ![c].fillAmount = Least(registered[o], left)]
         \/ /\ registered[o] = 0 /\ close
            /\ cb' = [cb EXCEPT ![c].pc = "decide_register", ![c].onChainRemaining = left]
         \/ /\ registered[o] = 0 /\ ~close
            /\ cb' = BackToLoop(cb, c, watching)
      /\ UNCHANGED mapVars

(* reactor.remainingInput answers.  Whether the order was cancelled is     *)
(* asked only by a bot that has registered.                                *)
ReadRemaining(c) ==
  /\ At(c, "remaining")
  /\ LET o    == cb[c].order
         left == remainingInput(o)
     IN  \/ left = 0 /\ Reclaim(c)
         \/ /\ left > 0 /\ registered[o] # 0
            /\ cb' = [cb EXCEPT ![c].pc = "cancelled", ![c].onChainRemaining = left]
            /\ UNCHANGED mapVars
         \/ left > 0 /\ registered[o] = 0 /\ EnterPhase(c, left)
  /\ UNCHANGED <<vars, hostVars>>

ReadCancelled(c) ==
  /\ At(c, "cancelled")
  /\ IF cancelled[cb[c].order] THEN Reclaim(c) ELSE EnterPhase(c, cb[c].onChainRemaining)
  /\ UNCHANGED <<vars, hostVars>>

(* The first fill block the fetched order shows, or the callback's own     *)
(* block when it shows none: the board lists a fill when its indexer got   *)
(* to it, and a cached order may be older than that.                       *)
ShownFirstFill(c, o) ==
  {cb[c].now} \cup IF isNewOrder(raw[o]) THEN {} ELSE openedAt[o]..cursor[o].resetAt

decide(c, price, wallet, bids) ==
  LET o == cb[c].order
  IN  IF Deadline[o] - cb[c].now < MinBlocksLeft THEN 0
      ELSE IF strategy = "whale"
        THEN whaleDecide(StartPrice[o], price, InputAmount[o], MinFill[o], wallet)
        ELSE cowDecide(price, InputAmount[o], wallet, bids)

(* decide for the REGISTER PHASE, the stake preview, and the entry in the  *)
(* map that is made before the transaction is sent.                        *)
DecideRegister(c) ==
  /\ At(c, "decide_register")
  /\ LET o == cb[c].order
     IN  \E first \in ShownFirstFill(c, o), wallet \in Balances, bids \in Books :
           LET price == DecayedPrice(StartPrice[o], DecayPerBlock[o], first, cb[c].now)
               fill  == decide(c, price, wallet, bids)
               n     == Least(fill, cb[c].onChainRemaining)
           IN  IF fill = 0
                 THEN cb' = BackToLoop(cb, c, watching) /\ UNCHANGED registered
                 ELSE /\ registered' = [registered EXCEPT ![o] = n]
                      /\ cb' = [cb EXCEPT ![c].pc = "register", ![c].fillAmount = n,
                                          ![c].onChainRemaining = 0]
  /\ UNCHANGED <<vars, watching, hostVars>>

(* decide for the EXECUTE PHASE: a go or a no-go and the price to provision *)
(* for; the amount stays the registered one.                               *)
DecideExecute(c) ==
  /\ At(c, "decide_execute")
  /\ LET o == cb[c].order
     IN  \E first \in ShownFirstFill(c, o), wallet \in Balances, bids \in Books :
           LET price == DecayedPrice(StartPrice[o], DecayPerBlock[o], first, cb[c].now)
           IN  cb' = IF decide(c, price, wallet, bids) = 0 THEN BackToLoop(cb, c, watching)
                     ELSE [cb EXCEPT ![c].pc = "execute", ![c].currentPrice = price]
  /\ UNCHANGED <<vars, mapVars, hostVars>>

-----------------------------------------------------------------------------
(* The transactions, mined.                                                *)
SubmitRegister(o, n)  == Register(o, Bot, n) /\ UNCHANGED fallbackVars
SubmitExecute(o, n)   == executePartialChunk(o, Bot, n) /\ UNCHANGED fallbackVars
SubmitRelease(o)      == releaseRegistration(o, Bot) /\ UNCHANGED fallbackVars

(* tx.wait resolves in the step that mines the transaction.                *)
Registered(c) ==
  /\ At(c, "register")
  /\ SubmitRegister(cb[c].order, cb[c].fillAmount)
  /\ cb' = BackToLoop(cb, c, watching)
  /\ UNCHANGED <<mapVars, hostVars>>

Executed(c) ==
  /\ At(c, "execute")
  /\ SubmitExecute(cb[c].order, cb[c].fillAmount)
  /\ Drop(c)
  /\ UNCHANGED hostVars

Released(c) ==
  /\ At(c, "release")
  /\ SubmitRelease(cb[c].order)
  /\ Drop(c)
  /\ UNCHANGED hostVars

(* register reverts because the bot is registered: the entry is kept, with *)
(* the amount this callback decided on.                                    *)
RegisteredBefore(c) ==
  /\ At(c, "register")
  /\ LET o == cb[c].order
     IN  reg[o][Bot].registered /\ ~cancelled[o] /\ ValidOrder(o)
  /\ cb' = BackToLoop(cb, c, watching)
  /\ UNCHANGED <<vars, mapVars, hostVars>>

(* register fails for any other reason: an underpaid stake, an order that  *)
(* is gone, an unreachable node.                                           *)
RegisterFails(c) ==
  /\ At(c, "register")
  /\ registered' = [registered EXCEPT ![cb[c].order] = 0]
  /\ cb' = BackToLoop(cb, c, watching)
  /\ UNCHANGED <<vars, watching, hostVars>>

(* Fault: the entries go before the transaction is known to have worked.   *)
TryFillFails_Drops(c) ==
  /\ up
  /\ cb[c].pc \in {"remaining", "cancelled", "decide_register", "decide_execute", "execute"}
  /\ Drop(c)
  /\ UNCHANGED <<vars, hostVars>>

(* A read or the execution fails: tryFill throws, and the order is tried   *)
(* again at the next block.                                                *)
TryFillFails(c) ==
  /\ up
  /\ cb[c].pc \in {"remaining", "cancelled", "decide_register", "decide_execute", "execute"}
  /\ cb' = BackToLoop(cb, c, watching)
  /\ UNCHANGED <<vars, mapVars, hostVars>>

(* The release reverts, or never gets out: the order is dropped all the    *)
(* same.                                                                   *)
ReleaseFails(c) ==
  /\ At(c, "release")
  /\ Drop(c)
  /\ UNCHANGED <<vars, hostVars>>

-----------------------------------------------------------------------------
(* The process dies: its memory is gone, the transactions it has sent are  *)
(* not.                                                                    *)
Crash ==
  /\ up /\ crashes < MaxCrashes
  /\ up' = FALSE
  /\ crashes' = crashes + 1
  /\ seen' = {} /\ watching' = {}
  /\ registered' = [o \in Orders |-> 0]
  /\ cb' = [c \in Callbacks |-> IdleCallback]
  /\ orphans' = orphans \cup
       {[kind |-> cb[c].pc, order |-> cb[c].order, fillAmount |-> cb[c].fillAmount] :
          c \in {k \in Callbacks : cb[k].pc \in {"register", "execute", "release"}}}
  /\ UNCHANGED <<vars, strategy, heard>>

(* A new process is told the blocks from the current one on.               *)
Restart ==
  /\ ~up
  /\ up' = TRUE
  /\ heard' = block
  /\ UNCHANGED <<vars, mapVars, cb, strategy, seen, orphans, crashes>>

OrphanMined(t) ==
  /\ \/ t.kind = "register" /\ SubmitRegister(t.order, t.fillAmount)
     \/ t.kind = "execute" /\ SubmitExecute(t.order, t.fillAmount)
     \/ t.kind = "release" /\ SubmitRelease(t.order)
  /\ orphans' = orphans \ {t}
  /\ UNCHANGED <<mapVars, cb, strategy, up, seen, heard, crashes>>

-----------------------------------------------------------------------------
(* What the others do: the transactions of Settlement that are not the     *)
(* bot's own, on fixed terms (no governance), each whole: nothing else of  *)
(* the chain runs inside a callback or inside a fallback's route.  Withdraw*)
(* is left out, the bot's five-minute timer for it included: it moves only *)
(* what is already owed, which nothing here reads.                         *)
OthersNext ==
  /\ \/ NextBlock
     \/ \E o \in Orders : cancelOrder(o)
     \/ \E n \in Nonces : invalidateNonce(n)
     \/ \E o \in Orders, f \in Fillers \ {Bot} :
          \/ releaseRegistration(o, f)
          \/ \E n \in FillAmounts : Register(o, f, n) \/ executePartialChunk(o, f, n)
     \/ \E o \in Orders, f \in Fillers, caller \in Accounts : slash(o, f, caller)
  /\ UNCHANGED fallbackVars

ChainNext == OthersNext \/ \E o \in Orders, r \in Routers : executeFallback(o, r)

CallbackNext(c) ==
  \/ OnBlock(c) \/ EndOfLoop(c) \/ \E o \in Orders : Visit(c, o)
  \/ Fetch(c) \/ ReadRemaining(c) \/ ReadCancelled(c)
  \/ DecideRegister(c) \/ DecideExecute(c)
  \/ Registered(c) \/ RegisteredBefore(c) \/ RegisterFails(c)
  \/ Executed(c) \/ TryFillFails(c)
  \/ Released(c) \/ ReleaseFails(c)

BotNext ==
  \/ ChainNext /\ UNCHANGED botVars
  \/ \E c \in Callbacks : CallbackNext(c)
  \/ \E o \in Orders : Poll(o)
  \/ Crash
  \/ Restart
  \/ \E t \in orphans : OrphanMined(t)

BotSpec == (Init /\ BotInit) /\ [][BotNext]_botSystemVars

-----------------------------------------------------------------------------
BotTypeOK ==
  /\ strategy \in Strategies
  /\ up \in BOOLEAN
  /\ seen \subseteq Orders
  /\ watching \subseteq Orders
  /\ registered \in [Orders -> Nat]
  /\ heard \in 0..(block + 1)
  /\ cb \in [Callbacks -> Callback]
  /\ \A t \in orphans : t.order \in Orders /\ t.fillAmount \in Nat
  /\ crashes \in Nat

(* A fill the reactor would accept is one the bot has provisioned for: the *)
(* price it worked out, from a list of fills that may be late and at a     *)
(* block that has passed, is never below the price the reactor charges.    *)
Provisioned ==
  \A c \in Callbacks :
    LET o == cb[c].order
    IN  At(c, "execute") /\ FillChecks(o, Bot, cb[c].fillAmount) =>
          OutputAmount(o, cb[c].fillAmount)
            <= mulDiv(cb[c].fillAmount, cb[c].currentPrice, PriceUnit)

(* What the bot has staked on, the reactor lets it fill: a commitment is   *)
(* not below the order's minimum chunk, unless nothing more is left.       *)
Fillable(o, n) == n >= MinFill[o] \/ n >= remainingInput(o)

CommitmentFillable ==
  \A o \in Orders : Active(reg[o][Bot]) => Fillable(o, reg[o][Bot].fillAmount)

(* The Whale strategy, which looks at the minimum chunk, keeps to that also*)
(* when competing fills take from the order while it decides.              *)
WhaleCommitmentFillable == strategy = "whale" => CommitmentFillable

(* A stake that can still be earned is being worked on: whatever fails,    *)
(* reverts or overlaps, a bot that has not died watches every order its    *)
(* wallet has an open commitment to, or has yet to see it on the board.    *)
StillOpen(o) ==
  /\ block <= Deadline[o] /\ remainingInput(o) > 0 /\ ~cancelled[o]
  /\ ~isNonceInvalidatedForOrder(o)

StakedIsWatched ==
  crashes = 0 => \A o \in Orders : Active(reg[o][Bot]) /\ StillOpen(o) => o \in watching \/ o \notin seen

-----------------------------------------------------------------------------
(* The inductive invariant behind these properties, beside that of the     *)
(* contracts.  What a callback, k, learned at an earlier await is old but  *)
(* bounds what is the case: blocks pass, an order's remaining amount and   *)
(* price fall, and an order that is over stays over.  An order it is at    *)
(* may have been dropped by another callback, but not one it could still   *)
(* stake on.                                                               *)
Informed(k) ==
  /\ k.pc # "idle" => k.now <= block
  /\ \A o \in Orders : k.order = o =>
       /\ k.pc \notin {"idle", "loop"} =>
            o \in watching \/ ~StillOpen(o) \/ reg[o][Bot].registered
       /\ k.pc \in {"cancelled", "decide_register"} => remainingInput(o) <= k.onChainRemaining
       /\ k.pc = "register" /\ strategy = "whale" => Fillable(o, k.fillAmount)
       /\ k.pc = "execute" /\ ~fallbackInitiated[o] => PriceNow(o) <= k.currentPrice
       /\ k.pc = "release" => ~StillOpen(o)

(* An order the bot has seen is watched as long as it could stake on it.   *)
SeenIsWatched ==
  \A o \in seen : o \in watching \/ ~StillOpen(o) \/ reg[o][Bot].registered

(* Transactions outlive only a process that died.                          *)
OrphansFit ==
  \A t \in orphans :
    /\ crashes > 0
    /\ strategy = "whale" /\ t.kind = "register" =>
         \A o \in Orders : t.order = o => Fillable(o, t.fillAmount)

BotInv ==
  /\ IInv
  /\ BotTypeOK
  /\ WhaleCommitmentFillable
  /\ StakedIsWatched
  /\ SeenIsWatched
  /\ \A c \in Callbacks : Informed(cb[c])
  /\ OrphansFit
=============================================================================
