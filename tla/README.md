# NeutronX in TLA+

TLA+ specifications of NeutronX, the TLC runs that check them and the TLAPS
proofs about them. NeutronX sells one signed order in chunks to competing
*fillers*: on one chain through `PartialFillReactor`, where a filler first stakes
ETH with `FillAuction` on an amount it promises to deliver, and across two chains
through pairs of hash- and time-locked escrows. A TypeScript backend stores orders
and follows the chains, filler bots drive fills, a React frontend signs.

Run a check with `tlc -config MCSettlement.cfg MCSettlement`, a proof with
`tlapm SettlementProofs.tla`. `PROJECT.json` lists the runs, maps every definition
to the source lines it stands for and every hazard to the properties that cover it.

## 1. The system

| Component | State | Operations | Interacts with |
|---|---|---|---|
| `PartialFillReactor.sol`, `RemainingLib`, `DecayCursorLib` | per order: packed remaining input, price cursor, paid output, fallback mark, cancellation; dead nonces; which order has which nonce | `register`, `executePartialChunk`, `executePartialChunkWithCallback`, `markFallbackInitiated`, `recordFallbackOutput`, `invalidateNonce`, `cancelOrder` | calls `FillAuction`; hands control to a filler's callback in the middle of a fill; is called by `FallbackExecutor` |
| `FillAuction.sol`, stakes | a registration per order and filler, pull-payment ledger, pooled ETH | `register`, `onFillSuccess` (reactor only), `slash`, `releaseRegistration`, `withdraw` | reads the order's state through the reactor's views |
| `FillAuction.sol`, governance; `DynamicStakeLib` | live, previous and pending configuration, cooldown clock | `setStakeConfig`, `commitPending`, `cancelPendingConfig`, `rollback` | the configuration prices registrations and settles them |
| `FallbackExecutor.sol` | whitelisted routers | `setRouterAllowed`, `executeFallback` | sells the rest of an order through a router near its deadline |
| `EscrowSrc(Factory)`, `EscrowDst(Factory)` | per order remaining input; per fill a clone with tokens, bond and expiry on each chain | `fillSlot`, `withdraw`, `cancel`, `claimEth`, `restoreRemaining`; `deploy`, `claim`, `refund` | the secret revealed on one chain opens the other |
| `crossChainFill.ts` (both bots) | the secret on disk | quote, fund the destination, fill the source slot, reveal; resume | both chains, the backend's HTTP API |
| backend `crosschainService`, `escrowSrcWatcher`, `escrowDstWatcher`, `escrowAuthenticity`, `checkpoint` | status of each fill, checkpoints | quote, sign, follow both chains' events, relay the revealed secret | both chains, the database |
| backend `eventIndexer`, `checkpoint`, `orderService`, expiry and fallback watchers | orders, fills, checkpoints in PostgreSQL | follow three event streams, create, cancel and expire orders, choose a route and run the fallback | the chain, the database, aggregators |
| backend `registrationIndexer` | the table of stakes, one checkpoint | follow the five events of a stake's life, restart on a provider error | the chain, the Fillers page |
| frontend `DutchAuction.tsx` | the swap form, what it awaits | edit, quote, approve, sign and post an order | wallet, tokens, backend |
| backend `stakeConfigIndexer`, dry run; frontend `StakeConfig.tsx` | the configuration's history, the editor's form | follow the governance events, edit, validate, submit | the auction |
| backend `suggest`, `fillerSim`; bots' `quoteServer` | a cache of measured coverage | ask every filler for its quote, search the largest minimum fill | the bots' HTTP API |
| bots' `listener`, `executor`, `strategy`, `inventory` | watched orders, open commitments | per block: evaluate, register, fill, reclaim | reactor, auction |
| bots' `partialFill`, `cli/actions` | nothing of their own | fill a share of an order by hand, or simulate it | reactor, auction, the backend's fills, the bot's wallet |
| `CoWFiller` matching | a live order book | match an order against opposite bids | the strategy of that bot |
| frontend `CrossChain.tsx`, `useWallet` | the swap's direction and fields, the wallet as last looked at, what it awaits | choose, approve, put an intent on the board, sign it, save the signature | wallet, tokens, `createIntent`, `setOrderSwapperSig` |
| frontend `CrossChainOrders.tsx` | a list of fills, an open form, the minutes typed | fetch, shorten T1 and sign, claim | wallet, the board's rows |
| backend `fillerRegistry`, `adminAuth`, `routes/admin`; frontend `AdminApp`, `AdminLogin`, `Admin.tsx` | the table of fillers, sessions; a list and two forms per page | log in and out, add, edit and remove fillers, seed them at each start | the ranking of fillers by balance (`preflightService`) |
| other frontend pages, market data, deployment | nothing that settlement depends on | | |

**What is hard here, and what makes each part correct**

- *Settlement.* Fills, kill switches, slash, release, fallback and governance are
  transactions of independent parties in any order, and a callback opens a window
  inside a fill. Correct: the swapper never parts with more than it signed and is
  paid the floor; the price does not depend on how an order was cut up; each stake is
  closed once, paid out whole from a pool that always covers it, returned in full
  to who delivered, and never locked for good.
- *Governance.* Three roles act on one configuration with a delay, a veto and a
  rollback. Correct: whatever is live can be settled by and deters abandoning; a
  loosening waits; a queued change was measured against what it replaces.
- *Cross-chain.* Two clocks, a secret that cannot be taken back, deadlines on both
  chains, off-chain parties that act on what they saw earlier, signatures that name no
  filler. Correct: both legs of a fill the clients agreed on change hands or neither does; no leg of any
  fill moves before its secret is out; no share of an order is lost or sold twice.
- *Relay and driver.* Two watchers with checkpoints that replay after a crash, a
  status machine with several writers, a driver that can stop between any two
  transactions. Correct: no event sets a status back, a revealed fill of the row's own filler is
  claimed, no step is done twice with effect.
- *Order book.* Block callbacks overlap and share three counters; four writers set one
  status. Correct: no fill is booked twice or lost, whatever is shown as sold is sold.
- *Bots.* Callbacks of several blocks walk the same maps with an await at every step.
  A command at the prompt works the same wallet and order beside them. Correct: what is staked on
  is watched and can be filled, what is filled is paid for, a command can be given again.
- *Swap page.* Quotes, allowances, transactions and signatures answer in any order to a form that has
  been edited meanwhile. Correct: what is signed can be filled to its last block, and the button
  never waits for nothing.
- *Cross-chain pages.* An order is signed in three awaits while the wallet's account and network change;
  fills are signed from a list that is old; admins edit one table through lists and forms of their own,
  while sessions end and the backend restarts. Correct: nothing that was meant for one order, fill or filler is
  used for another.
- *Table of stakes.* Five kinds of events are fetched side by side and handled kind after kind, by
  polls that overlap and replay. Correct: a settled stake is never offered for reclaiming again.
- *Console and suggestion.* The form and the dry run copy the contract's validation, the
  history is put together from replayed events; the search for an order's parameters
  measures fillers that come and go. Correct: copies agree with what they copy, history
  with the chain, a suggested order can be filled to its last block.

## 2. Modules and plan

| | Modules | State |
|---|---|---|
| 1 | `StakeSchedule` (pure: `DynamicStakeLib`), `FillAuction`, `RemainingLib`, `PartialFillReactor`, composed with the fallback in `Settlement`; abstract: `StakeEscrow`; `SettlementInvariant`; `FallbackRoute`: the watcher's choice among quotes and its dry run | checked and proved |
| 2 | `StakeGovernance`, on the whole of `StakeSchedule` | checked and proved |
| 3 | `CrossChainEscrows`, driven by the clients in `CrossChainSwap`; abstract: `AtomicSwap` | checked and proved |
| 4 | `CrossChainRelay`: the status machine of a fill with all its writers, two watchers with checkpoint, rescan and restart, the relayer | checked and proved |
| 5 | `CrossChainFiller`: `crossChainFill`, `crossChainResume` and `driveToCompletion` an await at a time, over module 3, with the file of secrets; several commands, crash and resume | checked and proved |
| 6 | `OrderBook`: `eventIndexer`, checkpoints, order service, expiry and fallback watchers as writers of the same tables; `RegistrationIndex`: the table of stakes | checked and proved |
| 7 | `FillStrategy` (pure: both strategies and the matcher), `FillerBot`: listener and executor over module 1, with the rival, the swapper and the fallback around it; `HandFill`: the prompt's commands beside the bot | checked and proved |
| 8 | `StakeConsole`: form, dry run and history of the configuration, around module 2 | checked; the history and the form proved |
| 9 | `OrderSuggestion`: `suggest.ts` and `fillerSim.ts` over the strategies of module 7; `SwapForm`: the swap page; both put beside module 6 in `MCOrders` | checked and proved |
| 10 | `IntentForm`: the cross-chain swap page and the wallet; `FillSigning`: the list in which fills are signed; `FillerAdmin`: registry, sessions and the Fillers tab; put beside module 4 in `MCCrossChainPages` | checked and proved |
| - | `Totals`: sums over finite sets counted unit by unit, with `TotalsProofs`: what the proofs of modules 1, 3 and 6 need of a total | proved |

What composes what: `PartialFillReactor` and `FillAuction` meet in `Settlement`, which
`FallbackRoute` and `FillerBot` extend, the latter extended by `HandFill`; `CrossChainSwap` is extended by `CrossChainFiller`; `StakeGovernance`
by `StakeConsole`. `CrossChainRelay`, `OrderBook` and `RegistrationIndex` are the backend by itself, in front of
chains reduced to their events; `SwapForm` is the page by itself, in front of answers that are inputs. `IntentForm`, `FillSigning` and
`FillerAdmin` are each a page with the part of the backend that is behind it. Abstract specifications: `StakeEscrow` (module 1),
`AtomicSwap` (module 3), and `CrossChainSwap` itself, which module 5 implements.

Left for later: the driver composed with the relay, so that the board `CrossChainFiller`
takes from `CrossChainSwap` is the one `CrossChainRelay` writes.

## 3. How the models correspond to the code

An action is one external transaction with every call it makes, or one step of an
off-chain client; a transaction that reverts leaves no trace and is no step.
Definitions keep the source's names; `PROJECT.json` gives the lines. Names of the
form `X_Something`, marked *Fault*, are mutated forms of `X` used to show that a
property can fail; no specification uses them.

**`StakeSchedule`.** Bucket look-ups, `computeCollateral`, `computeRegistration`,
`computeRefund`, `validate`, `worstCaseKappaBps`, `guardCheck`. Loops over buckets
become "the first bucket such that"; tables stay flattened row by row as in the code.

**`FillAuction`, `PartialFillReactor`, `Settlement`.** An order is a model value
its swapper and cosigner have signed, with constants for its fields; any other
order is refused by signature checks before anything changes. `EnterCallback` and
`LeaveCallback` are the two halves of `executePartialChunkWithCallback`; `frame`
holds the locals that survive the callback. While a frame is open only calls
without the reactor's `nonReentrant` guard are enabled and no block passes. A frame
that cannot be left is a transaction that reverts. `FallbackExecutor` calls a router, which is
foreign code and returns any of a few amounts, between two readings of the swapper's balance (lines 120
and 125), and the reactor's guard is not held there. `executeFallback` is a call whose route does not come back to
these contracts; `EnterRoute` and `LeaveRoute` are the two halves of one whose route does, and `route`
holds its locals. In between everything goes on but another fallback (the executor's own guard) and the
chain's blocks; a callback that was open before stays open until the route is over, one opened inside is
over first. `outputBalance` is what orders have brought a swapper of one output token, which
several orders may share (`PayeeOf`); `alsoPaid` remembers what a route was credited that other
orders paid. Orders of the swapper that sell the token another one is paid in would only lower the second
reading, and are left out. The caller's `minAmountOut` only narrows the outcomes and is left out. An output token may keep a fee of a transfer. Casts to
`uint160` lose nothing for a token that exists; casts to `uint128`, and the
complement `RemainingLib` stores, are modelled at a small width (`U128 = 64`,
`U256 = 128` or `16`), and one order is larger than `U128` so that the refusal of
such orders is exercised.

**`StakeGovernance`.** The deployed configuration and nine submissions: tighter,
looser, reshaped, with rows the validation must refuse. Notionals are in thousandths
of ETH to fit TLC's integers, and guardCheck's 500-ETH sample is left out for the
same reason. `FillAuction.reconfigure` keeps of this module only that a
configuration is replaced by one that can be settled by; `LiveConfigSettles` is
that promise.

**`CrossChainEscrows`, `CrossChainSwap`.** A fill stands for its hashlock, which is
random: one order, one filler, one clone on each chain. `srcTime` and `dstTime` are
the chains' block timestamps; `srcTime` also stands for the wall clock the clients
read. `Quote`, `FundDst`, `FillSlot`, `Reveal`, `Withdraw` are the driver's steps,
`SignFill` what the backend lets the swapper sign (it may shorten T1, never extend
it, and the status it goes by may be old; requests that overlap put several terms on record, `auth` is
the set of them), `Claim` the relayer's or the swapper's. The two signatures `fillSlot` asks for name no filler and the
backend serves them, so its `caller` is the quoting filler or another, and becomes the `filler` of
the clone, to whom input and bond go. The driver asks `isFilled` and skips a slot that is taken, whoever took it,
and reveals (`crossChainFill.ts:258-262`): so does `Reveal`. A fill that another caller took, or that was signed
on two terms, is `Waived`: the clients' margins then no longer bound what happens to it.
`Reveal` and `Withdraw` are the sending and the inclusion of one transaction: from
`Reveal` on the secret is public. `FundDst` is two transactions of the code in one
step. The driver checks its margin also before `fillSlot`; the model allows it to
fill later than that, which is more behaviour. The operator's `--force` and
`--min-margin-sec`, which switch the margin off, are outside the model. The
contracts do not check `minOutput`: what a fill pays is between quote and signature.
Nobody in the repository calls `EscrowSrc.cancel` or `EscrowDst.refund`; both are
open to whom the contracts let call them.

**`CrossChainRelay`.** `status`, `known` (the row's `escrow_src_addr`) and
`checkpoint` are the database and survive `Crash`; what a watcher or a poll holds in
memory does not. `drain` is taken apart where it awaits: `StartDrain` reads the logs,
`HandleNext` handles one, `SkipNext` is a handler that throws, `FinishDrain` moves
`lastBlock` and saves the checkpoint, which may fail. Within a drain the factory's logs
come before the clones', each in block order (`Precedes`). Every block event calls
`drain`, so one that finds work may start at any time; a poll that fails has no effect
and is no step. Both watchers run the same loop and are one set of actions over a chain.
`setFillSwapperSig` is two steps, because it checks the status, awaits and then writes; two requests of
one fill may be under way, and `setBack` remembers the fills the later one found locked. `foreign` are the fills whose
slot another than the row's filler took, which `recordSrcLocked` passes over (`crosschainService.ts:322`).
The relayer reads the row and the escrow (`RelayPoll`), sends the claim and waits
(`RelayClaim`), records it (`RecordClaimed`). A clone is `genuine` when it carries the
terms quoted. Time is how many of T1 and T2 have passed; the escrows are kept as far as
their events go, their funds are `CrossChainSwap`'s. `withRelayerQueue`
(`escrowDstWatcher.ts:37-42`) sends and awaits one claim at a time, which makes
`RelayClaim` one action. Left out: a reorganised chain (the
watchers ignore the registry's `confirmations`), a missing checkpoint row and one of
another chain. The status `aborted` is in the schema and no code writes it; a claim by
the swapper itself, or one whose `recordClaimed` is lost, leaves the row `revealed`.

**`CrossChainFiller`.** A process is one command: typed at the prompt or run from a
shell, begun with a quote (`StartFill`) or with a fill of the file (`StartResume`), and
gone at any await (`Abort`). `FundDst` is here the two transactions it is in the code,
`Transfer` and `Deploy`. `LoadStore` and `SaveSecret` are the read and the write of the whole
secrets file: in one process nothing happens between them, another process may write in
between, and one that dies while it writes leaves a file that does not parse
(`TearStore`); `damaged` remembers that this cost another fill its entry. What
`CrossChainSwap` takes as a client's promise, that a secret is sent only a margin before
T1, is here the code that keeps it: the T1 fetched with the authorization,
`assertTimeMargin` before the source escrow and before the withdrawal.

**`OrderBook`.** One action per await: a query, one SQL statement, one transaction. `cb` holds
the block callbacks, which overlap because the provider awaits none of them; `last` is the
three counters they share, `checkpoint` the rows that survive `Crash`. The range a callback asks
for is fixed when it enters a stream (`Enter`), the logs are handled oldest first, then the counter
moves, then the checkpoint is written. A handler swallows what its statements throw
(`HandlerFails`, remembered in `skipped`), a query or the write of the checkpoint ends the stream's
turn (`TurnFails`). `cancelOrder` reads and writes in two steps, as the code does. The fallback
watcher's job is select, measure and send, wait, mark, insert; a crash leaves its transaction
behind (`awaited`). The chain is the log of its events, one in a block at most.

**`FillStrategy`, `FillerBot`.** The two bots are copies of each other: `crossChainFill.ts`,
`partialFill.ts`, `secretStore.ts`, `inventory.ts` are the same text, `executor.ts` differs
in one check of the output token's address (`WhaleFiller/.../executor.ts:191-193`), the rest in names,
ports and `strategy.ts`. So there is one module, and a variable `strategy`. `OnBlock` starts a
callback, `Visit` is the loop's step to the next watched order, then follows `tryFill`, cut at its
awaits: `Fetch`, `ReadRemaining`, `ReadCancelled`, `DecideRegister` or `DecideExecute`, and the
transaction with its outcomes. The callback keeps the block it was started for (`now`), which the
chain has left behind; the list of fills it decides on may be late (`ShownFirstFill`). A map's
iterator sees an entry that was deleted and set again as new (`Forgotten`). Everyone else is
`Settlement` without governance and callback fills. The stake a bot offers is priced by the same
preview the contract computes, so `Register` takes it without a premium.

**`StakeConsole`.** Three scenes, since form, history and contract share nothing but the contract: in
`contract` governance runs its whole course, in `history` the indexer follows it while it submits one
of two configurations, in `editor` the form is edited in every way the page allows and submitted. A
timestamp is a block of several transactions.

**`OrderSuggestion`.** The binary search of `suggest.ts` with one round of quotes per step
(`SearchStep`), the cache of what was measured, the answer, and fillers that stop or start answering in
between. A quote is the filler's own strategy at the floor price, on the whole order.

**`FallbackRoute`.** What each aggregator answers is an input, `NoRoute` included; `getBestQuote` picks
among them, or asks only the pinned one. `checkFallbackRoute`, the dry run behind the page, repeats the executor's floor on what the
fills table says was paid, which may be less than was. It does not look at the allowlist of routers, so
`TickMeansFallback` speaks of a route whose router is allowed.

**`RegistrationIndex`.** A callback fixes the range of its five queries (`OnStakeBlock`) and handles the streams one after
the other, each oldest first, with an await at every row. A provider error starts the indexer once more
beside the one that runs on, with a counter of its own; all starts share the saved checkpoint.
A stake stands for its order and filler. A block holds one event.

**`HandFill`.** A command reads the fills the backend shows (`shown`, which may be late), works out the
amount and the price, then checks, registers and fills with the bot's wallet and without entering the
bot's two maps. `sim` is an operator on what the command read. Where the code takes a
minimum of 0 for the default of 100 (`minFillBps || 100`), the model takes the order's own.

**`SwapForm`.** An action for every field, button and answer: `debounced` is the amount the effect will
ask a quote for, `quotes`, `checks`, `approving`, `signing` what is under way. The output token is only a rate here;
balances, the minimum fill, the pinned aggregator and the card's polling decide nothing that is checked
and are left out. An amount is a whole number and 0 is an empty field; rounding is the code's.

**`IntentForm`.** The wallet has an account and a network; the page has what its last `buildState` found
(`builds` are those that have read the network and not yet the account). `SwitchEffect` and `ApprovalEffect` are the
page's two effects, run after a step that changes what they depend on. `doSwap` is cut where it awaits: `Create`,
`Sign`, `Save`, each of which may be refused or its answer lost. A row is found by `hashOrder`, in which there are no
chains. Deadline, nonce and fee tier are one stamp: the nonce is a field of the form that a
second swap finds as it was. Balances and the info panel decide nothing and are left out.

**`FillSigning`.** A fetch is the backend reading the rows and, later, the page showing them (`FetchArrives`); the
page draws itself when its state changes (`Draw`), which is when the minutes are clamped again to what is left
before T1 (`Reclamp`). What is asked of the wallet is `chosenT1`, the earlier of the T1 in the list and of
what the minutes come to. `setFillSwapperSig` is two steps, as in `CrossChainRelay`; whatever else moves a row is `Record`.

**`FillerAdmin`.** A page is a browser tab with a token. `Load` and the three kinds of calls are under way until they
are answered, fail, or lose their tab (`Unmount`). `add` is a SELECT and an INSERT in two steps
(`Selects`, `Writes`), of which the primary key refuses the second if it comes too late (`NotWritten`). `Restart`
forgets the sessions and runs `initFillerSchema`. A filler's own addresses (`Own`) are what an admin types for it; an admin
types the name first. The health check behind the list, `selected` flags of the page and the other tabs are left out.

**`Totals`.** `Totals` of amounts over a finite set is the number of units, the pairs of a member and a
number below its amount, where the code adds up in a loop: the provers know cardinality and not recursive sums.

## 4. Runs

| Run | Asks | Instance |
|---|---|---|
| `settlement` | `Solvent`, `InputConserved`, `PriceFollowsCurve`, `FullDeliveryRefundsAll`, `ImplementsEscrow` | one order of 4 units, two fillers (symmetric), chunks of 2 and 4, two configurations that governance switches between, callbacks, fallback with or without calls back from its route; 780,000 states |
| `settlement_orders` | `IInv` (the invariant that is proved), `FloorPaid`, `SwapperKillFreesStake`, `TickMeansFallback` | three orders of one swapper under one nonce: chunked with an uneven floor, small with a constant price, too large for 128 bits; transfer fees; the fallback of one with fills of the others inside its route; two aggregators that take 30% off; 1.93 million states |
| `settlement_live` | `EveryStakeSettles` | one order, two fillers, under fairness; 80,000 states |
| `governance` | `LiveConfigSettles`, `AbandoningCosts`, `LooseningWaits`; `FormMirrorsContract`; `HistoryMatchesChain` | ten configurations, cooldown 2, delay 3, ten time steps; in the other scenes five time steps, two events, two overlapping callbacks and one fault, or two edits with three typed values; 94,000 states |
| `swap` | `Conserved`, `ImplementsAtomicSwap`, `RevealedFillsSettle` | two fills of one order of 4, half of what is left each, one of them signed on up to two terms, slots taken by either caller, clocks up to 5 that differ by at most 1; 2.04 million states |
| `relay` | `BoardNeverAhead`, `CheckpointCovers`, `StatusFollowsDiagram`; `NothingCarriedOver` | four lives put side by side (`MCCrossChainPages`): one fill, its slot taken by its own filler or another, two overlapping polls and two sign requests, one crash and one failed call anywhere, `RESCAN_LAG` 2, three source blocks; the swap page with two chains, of which one lacks a token and both have one at the same address, two accounts, three acts of the user and one in the wallet; two fills of which the second has the earlier T1, two fetches, two clicks, three moves of the watchers; two admin tabs, two fillers, two sessions, four clicks, two calls and a load under way, one restart; 3.71 million states |
| `relay_live` | `EverySecretRelayed`, `BoardCatchesUp` | the same fill with one poll, two sign requests, a crash, a failed call and two source blocks, under fairness; 261,000 states |
| `filler` | `SecretsSurvive`, `FollowsSwap` | two commands, two fills of one order, each signed on up to two terms and funded once, slots taken by either caller, clocks up to 4; 3.22 million states |
| `orders` | `NeverOverbooked`, `FilledIsSold`, `CheckpointCovers`; `RowsFollowChain`; `SuggestionStaysPayable`, `LargestMinimum`; `SweepStaysFillable` | four lives put side by side: in the book, an order of 2 sold in chunks of 1 over three blocks, two overlapping callbacks, one fault, cancellation only while nothing has failed; two stakes with three events, two polls, two starts and one mishap; 729 requests to four fillers, one outage; the form with two tokens, two amounts and four inputs; 3.15 million states |
| `orders_live` | `FillsAreBooked`, `DeadOrdersClose` | the same order with one callback, under fairness |
| `bots` | `CommandDelivers`, `Provisioned`, `WhaleCommitmentFillable`, `StakedIsWatched`, `GreedyIsOptimal` | one order of 3 with chunks of at least 2, a rival, three blocks, two balances, two order books, and two threads in all: two callbacks of CoWFiller with a crash while both are busy, one of WhaleFiller beside one command, or a command given twice; 1.7 million states |
| `fund_twice` | `FundedOnce`, violated: see section 7 | as `filler`, with one command at a time and up to two transfers of a fill |

**Bounds.** `MaxBlock`/`MaxTime` end the clocks; each is past the last deadline
plus slash window (settlement), past cooldown plus delay twice over (governance), past
T2 of the latest fill (swap), so every branch on time is taken on both sides. Two
fillers suffice for competition: they interact only through the order's remainder and
the pooled balance. Two fills of one order suffice for the reservation: two halves that
sell the order out, one or both cancelled, a half of a half, one cancelled between the other's
quote and its slot all occur; whole fills one after the other do in `filler`. Two sign requests are what it takes for one to
overwrite, and two terms for a fill to be waived by them (`MaxSignatures`, `MaxSigners`). In `relay` one fill suffices because fills share nothing
but the watchers' position, and the proof covers any number; three source blocks hold
`Filled`, its successor and an empty block, so that a rescan window of two both reaches
back over handled logs and leaves some behind; lag 1 is exceeded by an outage of two
blocks, which backfill must replay. In `orders` and `bots` two callbacks are what it
takes for one to act on what the other has changed; three blocks let a callback be one block
late, miss a fill and replay it after a restart. `filler` needs
two commands for a resume to overlap the original, `fund_twice` two transfers for the second one to be possible. In `orders` an event of each stream that can follow another, two polls over the
same range and a restart between them fit in three blocks; the form's decay field holds 32 bits in the code and up to
6 here, so that some decays are refused. In the editor two edits
remove or add a bucket and then break or mend a field of it. `GreedyIsOptimal` compares the matcher with every
way of placing an amount on the bids of the book. Amounts are small because only comparisons, shares and
the packing tell them apart, and the proofs do not bound them. In `relay` three acts are what it takes to swap, turn the
direction round and swap again with the first still under way; four clicks open a tab, fill the form for one filler, go to
the other and save it; an old session and a new one are needed for a late 401 to hit the wrong one. Every run says
`CHECK_DEADLOCK FALSE`: blocks are bounded and orders do end.

**Fairness.** `settlement_live`: the chain advances; whoever is paid for it slashes
(it is permissionless and pays a tenth of the stake: no code of the repository
calls `slash`, so this is an assumption about others); fillers reclaim releasable
stakes (`executor.ts` `reclaimStake`, the frontend's Fillers page). Fills are under
no fairness. Its `LiveSpec` takes callbacks as whole transactions, since a frame
nobody leaves is a revert, not a state the chain stays in. `swap`: a sent
withdrawal is included while it can be, and the relayer, which polls every five
seconds, claims while it can, but for a waived fill: the backend does not know the clone of a foreign slot
and may have lost sight of a fill that was signed again. `relay_live`: the backend's own loops and timers run (each
watcher's retry until connected, its block events and drain, the relayer's interval);
swapper, filler, chain and time owe nothing. A handler that throws loses its
log for good (section 7), so both properties promise nothing once a call has failed; nor of a fill that a late
sign request has set back, and no secret of a slot another caller took is relayed, since its row never gets the
clone's address. `orders_live`: blocks keep coming and are
announced, a callback runs until it is over, the expiry timer keeps firing, a backend
that died is started again; nothing is assumed of the fallback watcher or of whoever
creates and cancels orders. A fill whose own INSERT threw counts as handled: it is lost for good.

**Timing.** The delays of `CrossChainSwap` are upper bounds the clocks respect:
`InclusionDelay` from sending to inclusion, within the 60 s margin the driver
keeps; `RelayDelay + MaxSkew` from a withdrawal to the claim on the other
chain, within `T2_BUFFER_SECONDS` = 120 s. That is `TimingAssumption`: the
constants in `crossChainFill.ts` are chosen for it and cannot enforce it, so the
atomicity below is conditional on it. Dropping the margin, or letting T1 be
extended at signing, breaks it within the same delays (the mutants of `swap`).

**What the swap promises.** `AtomicSwap` promises both legs or neither to a fill the clients agreed on: its slot taken by
the filler that quoted, on the one T1 that was signed. It cannot promise more. A caller that uses the public signatures first is
paid the input for the secret the quoting filler then publishes, while the output is the quoting filler's; and
with two signed terms the clone may have the shorter T1 while the driver keeps its margin to the longer. Of such waived
fills it still promises that the secret goes out only with the output locked and the input escrowed (or given back), that
no leg changes hands without it, and that each leg goes to one side once; and of the contracts that nothing is
sold twice (`Conserved`), which knows no exception.

## 5. What is proved

All theorems hold for every value of the constants that meets the modules' `ASSUME`s.

- `StakeScheduleProofs`: a refund lies between 0 and the stake (`RefundWithinStake`);
  whole delivery refunds everything (`FullFillRefundsStake`); a valid configuration
  yields terms a registration can be settled by (`RegistrationTerms`); the kappa
  floor, which the code checks at one edge per table row, bounds what is forfeited at
  *every* fraction (`AbandoningIsDeterred`). The last rests on the orders `validate`
  enforces: the row of refunds does not fall, so the last penalised edge is the worst.
- `SettlementProofs`: `IInv` is inductive. The properties are not inductive by
  themselves: `InputConserved` needs that the remainder packed in a word unpacks to
  what a fill left (`RemainingFits`), `PriceFollowsCurve` that each cursor lies on
  its order's curve (`CursorOnCurve`), `FloorPaid` that only a fill in its
  callback or a fallback in its route may be in debt (`FloorPaidOrPending`) and that a route is credited beyond its own output
  only what other orders have really paid since it began (`RouteFits`, `PaymentsReceived`), all of them what an open frame
  remembers (`FrameFits`), and the treatment of stakes that a registered order's
  nonce is recorded (`RegistrationsFit`). From it `TypeCorrect`, `InputIsConserved`,
  `FloorIsPaid`, `PriceIsPathIndependent`, `KillFreesStake`.
  There too: the action properties `FillsWithinCommitment` and
  `FullDeliveryIsRefunded`; `AuctionIsSolvent`, by a step-by-step count of the pooled balance: each
  transaction moves the total of the open stakes and of what may be withdrawn by what it pays out;
  `TicksCanBeReliedOn`, which compares the three copies of the floor (the page's, the watcher's, the
  executor's) for any list of aggregators; and `SettlementImplementsEscrow`: reactor, auction and
  fallback together implement `StakeEscrow`, in which a stake is taken once, closed
  once and split without loss among filler, caller and treasury.
- `StakeGovernanceProofs`: `GovernanceInvariant` (`IInv`, no run's invariant by itself: it is what the
  scenes of `StakeConsole` and the theorems below rest on) and from it `LiveSettles`,
  `PendingMeasured`, `AbandoningAlwaysCosts`, `LooseningsWait`, `LiveMovesAreSpaced`.
  The strengthening is that a pending configuration matures exactly a delay after it
  was queued and that nothing went live within a cooldown before (`ClocksAgree`).
  `HistoryIsTrue`, around the same contract: `HistoryInv` says that every row is of a block that is
  over and shows what was live after it or was queued (`RowsTrue`), that the counter and the checkpoint have
  passed only events that have their row or whose INSERT threw (`Passed`), and that up to its own block
  a callback holds every event that has none (`PollFits`). Because a callback only reads blocks that are
  over, what was live after them cannot change under it (`LiveStays`), so it does not matter when, how
  often or by how many callbacks a row is written; and below the checkpoint the row of the last block that
  installed something is there for `findPrevSnapshot` to find (`PreviousIsLive`).
  `FormIsFaithful`, on the page's editor: `EditorInv` says that what is live is sound and that the form keeps
  its shape, one threshold less than buckets and a row of the refund table for every size, whatever is added,
  removed and typed (`EditKeeps`). A form without blanks is then the one its own configuration would be shown
  as (`RoundTrip`, which needs what joining the rows gives, `FlattenRows`), and for such a form every check of
  the page is one of the contract (`ChecksAgree`), the worst case included, which the two work out
  differently (`KappaAgrees`).
- `CrossChainSwapProofs`: `SwapInvariant`, `NothingSoldTwice` (what is left of an order, what its fills
  have locked and what they took make up what was signed, cancellations and refilling included) and `SwapIsAtomic`, that the escrows driven
  by the clients implement `AtomicSwap`, whoever fills the slots and however often a fill is signed. The argument is a chain of inequalities the
  invariant carries: each T1 signed is at most T1 quoted, T2 is a buffer later, and a clone has one of the T1s signed
  (`TermsAgree`), which is the only one unless the fill is waived; a secret that is out was then sent a margin before it, so while the
  withdrawal is pending the source cannot be cancelled; once it is in, the claim
  follows within `RelayDelay`, so the destination cannot be refunded (`Decided`,
  with `ClocksClose`). Of a waived fill the invariant keeps that its secret goes out only after the slot was filled, and before T2 (`Undecided`).

- `CrossChainRelayProofs`: `RelayInvariant` and from it `BoardIsBacked`,
  `RestartsLoseNothing`, `StatusIsMonotone`. `CheckpointCovers` is not inductive: a
  checkpoint is only as good as the drain that wrote it, so `WatcherCovers` says that
  every event up to `last` is on the board and every event up to `upTo` is on it or still
  in `todo`. That a handled log took effect needs that a fill's events happen in order
  (`EventOrder`), that a row knows its clone exactly while it is locked (`KnownIfLocked`),
  and that what precedes a log was read with it or is covered (`WatcherConsistent`). All of it holds for any
  number of sign requests of a fill and whoever takes its slot: a row whose slot is foreign stays `authorized`
  (`ForeignWaits`), and a row may differ only once a late request has set it back, which is the one exception
  `RestartsLoseNothing` and `StatusIsMonotone` name (`LateSignature`, `SlashedSetBack`).
  On the pages: `NothingIsCarriedOver`, from an inductive invariant of each page, for any number of accounts,
  tokens, fills, fillers, tabs, and of calls under way. `IntentInvariant`: the three conditions of `SignedAsAsked` say what
  is seen; what makes them hold is that every row goes between the two chains there are, so that a source chain determines the
  destination, and that a swap past its signature carries one for the source chain it was asked with, which only a row of
  that chain takes. `SigningInvariant`: every T1 in the database, in an answer on its way and in a list is the proposal or an
  earlier one, so whatever minutes a form has kept, `chosenT1` is not later; a row is signed once, with one T1.
  `FillersInvariant`: every address in the table, a list, a form or a call is one of the filler it stands
  with, and a form without a name has none. From it `FillersChangeAsAsked`, an action property
  (`[][ChangesAsAsked]_fillersVars`): only an edit or removal of a registered filler changes it, whatever the two steps of an
  `add` and the seeds of a restart meet. No run checks that one by itself.

- `OrdersProofs`: `BookTypes` and `RestartsLoseNoFill`, for any number of overlapping callbacks,
  crashes and failures, with backfill. `CheckpointCovers` by itself is not inductive: a
  checkpoint is only as good as the callback that writes it. So `BookInv` says that the counter a
  callback starts from has passed handled fills alone (`CounterCovers`), and that up to a
  callback's own block what is not handled is still among its logs (`CallbackCovers`). A callback that
  finishes late sets counter and checkpoint back, which the invariant allows: the fills it
  replays are keyed by their log. `BookNeverOversold`: the chain's events add up to what is
  gone, and every row is that of one event (`RowsOnChain`), so the rows' total is at most that;
  `FilledOrdersAreSold` needs it, for the handler marks an order
  filled by summing its own table. `BACKFILL` is assumed in all of these; without it a restart skips
  the blocks it was down for, as the code does then.
  `StakesFollowChain`, on the table of stakes: a settled stake is never shown as reclaimable,
  whatever polls overlap, crash or are started beside each other, unless a statement about that very stake threw. `RowsInv` says that
  a stake's events come in one order on the chain (`ChainOrder`), that a row shows a settlement only if the chain
  has it (`RowsSound`) and shows every one that was handled (`Shown`), and that what a poll or a
  start no longer holds was handled or lost (`Covers`, `Fits`): the guard on the row's status is what keeps a
  replayed registration from undoing a later settlement.
  `SuggestionsStayPayable`: rounding start, floor and decay in the directions the code has chosen never
  takes the price under the floor within the window; `SearchFindsLargest`: while the fillers answer alike
  coverage only falls as the minimum rises, so the bisection keeps the answer between its two ends (`SearchInv`).
  `SweptOrdersPayTheFloor` and `FormNeverStuck` (`WaitsEnd`: the button waits only for something that is under
  way; no run's property), for any tokens, amounts, quotes and order of answers
  (`FormInv`: what was swept is still above the rate of the floor in the last block of its window).
- `CrossChainSwapProofs`, second part: `FillerTypes`, `FundedSecretsSurvive`, and `FillerFollowsSwap`: the driver,
  with any number of commands that overlap, die and resume, implements
  `CrossChainSwap`; with `SwapIsAtomic` this gives `FillerIsAtomic`. `FillerInv` says that a
  command past the writing of the file drives a fill whose secret is in it (`Secured`), that
  from the authorization on it knows a T1 that was signed and reveals only with a source escrow
  there (`Driven`), whoever made it.
- `FillerBotProofs`: `BotInvariant` for a bot by itself, `HandInvariant` for a bot with the prompt beside
  it, and from the latter `BotStakesAreWatched`, `BotCommitmentsFillable`,
  `BotProvisions` and `CommandsDeliver`, for any orders, rivals, balances and order books, any number of overlapping
  callbacks, crashes and failures. A callback acts on what it read several awaits ago; `BotInv` says
  what that is still good for (`Informed`). No transaction of anybody takes a contract back
  (`ChainMoves`): blocks pass, the remaining amount and the price of an order fall, an order that is
  over stays over, a registration stays. So a remainder read earlier is an upper bound, a price worked
  out from a late list of fills at a past block is enough, and an order a callback is at may have been
  dropped by another callback, but only when it is over or its stake is. A transaction outlives only
  a process that died (`OrphansFit`). A command of the prompt acts on a list of fills that may be late:
  `HandInv` says that the list never shows less of an order than is left (`HandTypes`), so that what a command
  sized and priced by it was enough for what was shown and is enough for what is left; and that a stake made
  by hand is at least its share of what is shown (`HandStakes`), which is why the command can be given again
  (`HandKnows`).

**Totals.** The prover has no induction over data, so a sum over a set is not defined by folding but
counted: `Totals` takes the number of pairs of an element and a unit below its amount, a finite set
whose cardinality the library's theorems speak about. `TotalsProofs` shows that this is a sum: it
changes by the difference when one amount does, and is ordered as the amounts are.

**Assumed.** Besides the `ASSUME`s on numbers: orders, fillers and hashes come from finite sets; the
candidates for a minimum fill ascend; `"auto"` names no aggregator; the indexer of stakes is started
at least once; the contract's limit of buckets is at most the 16 and its worst-case floor at least the
1000 basis points that page and dry run have of their own (`StakeConfig.tsx:629`, `stakeConfig.ts:145`; the
contract has the same, `FillAuction.sol:154` and `190`); the timing of section 4 for `SwapIsAtomic` and what follows from it.

**Model-checked only.** Liveness (`EveryStakeSettles`, `RevealedFillsSettle`,
`EverySecretRelayed`, `BoardCatchesUp`, `FillsAreBooked`, `DeadOrdersClose`) is beyond the prover.
`GreedyIsOptimal` compares a fold over the book with every other way to place an amount, which needs
induction over data; it is exact for prices in whole units (`Unit = 1`), beyond that each level rounds. All other properties the runs check are theorems.

## 6. Not modelled

- *Contracts.* The price oracle (an external pool; a notional is an input), ERC-20 and Permit2
  beyond what moves, signatures and EIP-712 hashing, the one-time wiring (`setReactor`, role
  grants, `setFallbackExecutor`), view wrappers; `ScaledOutputLib`, which nothing imports.
- *Backend.* The reconnect on a provider error and the check that a checkpoint is of this chain
  (`db/checkpoint.ts`), listings and the
  validation of requests, tokens the watchers skip, the sources
  of a market rate (AlphaRouter, CoinGecko, cached prices, fee tiers), the other HTTP routes, which
  parse a request and call a service that is modelled.
- *Bots.* The commands of the prompt that only print (`partialFill.ts`; `fill` and `sim` are
  modelled), the withdraw
  timer (it moves only what is owed), seeding and topping up of the wallet, `--force` and
  `--min-margin-sec`, fetching the order book from the exchange.
- *Frontend.* Every page but those of `StakeConfig.tsx`, `DutchAuction.tsx`, `CrossChain.tsx` with
  `CrossChainOrders.tsx`, and the Fillers tab of `Admin.tsx`: the others, the Config and Chain tabs among
  them, list rows and have a wallet sign. They are the
  largest part of the source by lines, together with layout, ABI tables, SQL listings, deployment and
  test scripts, and hold no state that another part depends on.

## 7. Where documents and code disagree

`fund_twice` shows one by a run: `crossChainFill.ts:172` calls the funding of the destination
"idempotent". It is a transfer and then a deploy, and what tells a resumed command that the first was
done is the code at the escrow's address, which only the second creates (lines 217-241): a command
that dies between them sends the output again.

The others were met while reading and modelling:

- *Fallback.* "enforce the order's absolute minOutputAmount against the cumulative total paid across all partial fills plus
  this fallback leg" (`FallbackExecutor.sol:132-133`): the leg is the difference of two balances, so what another order of the
  same swapper and output token pays inside the route is counted for both (`FloorPaid` says how far).
- *Stakes.* `DynamicStakeLib.sol:150-153` says "a larger ceiling is never cheaper than a smaller one";
  a configuration whose rate falls at a size boundary is accepted when none of guardCheck's sampled
  notionals sees it. `FillAuction.sol:156-160` says one call cannot swing the economics by more than
  20%; guardCheck samples one time bucket, so the multiplier of a filler near its deadline can be cut to a
  fifth at once. The indexer of the configuration reads "the live config right after this block" as an
  event's snapshot, which is another one when a rollback follows in the same block; a rollback
  drops a queued configuration without an event; a row written without its snapshot keeps none, because of
  `ON CONFLICT DO NOTHING`. The form submits every field it was loaded with, also those
  changed on the chain since.
- *Cross-chain.* `EscrowSrcFactory.sol:41-47` says a cancelled fill's share is gone for good ("KNOWN OPEN
  GAP"); `EscrowSrc.cancel` calls `restoreRemaining`, which gives it back.
  `crosschainService.ts:13-21` draws a status machine without a way back; `setFillSwapperSig` checks the
  status at line 274 and overwrites it at 296-299, so of two requests under way the second sets a
  locked fill back to `authorized`, from where a cancellation takes it to `slashed` though the diagram has no such arrow, and a revealed one
  is no longer relayed: `StatusFollowsDiagram` names these two steps as the only exceptions. The same diagram has every
  `Filled` advance its row; `recordSrcLocked` asks for the row's filler (line 322), and a slot that another caller filled
  leaves the row `authorized`, without the clone's address, for good. `EscrowSrcFactory.sol:238-244` asks for the swapper's two
  signatures and for no filler: the caller is the clone's payee (line 295), and the driver sends its secret to
  a slot that is filled without looking by whom (`crossChainFill.ts:258-262`). `db/checkpoint.ts:33-34` says events "must be REPLAYED on
  restart, not skipped"; a log whose handler threw is passed by the checkpoint
  (`escrowSrcWatcher.ts:98-112`), and after a restart `floorBlock` forbids reading its block again. Two
  commands that write the secrets file at once lose an entry.
- *Order book.* The indexer's README speaks of "no replay and no gaps"; callbacks that overlap replay, and a
  handler that threw leaves a gap. With two callbacks a late `active` overwrites `filled`, after which the
  expiry watcher shows a sold order as expired; a fill handled late also reopens a cancelled or expired
  row (`eventIndexer.ts:51-56`). `cancelOrder` writes `cancelled` whatever became of the order since it was
  read (`orderService.ts:388-397`). The on-chain `cancelOrder` has no handler. A crash between the
  fallback's transaction and its INSERT loses the row; an order found sold out keeps its lock.
- *Bots.* The optimistic lock is set after two awaits (`executor.ts:159`), and when `register` reverts
  because another callback was first, the amount of this one is kept (`executor.ts:170`).
  An order is dropped after its deadline without releasing the stake (`executor.ts:96-100`). "Never put
  more than half your USDC into one order" (`config.ts`) holds when registering; the execution
  fills the registered amount whatever the wallet holds then. CoWFiller's `strategy.ts:60-61` has it that
  "a 100% match always clears" the minimum fill; the match is of what its inventory can pay for, so it stakes on
  commitments below the order's minimum. A comment in `partialFill.ts:136-148` speaks of the last fill's block;
  the list comes newest first, so the code takes the oldest, which is the right one.
- *Suggestion.* A request for zero blocks divides by zero. Coverage is measured over several rounds, so with
  fillers that come and go the answer need not be the largest minimum.
- *Swap page.* The floor is meant to be "1% below the quote" (`DutchAuction.tsx:20`), but an amount that is
  changed and swapped within the half second before its quote is asked for, or before the answer, signs 1%
  below the previous amount's quote. "Any change to amount/tokens invalidates a prior suggestion" (line 139)
  clears the suggestion's text; the decay and the minimum fill it has set stay and are signed. That decay is for the
  100 blocks `suggest.ts:39` assumes, the form's order runs 200 (line 21), so after half of its
  life its curve is below the signed floor. A read of the previous token's approvals that answers late sets
  the button for the new one (line 98), and switching tokens while the wallet signs enables
  Swap again; a failed read leaves the button idle until the token changes. `doPoll`'s answer for one order
  can be shown on the card of the next.
- *Cross-chain pages.* The sign form has no key, so the minutes typed for one fill are there in the form of the
  next (`CrossChainOrders.tsx:390-393`); what is signed is the earlier of the two T1s all the same. The list is
  polled only while it shows a fill that is not over, and holds the 20 newest orders. A network switch the
  wallet refuses is not asked for again, and the button goes on saying "Switching wallet to" that chain
  (`CrossChain.tsx:255`). Two intents that differ in their
  chains only have one hash, and `createIntent` answers the second with the first's row: its signature is
  then refused, for another chain's factory.
- *Admin.* `fillerRegistry.ts:20` says the seeding is a "no-op once rows exist"; it inserts by name at every start, so a
  seeded filler that was removed comes back. The answer to the edit of one filler closes the form that has been opened for another,
  the answer to an add empties what was typed since. Logging out forgets the token and does not end the session, and a 401
  that answers a call of an old session logs out the new one.
