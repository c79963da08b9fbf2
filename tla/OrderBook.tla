------------------------------- MODULE OrderBook -------------------------------
(***************************************************************************)
(* The backend's picture of the single-chain orders: the orders, fills and *)
(* indexer_state tables, and the four writers that share them: the event   *)
(* indexer (backend/src/indexer/eventIndexer.ts, db/checkpoint.ts), the    *)
(* fallback watcher, the expiry watcher and the order service.             *)
(*                                                                         *)
(* One action is what runs between two awaits: one SQL statement, one      *)
(* request to the chain or one transaction.  The provider announces a      *)
(* block without waiting for the callback of the block before, so those    *)
(* callbacks overlap and share the indexer's three block counters.  The    *)
(* chain is the log of its events, at most one in a block and none undone. *)
(***************************************************************************)
EXTENDS Sequences, FiniteSetsExt, Totals

CONSTANTS
  Orders,
  InputAmount,      \* [Orders -> Nat]
  Deadline,         \* [Orders -> Nat]
  FALLBACK_WINDOW,  \* how close to the deadline the fallback runs, in blocks
  RewindLag,        \* DEV_REWIND_LAG
  BACKFILL,         \* replay a long gap instead of skipping it
  FillAmounts,      \* bound: the chunks fillers buy
  MaxBlock,         \* bound
  Callbacks,        \* bound: how many block callbacks may overlap
  MaxFaults         \* bound: crashes, and indexer calls that throw

ASSUME BookAssumption ==
  /\ InputAmount \in [Orders -> Nat \ {0}] /\ Deadline \in [Orders -> Nat]
  /\ FALLBACK_WINDOW \in Nat /\ RewindLag \in Nat /\ BACKFILL \in BOOLEAN
  /\ FillAmounts \subseteq Nat \ {0}
  /\ MaxBlock \in Nat /\ MaxFaults \in Nat

VARIABLES
  chain,       \* the event of each block
  remaining,   \* what the reactor has left of each order
  txs,         \* fallback transactions sent and not mined
  status,      \* orders.status, "none" without a row
  initiated,   \* the orders with fallback_initiated set
  fills,       \* the fills table
  checkpoint,  \* indexer_state.last_block of each stream
  up,          \* the backend is alive
  announced,   \* the last block the provider announced to it
  last,        \* lastFillBlock, lastFallbackBlock, lastCancelBlock
  cb,          \* the block callbacks under way
  attempting,  \* the fallback watcher's optimistic lock
  job,         \* what the fallback watcher does with each order
  cancelling,  \* orders cancelOrder has found open
  faults,      \* bound
  skipped      \* history: fill events whose INSERT threw

chainVars  == <<chain, remaining, txs>>
tableVars  == <<status, initiated, fills, checkpoint>>
indexVars  == <<announced, last, cb>>
watchVars  == <<attempting, job, cancelling>>
boundVars  == <<faults, skipped>>
bookVars   == <<chainVars, tableVars, up, indexVars, watchVars, boundVars>>

(* The three streams, in the order a callback serves them.                 *)
Stream == <<"fill", "fallback", "invalidate">>
Streams == {Stream[i] : i \in 1..3}

Event == [kind : Streams \cup {"none"}, order : Orders, amount : Nat]
Row   == [id : Nat, order : Orders, amount : Nat,
          source : {"filler", "fallback"}]
Tx    == [order : Orders, amount : Nat, awaited : BOOLEAN]

Open == {"pending", "active"}

Callback == [pc : {"idle", "query", "row", "sum", "status", "save"}, at : Nat,
             stream : 1..3, logs : SUBSET Nat, soldOut : BOOLEAN]
IdleCallback ==
  [pc |-> "idle", at |-> 0, stream |-> 1, logs |-> {}, soldOut |-> FALSE]

Job == [pc : {"idle", "remaining", "wait", "mark", "insert"},
        block : Nat, amount : Nat]
IdleJob == [pc |-> "idle", block |-> 0, amount |-> 0]

(* The first start seeds every checkpoint with the current block: the run  *)
(* begins there.                                                           *)
BookInit ==
  /\ chain = << >> /\ remaining = InputAmount /\ txs = {}
  /\ status = [o \in Orders |-> "none"] /\ initiated = {} /\ fills = {}
  /\ checkpoint = [s \in Streams |-> 0]
  /\ up = TRUE /\ announced = 0
  /\ last = [s \in Streams |-> 0]
  /\ cb = [c \in Callbacks |-> IdleCallback]
  /\ attempting = {} /\ job = [o \in Orders |-> IdleJob]
  /\ cancelling = {}
  /\ faults = 0 /\ skipped = {}

-----------------------------------------------------------------------------
(* The chain.                                                              *)
height == Len(chain)

Invalidated(o) ==
  \E b \in 1..height : chain[b].order = o /\ chain[b].kind = "invalidate"

(* The reactor still takes a sale of the order in the next block.          *)
Sellable(o) ==
  /\ status[o] # "none"
  /\ ~Invalidated(o)
  /\ height < Deadline[o]
  /\ remaining[o] > 0

FallbackDue(o, b) == Deadline[o] - b <= FALLBACK_WINDOW

(* What others may bring about: a fill, a fallback (anyone may execute     *)
(* it), the swapper's invalidateNonce, or a block without an event.        *)
OthersEvent(e) ==
  \/ /\ e.kind = "fill" /\ Sellable(e.order)
     /\ e.amount \in FillAmounts /\ e.amount <= remaining[e.order]
  \/ /\ e.kind = "fallback" /\ Sellable(e.order)
     /\ FallbackDue(e.order, height + 1) /\ e.amount = remaining[e.order]
  \/ /\ e.kind = "invalidate" /\ ~Invalidated(e.order)
     /\ e.amount = 0
  \/ e.kind = "none" /\ e.amount = 0

Emit(e) ==
  /\ chain' = Append(chain, e)
  /\ remaining' = [remaining EXCEPT ![e.order] = @ - e.amount]

NextBlock ==
  /\ height < MaxBlock
  /\ \E kind \in Streams \cup {"none"}, o \in Orders :
     \E amount \in {0, remaining[o]} \cup FillAmounts :
       LET e == [kind |-> kind, order |-> o, amount |-> amount]
       IN  OthersEvent(e) /\ Emit(e)
  /\ UNCHANGED <<txs, tableVars, up, indexVars, watchVars, boundVars>>

(* tx.wait(): the watcher that sent the transaction learns how it went.    *)
Receipt(t, o, j) ==
  job' = IF t.awaited THEN [job EXCEPT ![o] = j] ELSE job

(* The route spends the amount it was quoted for, and fails when another   *)
(* sale came first and less is left to spend.                              *)
MineFallback(t) ==
  /\ height < MaxBlock
  /\ Sellable(t.order) /\ FallbackDue(t.order, height + 1)
  /\ t.amount = remaining[t.order]
  /\ Emit([kind |-> "fallback", order |-> t.order, amount |-> t.amount])
  /\ txs' = txs \ {t}
  /\ Receipt(t, t.order, [pc |-> "mark", block |-> height + 1, amount |-> t.amount])
  /\ UNCHANGED <<tableVars, up, indexVars, attempting, cancelling, boundVars>>

RevertFallback(t) ==
  /\ txs' = txs \ {t}
  /\ Receipt(t, t.order, IdleJob)
  /\ attempting' = IF t.awaited THEN attempting \ {t.order} ELSE attempting
  /\ UNCHANGED <<chain, remaining, tableVars, up, indexVars, cancelling, boundVars>>

-----------------------------------------------------------------------------
(* The order service.                                                      *)

(* The row is keyed by the order's hash: of two requests one fails.        *)
createOrder(o) ==
  /\ up
  /\ status[o] = "none"
  /\ status' = [status EXCEPT ![o] = "pending"]
  /\ UNCHANGED <<chainVars, initiated, fills, checkpoint, up, indexVars,
                 watchVars, boundVars>>

(* cancelOrder reads the status, then writes it whatever became of it.     *)
cancelOrder(o) ==
  /\ up
  /\ status[o] \in Open
  /\ cancelling' = cancelling \cup {o}
  /\ UNCHANGED <<chainVars, tableVars, up, indexVars, attempting, job,
                 boundVars>>

WriteCancelled(o) ==
  /\ up
  /\ o \in cancelling
  /\ cancelling' = cancelling \ {o}
  /\ status' = [status EXCEPT ![o] = "cancelled"]
  /\ UNCHANGED <<chainVars, initiated, fills, checkpoint, up, indexVars,
                 attempting, job, boundVars>>

-----------------------------------------------------------------------------
(* Fault: orders that have been filled in part are forgotten.              *)
ExpireOrders_PendingOnly ==
  /\ up
  /\ status' = [o \in Orders |->
       IF status[o] = "pending" /\ Deadline[o] < height THEN "expired" ELSE status[o]]
  /\ UNCHANGED <<chainVars, initiated, fills, checkpoint, up, indexVars,
                 watchVars, boundVars>>

(* A tick of the expiry watcher: one UPDATE.  The block it compares with   *)
(* was read just before; an older one only expires less.                   *)
ExpireOrders ==
  /\ up
  /\ status' = [o \in Orders |->
       IF status[o] \in Open /\ Deadline[o] < height THEN "expired" ELSE status[o]]
  /\ UNCHANGED <<chainVars, initiated, fills, checkpoint, up, indexVars,
                 watchVars, boundVars>>

-----------------------------------------------------------------------------
(* The fallback watcher.  A tick reads the block, which may be old by one  *)
(* when its rows are selected; the lock keeps a second tick off an order   *)
(* that is in hand, and is given back by an exception alone.               *)
InHand(o, pc) == up /\ job[o].pc = pc

Move(o, pc) == job' = [job EXCEPT ![o].pc = pc]

FallbackSelect(o) ==
  /\ InHand(o, "idle")
  /\ status[o] \in Open /\ o \notin initiated /\ o \notin attempting
  /\ \E b \in {height, height - 1} : FallbackDue(o, b) /\ Deadline[o] >= b
  /\ attempting' = attempting \cup {o}
  /\ Move(o, "remaining")
  /\ UNCHANGED <<chainVars, tableVars, up, indexVars, cancelling, boundVars>>

(* remainingInput, the quote and the transaction: an order that is sold    *)
(* out is skipped, lock kept.  A transaction waits in the pool as long as  *)
(* the quote may take, so they are one step.                               *)
SendFallback(o) ==
  /\ InHand(o, "remaining")
  /\ IF remaining[o] = 0
     THEN job' = [job EXCEPT ![o] = IdleJob] /\ UNCHANGED txs
     ELSE /\ txs' = txs \cup {[order |-> o, amount |-> remaining[o], awaited |-> TRUE]}
          /\ Move(o, "wait")
  /\ UNCHANGED <<chain, remaining, tableVars, up, indexVars, attempting, cancelling, boundVars>>

(* A request throws: the order is let go and may be tried again.           *)
JobFails(o) ==
  /\ up
  /\ job[o].pc \in {"remaining", "mark", "insert"}
  /\ job' = [job EXCEPT ![o] = IdleJob]
  /\ attempting' = attempting \ {o}
  /\ UNCHANGED <<chainVars, tableVars, up, indexVars, cancelling, boundVars>>

MarkFallback(o) ==
  /\ InHand(o, "mark")
  /\ status' = [status EXCEPT ![o] = "filled"]
  /\ initiated' = initiated \cup {o}
  /\ Move(o, "insert")
  /\ UNCHANGED <<chainVars, fills, checkpoint, up, indexVars, attempting,
                 cancelling, boundVars>>

(* Fault: the row shows the order's whole amount.                          *)
InsertFallback_Whole(o) ==
  /\ InHand(o, "insert")
  /\ fills' = fills \cup {[id |-> job[o].block, order |-> o,
                           amount |-> InputAmount[o], source |-> "fallback"]}
  /\ job' = [job EXCEPT ![o] = IdleJob]
  /\ UNCHANGED <<chainVars, status, initiated, checkpoint, up, indexVars,
                 attempting, cancelling, boundVars>>

InsertFallback(o) ==
  /\ InHand(o, "insert")
  /\ fills' = fills \cup {[id |-> job[o].block, order |-> o,
                           amount |-> job[o].amount, source |-> "fallback"]}
  /\ job' = [job EXCEPT ![o] = IdleJob]
  /\ UNCHANGED <<chainVars, status, initiated, checkpoint, up, indexVars,
                 attempting, cancelling, boundVars>>

-----------------------------------------------------------------------------
(* The event indexer.                                                      *)
At(c, pc) == up /\ cb[c].pc = pc

(* queryFilterChunked: the blocks of a range that hold the stream's logs.  *)
Logs(s, from, to) == {b \in from..to : chain[b].kind = s}

(* A callback for block b looks for the next stream, i or later, that is   *)
(* behind b; the range it asks for is fixed here.                          *)
Enter(b, i, lasts) ==
  LET behind == {k \in i..3 : b > lasts[Stream[k]]}
      k      == Min(behind)
  IN  IF behind = {} THEN IdleCallback
      ELSE [IdleCallback EXCEPT !.pc = "query", !.at = b, !.stream = k,
              !.logs = Logs(Stream[k], lasts[Stream[k]] + 1, b)]

FirstStatement(i) == IF Stream[i] = "fill" THEN "row" ELSE "status"

(* On to the handler of the oldest of the logs; after the last the         *)
(* stream's counter moves and its checkpoint is written.                   *)
Handle(c, logs) ==
  IF logs # {}
  THEN /\ cb' = [cb EXCEPT ![c].logs = logs, ![c].soldOut = FALSE,
                           ![c].pc = FirstStatement(cb[c].stream)]
       /\ UNCHANGED last
  ELSE /\ last' = [last EXCEPT ![Stream[cb[c].stream]] = cb[c].at]
       /\ cb' = [cb EXCEPT ![c].pc = "save", ![c].logs = {}, ![c].soldOut = FALSE]

OnBlock(c) ==
  /\ At(c, "idle")
  /\ announced < height
  /\ announced' = announced + 1
  /\ cb' = [cb EXCEPT ![c] = Enter(announced + 1, 1, last)]
  /\ UNCHANGED <<chainVars, tableVars, up, last, watchVars, boundVars>>

ReceiveLogs(c) ==
  /\ At(c, "query")
  /\ Handle(c, cb[c].logs)
  /\ UNCHANGED <<chainVars, tableVars, up, announced, watchVars, boundVars>>

(* The log a callback is handling.                                         *)
Log(c) == Min(cb[c].logs)
LogOrder(c) == chain[Log(c)].order

(* Fault: rows are numbered as they come.                                  *)
RowOf_Serial(b) ==
  [id |-> MaxBlock + Cardinality(fills), order |-> chain[b].order,
   amount |-> chain[b].amount, source |-> "filler"]

(* A row is keyed by its log, so the same log inserts it once.             *)
RowOf(b) ==
  [id |-> b, order |-> chain[b].order, amount |-> chain[b].amount,
   source |-> "filler"]

InsertFill(c) ==
  /\ At(c, "row")
  /\ fills' = fills \cup {RowOf(Log(c))}
  /\ cb' = [cb EXCEPT ![c].pc = "sum"]
  /\ UNCHANGED <<chainVars, status, initiated, checkpoint, up, announced, last,
                 watchVars, boundVars>>

(* The sum of an order's rows.                                             *)
Booked(o) == Total([r \in fills |-> r.amount], {r \in fills : r.order = o})

SumFills(c) ==
  /\ At(c, "sum")
  /\ cb' = [cb EXCEPT ![c].pc = "status",
              ![c].soldOut = Booked(LogOrder(c)) >= InputAmount[LogOrder(c)]]
  /\ UNCHANGED <<chainVars, tableVars, up, announced, last, watchVars, boundVars>>

(* The last statement of each of the three handlers.                       *)
StatusAfter(c) ==
  LET o == LogOrder(c)
  IN  CASE Stream[cb[c].stream] = "fill" ->
             IF cb[c].soldOut THEN "filled" ELSE "active"
        [] Stream[cb[c].stream] = "fallback" -> "filled"
        [] Stream[cb[c].stream] = "invalidate" ->
             IF status[o] \in Open THEN "cancelled" ELSE status[o]

UpdateStatus(c) ==
  /\ At(c, "status")
  /\ status' = [status EXCEPT ![LogOrder(c)] =
                  IF @ = "none" THEN @ ELSE StatusAfter(c)]
  /\ Handle(c, cb[c].logs \ {Log(c)})
  /\ UNCHANGED <<chainVars, initiated, fills, checkpoint, up, announced,
                 watchVars, boundVars>>

(* A handler swallows what its statements throw.                           *)
HandlerFails(c) ==
  /\ up
  /\ cb[c].pc \in {"row", "sum", "status"}
  /\ faults < MaxFaults
  /\ faults' = faults + 1
  /\ skipped' = IF cb[c].pc = "row" THEN skipped \cup {Log(c)} ELSE skipped
  /\ Handle(c, cb[c].logs \ {Log(c)})
  /\ UNCHANGED <<chainVars, tableVars, up, announced, watchVars>>

(* Fault: the checkpoint of the next block is written.                     *)
SaveCheckpoint_Next(c) ==
  /\ At(c, "save")
  /\ checkpoint' = [checkpoint EXCEPT ![Stream[cb[c].stream]] = cb[c].at + 1]
  /\ cb' = [cb EXCEPT ![c] = Enter(cb[c].at, cb[c].stream + 1, last)]
  /\ UNCHANGED <<chainVars, status, initiated, fills, up, announced, last,
                 watchVars, boundVars>>

SaveCheckpoint(c) ==
  /\ At(c, "save")
  /\ checkpoint' = [checkpoint EXCEPT ![Stream[cb[c].stream]] = cb[c].at]
  /\ cb' = [cb EXCEPT ![c] = Enter(cb[c].at, cb[c].stream + 1, last)]
  /\ UNCHANGED <<chainVars, status, initiated, fills, up, announced, last,
                 watchVars, boundVars>>

(* A query or a checkpoint's write that throws ends this stream's turn:    *)
(* what a failed query missed is asked for again at the next block, and a  *)
(* run is bounded so that there is one.                                    *)
TurnFails(c) ==
  /\ up
  /\ cb[c].pc \in {"query", "save"}
  /\ cb[c].pc = "query" => cb[c].at < MaxBlock
  /\ faults < MaxFaults
  /\ faults' = faults + 1
  /\ cb' = [cb EXCEPT ![c] = Enter(cb[c].at, cb[c].stream + 1, last)]
  /\ UNCHANGED <<chainVars, tableVars, up, announced, last, watchVars, skipped>>

-----------------------------------------------------------------------------
(* What is in memory is gone; transactions that were sent stay sent.       *)
Crash ==
  /\ up
  /\ faults < MaxFaults
  /\ faults' = faults + 1
  /\ up' = FALSE
  /\ cb' = [c \in Callbacks |-> IdleCallback]
  /\ job' = [o \in Orders |-> IdleJob]
  /\ attempting' = {} /\ cancelling' = {}
  /\ txs' = {[t EXCEPT !.awaited = FALSE] : t \in txs}
  /\ UNCHANGED <<chain, remaining, tableVars, announced, last, skipped>>

(* Fault: the gap is skipped, as before the outage recovery was written.   *)
resolveCheckpoint_Tip(s) == height

(* resolveCheckpoint on the chain it was last run on.                      *)
resolveCheckpoint(s) ==
  IF checkpoint[s] > height \/ (height - checkpoint[s] > RewindLag /\ ~BACKFILL)
  THEN height ELSE checkpoint[s]

(* startIndexer: the first block announced is the current one.             *)
Restart ==
  /\ ~up
  /\ up' = TRUE
  /\ last' = [s \in Streams |-> resolveCheckpoint(s)]
  /\ checkpoint' = [s \in Streams |-> resolveCheckpoint(s)]
  /\ announced' = IF height = 0 THEN 0 ELSE height - 1
  /\ UNCHANGED <<chainVars, status, initiated, fills, cb, watchVars, boundVars>>

-----------------------------------------------------------------------------
ChainNext == NextBlock \/ \E t \in txs : MineFallback(t) \/ RevertFallback(t)

CallbackNext(c) ==
  \/ ReceiveLogs(c) \/ InsertFill(c) \/ SumFills(c) \/ UpdateStatus(c)
  \/ HandlerFails(c) \/ SaveCheckpoint(c) \/ TurnFails(c)

JobNext(o) ==
  \/ FallbackSelect(o) \/ SendFallback(o)
  \/ JobFails(o) \/ MarkFallback(o) \/ InsertFallback(o)

ServiceNext ==
  \/ \E o \in Orders : createOrder(o) \/ cancelOrder(o) \/ WriteCancelled(o)
  \/ ExpireOrders

BookNext ==
  \/ ChainNext
  \/ \E c \in Callbacks : OnBlock(c) \/ CallbackNext(c)
  \/ \E o \in Orders : JobNext(o)
  \/ ServiceNext
  \/ Crash \/ Restart

BookSpec == BookInit /\ [][BookNext]_bookVars

(* Blocks keep coming and are announced, a callback runs until it is over, *)
(* the expiry timer keeps firing and a backend that died is started again. *)
(* Nothing is assumed of the fallback watcher or of the service's callers. *)
BookFairness ==
  /\ WF_bookVars(NextBlock)
  /\ \A c \in Callbacks : WF_bookVars(OnBlock(c)) /\ WF_bookVars(CallbackNext(c))
  /\ WF_bookVars(ExpireOrders)
  /\ WF_bookVars(Restart)

LiveBook == BookSpec /\ BookFairness

-----------------------------------------------------------------------------
BookTypeOK ==
  /\ chain \in Seq(Event)
  /\ remaining \in [Orders -> Nat]
  /\ txs \subseteq Tx
  /\ status \in [Orders -> Open \cup {"none", "filled", "cancelled", "expired"}]
  /\ initiated \subseteq Orders
  /\ fills \subseteq Row
  /\ checkpoint \in [Streams -> 0..height] /\ last \in [Streams -> 0..height]
  /\ up \in BOOLEAN /\ announced \in 0..height
  /\ cb \in [Callbacks -> Callback]
  /\ \A c \in Callbacks : cb[c].at <= height /\ cb[c].logs \subseteq 1..cb[c].at
  /\ attempting \subseteq Orders /\ job \in [Orders -> Job]
  /\ cancelling \subseteq Orders
  /\ faults \in 0..MaxFaults
  /\ skipped \subseteq 1..height

(* The fills table never shows more of an order as sold than the chain     *)
(* sold: a log that is read twice, by two callbacks or after a restart, is *)
(* booked once, and what the fallback watcher books was really sold,       *)
(* although it was measured two awaits before the sale.                    *)
NeverOverbooked == \A o \in Orders : Booked(o) + remaining[o] <= InputAmount[o]

(* An order shown as filled has nothing left on the chain.                 *)
FilledIsSold == \A o \in Orders : status[o] = "filled" => remaining[o] = 0

(* The fill in block b is booked, unless the handler of its log threw.     *)
HasFill(b) == b \in 1..height /\ chain[b].kind = "fill"
Handled(b) == b \in skipped \/ \E r \in fills : r.id = b /\ r.source = "filler"

(* A checkpoint never passes a fill that was not handled: what a restart   *)
(* does not ask for again is in the table.                                 *)
CheckpointCovers == \A b \in 1..checkpoint["fill"] : HasFill(b) => Handled(b)

(* Why: the counter a callback starts from has passed handled fills alone, *)
(* and up to its own block what is not handled is among its logs.          *)
CounterCovers == \A b \in 1..last["fill"] : HasFill(b) => Handled(b)

CallbackCovers(c) ==
  /\ cb[c].pc \in {"row", "sum", "status"} => cb[c].logs # {}
  /\ cb[c].pc \in {"row", "sum"} => cb[c].stream = 1
  /\ cb[c].pc = "save" => cb[c].logs = {}
  /\ cb[c].pc # "idle" /\ cb[c].stream = 1 =>
       /\ \A b \in 1..cb[c].at : HasFill(b) => Handled(b) \/ b \in cb[c].logs
       /\ cb[c].pc \in {"sum", "status"} => Handled(Log(c))

BookInv ==
  /\ BookTypeOK
  /\ CheckpointCovers
  /\ CounterCovers
  /\ \A c \in Callbacks : CallbackCovers(c)

(* What the chain sold of an order.                                        *)
Sold(o) ==
  Total([b \in 1..height |-> chain[b].amount], {b \in 1..height : chain[b].order = o})

(* Why the book is right about sales: the chain's events add up to what is *)
(* gone, a fallback takes the rest, every row is that of one event, what   *)
(* the watcher is about to book was mined, and a callback that found an    *)
(* order sold out was right about the order its log is of.                 *)
ChainAddsUp == \A o \in Orders : Sold(o) + remaining[o] = InputAmount[o]

FallbackTakesRest ==
  \A b \in 1..height : chain[b].kind = "fallback" => remaining[chain[b].order] = 0

RowsOnChain ==
  \A r \in fills :
    /\ r.id \in 1..height
    /\ chain[r.id].order = r.order /\ chain[r.id].amount = r.amount
    /\ chain[r.id].kind = IF r.source = "filler" THEN "fill" ELSE "fallback"

JobsOnChain ==
  \A o \in Orders : job[o].pc \in {"mark", "insert"} =>
    /\ job[o].block \in 1..height
    /\ chain[job[o].block].order = o /\ chain[job[o].block].amount = job[o].amount
    /\ chain[job[o].block].kind = "fallback"

CallbackReads(c) ==
  /\ \A b \in cb[c].logs : chain[b].kind = Stream[cb[c].stream]
  /\ cb[c].soldOut => cb[c].pc = "status" /\ remaining[LogOrder(c)] = 0

SaleInv ==
  /\ ChainAddsUp /\ FallbackTakesRest /\ RowsOnChain /\ JobsOnChain
  /\ \A c \in Callbacks : CallbackReads(c)
  /\ FilledIsSold

(* Every fill is booked in the end, through outages of the backend.        *)
FillsAreBooked == \A b \in 1..MaxBlock : HasFill(b) ~> Handled(b)

(* An order that is past its deadline ends up closed and stays closed,     *)
(* although a late fill handler may open it again for a while.             *)
Dead(o) == height > Deadline[o] /\ status[o] # "none"
DeadOrdersClose == \A o \in Orders : Dead(o) ~> [](status[o] \notin Open)
=============================================================================
