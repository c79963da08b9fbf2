------------------------------ MODULE OrdersProofs ------------------------------
(***************************************************************************)
(* Proofs about an order's way to the backend and in it: the parameters    *)
(* suggested for it (OrderSuggestion), the form it is signed in (SwapForm),*)
(* its life in the book (OrderBook) and that of its stakes in their table  *)
(* (RegistrationIndex), for any orders, fillers, market rates, numbers of  *)
(* overlapping callbacks, crashes and failing calls.  The four share no    *)
(* state.                                                                  *)
(***************************************************************************)
EXTENDS SwapForm, OrderSuggestion, StakeScheduleProofs, TotalsProofs, OrderBook, RegistrationIndex

(* A set of naturals that is not empty has a least member.                 *)
LEMMA MinOfNaturals ==
  ASSUME NEW S \in SUBSET Nat, S # {}
  PROVE  Min(S) \in S
<1>1. PICK x \in S : \A y \in S : x <= y
  BY LeastExists
<1> QED
  BY <1>1 DEF Min

LEMMA StreamFacts ==
  /\ Streams = {"fill", "fallback", "invalidate"}
  /\ Stream[1] = "fill" /\ Stream[2] = "fallback" /\ Stream[3] = "invalidate"
  /\ \A i \in 1..3 : Stream[i] \in Streams
  /\ \A i \in 1..3 : Stream[i] = "fill" <=> i = 1
  /\ \A i \in 1..3 : FirstStatement(i) = IF i = 1 THEN "row" ELSE "status"
<1>1. Stream[1] = "fill" /\ Stream[2] = "fallback" /\ Stream[3] = "invalidate"
  BY DEF Stream
<1>2. \A i \in 1..3 : i = 1 \/ i = 2 \/ i = 3
  OBVIOUS
<1>3. 1 \in 1..3 /\ 2 \in 1..3 /\ 3 \in 1..3
  OBVIOUS
<1> QED
  BY <1>1, <1>2, <1>3 DEF Streams, FirstStatement

-----------------------------------------------------------------------------
(* What a callback asks for next: its logs reach from the counter of their *)
(* stream to its block.                                                    *)
LEMMA EnterEffect ==
  ASSUME BookTypeOK, NEW b \in 0..height, NEW i \in 1..4
  PROVE  LET r == Enter(b, i, last)
         IN  /\ r \in Callback
             /\ r.at <= height /\ r.logs \subseteq 1..r.at
             /\ r.pc \in {"idle", "query"}
             /\ r.pc # "idle" => r.at = b /\ r.stream >= i
             /\ r.pc # "idle" /\ r.stream = 1 =>
                  \A k \in 1..b : HasFill(k) => k <= last["fill"] \/ k \in r.logs
<1> DEFINE behind == {k \in i..3 : b > last[Stream[k]]}
           k      == Min(behind)
           logs   == Logs(Stream[k], last[Stream[k]] + 1, b)
<1>0. height \in Nat /\ \A s \in Streams : last[s] \in 0..height
  BY DEF BookTypeOK, height
<1>1. CASE behind = {}
  <2>1. Enter(b, i, last) = IdleCallback
    BY <1>1 DEF Enter
  <2> QED
    BY <2>1, <1>0 DEF IdleCallback, Callback
<1>2. CASE behind # {}
  <2>1. k \in behind
    <3>1. behind \in SUBSET Nat
      OBVIOUS
    <3> QED
      BY <1>2, <3>1, MinOfNaturals
  <2>2. k \in 1..3 /\ k >= i
    BY <2>1
  <2>3. Enter(b, i, last) = [pc |-> "query", at |-> b, stream |-> k, logs |-> logs,
                             soldOut |-> FALSE]
    BY <1>2 DEF Enter, IdleCallback
  <2>4. last[Stream[k]] \in 0..height
    <3>1. Stream[k] \in Streams
      BY <2>2, StreamFacts
    <3> QED BY <1>0, <3>1, Zenon
  <2>5. logs \subseteq 1..b
    BY <2>4, <1>0 DEF Logs
  <2>6. k = 1 => \A n \in 1..b : HasFill(n) => n <= last["fill"] \/ n \in logs
    BY <2>4, StreamFacts, <1>0 DEF Logs, HasFill
  <2> QED
    BY <2>2, <2>3, <2>5, <2>6, <1>0 DEF Callback
<1> QED
  BY <1>1, <1>2

(* Handling the rest of the logs: either the next one's first statement is *)
(* due, or the stream is done and its counter moves to the callback's      *)
(* block.                                                                  *)
LEMMA HandleEffect ==
  ASSUME BookTypeOK, NEW c \in Callbacks, NEW logs \in SUBSET (1..cb[c].at), Handle(c, logs)
  PROVE  \E r \in Callback :
           /\ cb' = [cb EXCEPT ![c] = r]
           /\ r.at = cb[c].at /\ r.stream = cb[c].stream /\ r.logs = logs
           /\ \/ /\ logs # {} /\ UNCHANGED last
                 /\ r.pc = IF r.stream = 1 THEN "row" ELSE "status"
              \/ /\ logs = {} /\ r.pc = "save"
                 /\ last' = [last EXCEPT ![Stream[r.stream]] = r.at]
<1>0. cb[c] \in Callback /\ cb \in [Callbacks -> Callback] /\ logs \in SUBSET Nat
  BY DEF BookTypeOK
<1>1. CASE logs # {}
  <2> DEFINE r == [cb[c] EXCEPT !.logs = logs, !.soldOut = FALSE,
                                !.pc = FirstStatement(cb[c].stream)]
  <2>1. cb' = [cb EXCEPT ![c] = r] /\ UNCHANGED last
    BY <1>1, <1>0 DEF Handle
  <2>2. cb[c].stream \in 1..3
    BY <1>0 DEF Callback
  <2>3. FirstStatement(cb[c].stream) = IF cb[c].stream = 1 THEN "row" ELSE "status"
    BY <2>2, StreamFacts
  <2>4. r \in Callback /\ r.at = cb[c].at /\ r.stream = cb[c].stream /\ r.logs = logs
        /\ r.pc = IF r.stream = 1 THEN "row" ELSE "status"
    BY <1>0, <2>3 DEF Callback
  <2> QED
    BY <1>1, <2>1, <2>4
<1>2. CASE logs = {}
  <2> DEFINE r == [cb[c] EXCEPT !.pc = "save", !.logs = {}, !.soldOut = FALSE]
  <2>1. cb' = [cb EXCEPT ![c] = r] /\ last' = [last EXCEPT ![Stream[cb[c].stream]] = cb[c].at]
    BY <1>2, <1>0 DEF Handle
  <2>2. r \in Callback /\ r.at = cb[c].at /\ r.stream = cb[c].stream /\ r.logs = {}
        /\ r.pc = "save"
    BY <1>0 DEF Callback
  <2> QED
    BY <1>2, <2>1, <2>2
<1> QED
  BY <1>1, <1>2

-----------------------------------------------------------------------------
(* What a chain that grows and tables that grow leave as it was.           *)
LEMMA StillHandled ==
  ASSUME fills \subseteq fills', skipped \subseteq skipped', NEW b, Handled(b)
  PROVE  Handled(b)'
BY DEF Handled

LEMMA ChainKeeps ==
  ASSUME chain \in Seq(Event), NEW e, e \in Event, chain' = Append(chain, e)
  PROVE  /\ chain' \in Seq(Event) /\ height \in Nat /\ height' = height + 1
         /\ \A b \in 1..height : chain'[b] = chain[b]
         /\ \A b \in 1..height : HasFill(b)' <=> HasFill(b)
BY DEF HasFill, height

(* A step that leaves the indexer alone, except that the chain may grow    *)
(* and rows may be added, keeps what it covers.                            *)
LEMMA IndexerUntouched ==
  ASSUME BookInv, UNCHANGED <<last, cb, checkpoint, skipped>>, fills \subseteq fills',
         \/ UNCHANGED chain
         \/ \E e \in Event : chain' = Append(chain, e)
  PROVE  /\ CheckpointCovers' /\ CounterCovers'
         /\ \A c \in Callbacks : CallbackCovers(c)'
<1>1. \A b \in 1..height : HasFill(b)' => HasFill(b)
  <2>1. CASE UNCHANGED chain
    BY <2>1 DEF HasFill, height
  <2>2. CASE \E e \in Event : chain' = Append(chain, e)
    BY <2>2, ChainKeeps DEF BookInv, BookTypeOK
  <2> QED
    BY <2>1, <2>2
<1>2. /\ checkpoint["fill"] \in 0..height /\ last["fill"] \in 0..height /\ height \in Nat
      /\ \A c \in Callbacks : cb[c].at \in 0..height
  BY StreamFacts DEF BookInv, BookTypeOK, height, Callback
<1>3. \A b : Handled(b) => Handled(b)'
  BY StillHandled
<1>4. CheckpointCovers' /\ CounterCovers'
  BY <1>1, <1>2, <1>3 DEF BookInv, CheckpointCovers, CounterCovers
<1>5. ASSUME NEW c \in Callbacks
      PROVE  CallbackCovers(c)'
  <2>1. cb[c]' = cb[c] /\ Log(c)' = Log(c) /\ CallbackCovers(c)
    BY DEF BookInv, Log
  <2> QED
    BY <1>1, <1>2, <1>3, <2>1 DEF CallbackCovers
<1> QED
  BY <1>4, <1>5

-----------------------------------------------------------------------------
(* The steps that are not the indexer's.                                   *)
LEMMA HigherTypes ==
  ASSUME BookTypeOK, height' = height + 1, chain' \in Seq(Event),
         UNCHANGED <<tableVars, up, indexVars, boundVars>>
  PROVE  /\ checkpoint' \in [Streams -> 0..height'] /\ last' \in [Streams -> 0..height']
         /\ announced' \in 0..height' /\ skipped' \subseteq 1..height'
         /\ \A c \in Callbacks : cb'[c].at <= height' /\ cb'[c].logs \subseteq 1..cb'[c].at
         /\ UNCHANGED <<status, initiated, fills, up, cb, faults>>
<1>1. height \in Nat
  BY DEF BookTypeOK, height
<1>2. 0..height \subseteq 0..height' /\ 1..height \subseteq 1..height'
  BY <1>1
<1>3. \A c \in Callbacks : cb[c].at \in Nat /\ cb[c].at <= height
  BY DEF BookTypeOK, Callback
<1>4. UNCHANGED <<checkpoint, last, announced, skipped, status, initiated, fills, up, cb, faults>>
  BY DEF tableVars, indexVars, boundVars
<1>5. /\ checkpoint \in [Streams -> 0..height] /\ last \in [Streams -> 0..height]
      /\ announced \in 0..height /\ skipped \subseteq 1..height
      /\ \A c \in Callbacks : cb[c].logs \subseteq 1..cb[c].at
  BY DEF BookTypeOK
<1>6. checkpoint' \in [Streams -> 0..height'] /\ last' \in [Streams -> 0..height']
  BY <1>2, <1>4, <1>5
<1>7. \A c \in Callbacks : cb'[c].at <= height' /\ cb'[c].logs \subseteq 1..cb'[c].at
  BY <1>1, <1>3, <1>4, <1>5
<1> QED
  BY <1>2, <1>4, <1>5, <1>6, <1>7

LEMMA ChainStep ==
  ASSUME BookInv, ChainNext
  PROVE  BookTypeOK' /\ UNCHANGED <<last, cb, checkpoint, skipped, fills>>
         /\ (UNCHANGED chain \/ \E e \in Event : chain' = Append(chain, e))
<1> USE BookAssumption DEF BookInv
<1>1. ASSUME NEW e \in Event, e.amount <= remaining[e.order], Emit(e)
      PROVE  /\ chain' \in Seq(Event) /\ height \in Nat /\ height' = height + 1
             /\ remaining' \in [Orders -> Nat]
  <2>1. chain \in Seq(Event) /\ remaining \in [Orders -> Nat] /\ e.order \in Orders /\ e.amount \in Nat
    BY DEF BookTypeOK, Event
  <2> QED
    BY <1>1, <2>1, ChainKeeps DEF Emit
<1>2. CASE NextBlock
  <2>0. PICK kind \in Streams \cup {"none"}, o \in Orders :
          \E amount \in {0, remaining[o]} \cup FillAmounts :
            LET e == [kind |-> kind, order |-> o, amount |-> amount]
            IN  OthersEvent(e) /\ Emit(e)
    BY <1>2 DEF NextBlock
  <2>1. PICK amount \in {0, remaining[o]} \cup FillAmounts :
          LET e == [kind |-> kind, order |-> o, amount |-> amount]
          IN  OthersEvent(e) /\ Emit(e)
    BY <2>0
  <2> DEFINE e == [kind |-> kind, order |-> o, amount |-> amount]
  <2>2. remaining[o] \in Nat /\ amount \in Nat
    <3>1. remaining \in [Orders -> Nat] /\ FillAmounts \subseteq Nat
      BY BookAssumption DEF BookTypeOK
    <3> QED
      BY <3>1
  <2>3. e \in Event /\ e.amount <= remaining[e.order]
    BY <2>1, <2>2 DEF OthersEvent, Event
  <2>4. Emit(e)
    BY <2>1
  <2>5. UNCHANGED <<txs, tableVars, up, indexVars, watchVars, boundVars>>
    BY <1>2 DEF NextBlock
  <2>6. /\ chain' \in Seq(Event) /\ height \in Nat /\ height' = height + 1
        /\ remaining' \in [Orders -> Nat]
    BY <1>1, <2>3, <2>4
  <2>7. BookTypeOK'
    BY <2>5, <2>6, HigherTypes DEF BookTypeOK, watchVars
  <2> QED
    BY <2>3, <2>4, <2>5, <2>7 DEF Emit, tableVars, indexVars, boundVars
<1>3. ASSUME NEW t \in txs, MineFallback(t)
      PROVE  BookTypeOK' /\ UNCHANGED <<last, cb, checkpoint, skipped, fills>>
             /\ \E e \in Event : chain' = Append(chain, e)
  <2> DEFINE e == [kind |-> "fallback", order |-> t.order, amount |-> t.amount]
             j == [pc |-> "mark", block |-> height + 1, amount |-> t.amount]
  <2>1. t \in Tx /\ t.order \in Orders /\ t.amount \in Nat
    BY DEF BookTypeOK, Tx
  <2>2. e \in Event /\ e.amount <= remaining[e.order] /\ Emit(e)
    BY <1>3, <2>1, StreamFacts DEF MineFallback, Event
  <2>3. /\ chain' \in Seq(Event) /\ height \in Nat /\ height' = height + 1
        /\ remaining' \in [Orders -> Nat]
    BY <1>1, <2>2
  <2>4. job' \in [Orders -> Job]
    BY <1>3, <2>1, <2>3 DEF MineFallback, Receipt, BookTypeOK, Job
  <2>5. UNCHANGED <<tableVars, up, indexVars, attempting, cancelling, boundVars>>
        /\ txs' = txs \ {t}
    BY <1>3 DEF MineFallback
  <2>6. BookTypeOK'
    BY <2>3, <2>4, <2>5, HigherTypes DEF BookTypeOK
  <2> QED
    BY <2>2, <2>5, <2>6 DEF Emit, tableVars, indexVars, boundVars
<1>4. ASSUME NEW t \in txs, RevertFallback(t)
      PROVE  BookTypeOK' /\ UNCHANGED <<last, cb, checkpoint, skipped, fills, chain>>
  <2>1. t.order \in Orders
    BY DEF BookTypeOK, Tx
  <2>2. job' \in [Orders -> Job] /\ attempting' \subseteq Orders /\ txs' \subseteq Tx
    BY <1>4, <2>1 DEF RevertFallback, Receipt, BookTypeOK, Job, IdleJob
  <2> QED
    BY <1>4, <2>2 DEF RevertFallback, BookTypeOK, tableVars, indexVars, boundVars, height
<1> QED
  BY <1>2, <1>3, <1>4 DEF ChainNext, NextBlock, Emit, tableVars, indexVars, boundVars

LEMMA OthersStep ==
  ASSUME BookInv, \/ \E o \in Orders : JobNext(o)
                  \/ ServiceNext
  PROVE  BookTypeOK' /\ UNCHANGED <<last, cb, checkpoint, skipped, chain>> /\ fills \subseteq fills'
<1> USE DEF BookInv
<1> DEFINE untouched == UNCHANGED <<last, cb, checkpoint, skipped, chain>>
<1>1. ASSUME NEW o \in Orders, FallbackSelect(o)
      PROVE  BookTypeOK' /\ untouched /\ fills \subseteq fills'
  BY <1>1 DEF FallbackSelect, InHand, Move, BookTypeOK, Job, chainVars, tableVars, indexVars,
     boundVars, height
<1>2. ASSUME NEW o \in Orders, SendFallback(o)
      PROVE  BookTypeOK' /\ untouched /\ fills \subseteq fills'
  <2>0. job \in [Orders -> Job] /\ job[o] \in Job /\ IdleJob \in Job
        /\ [job[o] EXCEPT !.pc = "wait"] \in Job
    BY DEF BookTypeOK, Job, IdleJob
  <2>1. job' \in [Orders -> Job]
    BY <1>2, <2>0 DEF SendFallback, Move
  <2>2. remaining[o] \in Nat /\ txs \subseteq Tx
    BY DEF BookTypeOK
  <2>3. txs' \subseteq Tx
    <3>1. [order |-> o, amount |-> remaining[o], awaited |-> TRUE] \in Tx
      BY <2>2 DEF Tx
    <3> QED
      BY <1>2, <2>2, <3>1 DEF SendFallback
  <2> QED
    BY <1>2, <2>1, <2>3 DEF SendFallback, BookTypeOK, tableVars, indexVars, boundVars, height
<1>3. ASSUME NEW o \in Orders, JobFails(o)
      PROVE  BookTypeOK' /\ untouched /\ fills \subseteq fills'
  BY <1>3 DEF JobFails, BookTypeOK, Job, IdleJob, chainVars, tableVars, indexVars, boundVars, height
<1>4. ASSUME NEW o \in Orders, MarkFallback(o)
      PROVE  BookTypeOK' /\ untouched /\ fills \subseteq fills'
  BY <1>4 DEF MarkFallback, InHand, Move, BookTypeOK, Job, chainVars, indexVars, boundVars, height
<1>5. ASSUME NEW o \in Orders, InsertFallback(o)
      PROVE  BookTypeOK' /\ untouched /\ fills \subseteq fills'
  <2>1. job' \in [Orders -> Job] /\ fills' \subseteq Row
    BY <1>5 DEF InsertFallback, BookTypeOK, Job, IdleJob, Row
  <2> QED
    BY <1>5, <2>1 DEF InsertFallback, BookTypeOK, chainVars, indexVars, boundVars, height
<1>6. ASSUME NEW o \in Orders, createOrder(o) \/ cancelOrder(o) \/ WriteCancelled(o)
      PROVE  BookTypeOK' /\ untouched /\ fills \subseteq fills'
  <2>1. CASE createOrder(o)
    BY <2>1 DEF createOrder, BookTypeOK, Open, chainVars, indexVars, watchVars, boundVars, height
  <2>2. CASE cancelOrder(o)
    BY <2>2 DEF cancelOrder, BookTypeOK, chainVars, tableVars, indexVars, boundVars, height
  <2>3. CASE WriteCancelled(o)
    BY <2>3 DEF WriteCancelled, BookTypeOK, chainVars, indexVars, boundVars, height
  <2> QED
    BY <1>6, <2>1, <2>2, <2>3
<1>7. CASE ExpireOrders
  <2>1. status' \in [Orders -> Open \cup {"none", "filled", "cancelled", "expired"}]
    BY <1>7 DEF ExpireOrders, BookTypeOK
  <2> QED
    BY <1>7, <2>1 DEF ExpireOrders, BookTypeOK, chainVars, indexVars, watchVars, boundVars, height
<1> QED
  BY <1>1, <1>2, <1>3, <1>4, <1>5, <1>6, <1>7 DEF JobNext, ServiceNext

-----------------------------------------------------------------------------
(* The indexer's own steps.  The counters are not above the chain, and the *)
(* rest of a callback's logs is a set of blocks up to its own.             *)
LEMMA IndexerFacts ==
  ASSUME BookInv
  PROVE  /\ height \in Nat /\ last["fill"] \in 0..height /\ checkpoint["fill"] \in 0..height
         /\ \A s \in Streams : last[s] \in 0..height /\ checkpoint[s] \in 0..height
         /\ \A c \in Callbacks :
              /\ cb[c] \in Callback /\ cb[c].at \in 0..height /\ cb[c].stream \in 1..3
              /\ cb[c].logs \in SUBSET (1..cb[c].at)
              /\ Stream[cb[c].stream] \in Streams
BY StreamFacts DEF BookInv, BookTypeOK, height, Callback

LEMMA LogFacts ==
  ASSUME BookInv, NEW c \in Callbacks, cb[c].pc \in {"row", "sum", "status"}
  PROVE  /\ Log(c) \in cb[c].logs /\ Log(c) \in 1..height /\ chain[Log(c)] \in Event
         /\ LogOrder(c) \in Orders /\ chain[Log(c)].amount \in Nat
<1>1. cb[c].logs # {} /\ cb[c].logs \in SUBSET Nat /\ cb[c].logs \subseteq 1..height
  BY IndexerFacts DEF BookInv, CallbackCovers
<1>2. Log(c) \in cb[c].logs
  BY <1>1, MinOfNaturals DEF Log
<1>3. chain \in Seq(Event) /\ Log(c) \in 1..Len(chain)
  BY <1>1, <1>2 DEF BookInv, BookTypeOK, height
<1>4. chain[Log(c)] \in Event
  BY <1>3
<1> QED
  BY <1>2, <1>3, <1>4 DEF LogOrder, Event, height

(* Starting on a stream, or going on to the next.                          *)
LEMMA EnterStep ==
  ASSUME BookInv, NEW c \in Callbacks, NEW b \in 0..height, NEW i \in 1..4,
         cb' = [cb EXCEPT ![c] = Enter(b, i, last)],
         UNCHANGED <<chain, fills, skipped, last>>,
         checkpoint' \in [Streams -> 0..height], CheckpointCovers',
         announced' \in 0..height, faults' \in 0..MaxFaults,
         UNCHANGED <<remaining, txs, status, initiated, up, watchVars>>
  PROVE  BookInv'
<1> DEFINE r == Enter(b, i, last)
<1>1. /\ r \in Callback /\ r.at <= height /\ r.logs \subseteq 1..r.at
      /\ r.pc \in {"idle", "query"}
      /\ r.pc # "idle" => r.at = b
      /\ r.pc # "idle" /\ r.stream = 1 =>
           \A k \in 1..b : HasFill(k) => k <= last["fill"] \/ k \in r.logs
  BY EnterEffect DEF BookInv
<1> HIDE DEF r
<1>2. height' = height
  BY DEF height
<1>3. BookTypeOK'
  <2>1. cb' \in [Callbacks -> Callback]
    BY <1>1 DEF BookInv, BookTypeOK, r
  <2>2. \A d \in Callbacks : cb'[d].at <= height /\ cb'[d].logs \subseteq 1..cb'[d].at
    BY <1>1 DEF BookInv, BookTypeOK, r
  <2> QED
    BY <1>2, <2>1, <2>2 DEF BookInv, BookTypeOK, watchVars
<1>4. \A k : Handled(k)' = Handled(k) /\ HasFill(k)' = HasFill(k)
  BY DEF Handled, HasFill, height
<1>5. CounterCovers'
  BY <1>4 DEF BookInv, CounterCovers
<1>6. ASSUME NEW d \in Callbacks
      PROVE  CallbackCovers(d)'
  <2>1. CASE d = c
    <3>1. cb'[c] = r
      BY DEF BookInv, BookTypeOK, r
    <3>2. \A k \in 1..b : k <= last["fill"] /\ HasFill(k) => Handled(k)
      BY IndexerFacts DEF BookInv, CounterCovers
    <3> QED
      BY <1>1, <1>4, <2>1, <3>1, <3>2 DEF CallbackCovers
  <2>2. CASE d # c
    <3>1. cb'[d] = cb[d] /\ Log(d)' = Log(d) /\ CallbackCovers(d)
      BY <2>2 DEF BookInv, BookTypeOK, Log
    <3> QED
      BY <1>4, <3>1 DEF CallbackCovers
  <2> QED
    BY <2>1, <2>2
<1> QED
  BY <1>3, <1>5, <1>6 DEF BookInv

(* Handling the rest of the logs, when those left behind are handled.      *)
LEMMA HandleStep ==
  ASSUME BookInv, NEW c \in Callbacks, NEW logs \in SUBSET cb[c].logs, Handle(c, logs),
         cb[c].pc \in {"query", "row", "sum", "status"},
         UNCHANGED <<chain, fills>>, skipped \subseteq skipped', skipped' \subseteq 1..height,
         cb[c].stream = 1 => \A b \in cb[c].logs \ logs : HasFill(b) => Handled(b)',
         status' \in [Orders -> Open \cup {"none", "filled", "cancelled", "expired"}],
         faults' \in 0..MaxFaults,
         UNCHANGED <<remaining, txs, initiated, checkpoint, up, announced, watchVars>>
  PROVE  BookInv'
<1>1. PICK r \in Callback :
        /\ cb' = [cb EXCEPT ![c] = r]
        /\ r.at = cb[c].at /\ r.stream = cb[c].stream /\ r.logs = logs
        /\ \/ /\ logs # {} /\ UNCHANGED last
              /\ r.pc = IF r.stream = 1 THEN "row" ELSE "status"
           \/ /\ logs = {} /\ r.pc = "save"
              /\ last' = [last EXCEPT ![Stream[r.stream]] = r.at]
  <2>1. logs \in SUBSET (1..cb[c].at) /\ BookTypeOK
    BY IndexerFacts DEF BookInv
  <2> QED
    BY <2>1, HandleEffect
<1>2. height' = height /\ \A k : HasFill(k)' = HasFill(k)
  BY DEF height, HasFill
<1>3. \A k : Handled(k) => Handled(k)'
  BY StillHandled
<1>4. /\ height \in Nat /\ r.at \in 0..height /\ r.stream \in 1..3
      /\ Stream[r.stream] \in Streams /\ logs \subseteq 1..r.at
      /\ cb \in [Callbacks -> Callback] /\ last \in [Streams -> 0..height]
  BY <1>1, IndexerFacts DEF BookInv, BookTypeOK
<1>5. BookTypeOK'
  <2>1. cb' \in [Callbacks -> Callback]
    BY <1>1, <1>4
  <2>2. \A d \in Callbacks : cb'[d].at <= height /\ cb'[d].logs \subseteq 1..cb'[d].at
    BY <1>1, <1>4 DEF BookInv, BookTypeOK
  <2>3. last' \in [Streams -> 0..height]
    BY <1>1, <1>4
  <2> QED
    BY <1>2, <2>1, <2>2, <2>3 DEF BookInv, BookTypeOK, watchVars
<1>6. r.stream = 1 => \A b \in 1..r.at : HasFill(b) => Handled(b)' \/ b \in logs
  <2>1. CallbackCovers(c)
    BY DEF BookInv
  <2>2. r.stream = 1 => \A b \in 1..r.at : HasFill(b) => Handled(b) \/ b \in cb[c].logs
    BY <1>1, <2>1 DEF CallbackCovers
  <2> QED
    BY <1>1, <1>3, <2>2
<1>7. CounterCovers'
  <2>1. \A b \in 1..last["fill"] : HasFill(b) => Handled(b)'
    BY <1>3 DEF BookInv, CounterCovers
  <2>2. CASE last'["fill"] = last["fill"]
    BY <1>2, <2>1, <2>2 DEF CounterCovers
  <2>3. CASE last'["fill"] # last["fill"]
    <3>1. r.stream = 1 /\ logs = {} /\ last'["fill"] = r.at
      BY <1>1, <1>4, <2>3, StreamFacts
    <3> QED
      BY <1>2, <1>6, <3>1 DEF CounterCovers
  <2> QED
    BY <2>2, <2>3
<1>8. CheckpointCovers'
  BY <1>2, <1>3 DEF BookInv, CheckpointCovers
<1>9. ASSUME NEW d \in Callbacks
      PROVE  CallbackCovers(d)'
  <2>1. CASE d = c
    <3>1. cb'[c] = r
      BY <1>1, <1>4
    <3>2. r.pc \notin {"sum"} /\ (r.stream = 1 => r.pc # "status")
      BY <1>1
    <3> QED
      BY <1>1, <1>2, <1>6, <2>1, <3>1, <3>2 DEF CallbackCovers
  <2>2. CASE d # c
    <3>1. cb'[d] = cb[d] /\ Log(d)' = Log(d) /\ CallbackCovers(d)
      BY <1>1, <1>4, <2>2 DEF BookInv, Log
    <3> QED
      BY <1>2, <1>3, <3>1 DEF CallbackCovers
  <2> QED
    BY <2>1, <2>2
<1> QED
  BY <1>5, <1>7, <1>8, <1>9 DEF BookInv

LEMMA IndexerStep ==
  ASSUME BookInv, NEW c \in Callbacks, OnBlock(c) \/ CallbackNext(c)
  PROVE  BookInv'
<1> DEFINE logs == cb[c].logs
           rest == cb[c].logs \ {Log(c)}
<1>0. /\ height \in Nat /\ faults \in 0..MaxFaults /\ MaxFaults \in Nat
      /\ announced \in 0..height /\ skipped \subseteq 1..height
      /\ checkpoint \in [Streams -> 0..height] /\ CheckpointCovers /\ CallbackCovers(c)
      /\ status \in [Orders -> Open \cup {"none", "filled", "cancelled", "expired"}]
      /\ cb[c].at \in 0..height /\ cb[c].stream \in 1..3 /\ cb[c].stream + 1 \in 1..4
      /\ rest \in SUBSET cb[c].logs
  <2>1. /\ height \in Nat /\ cb[c].at \in 0..height /\ cb[c].stream \in 1..3
    BY IndexerFacts
  <2>2. /\ faults \in 0..MaxFaults /\ announced \in 0..height /\ skipped \subseteq 1..height
        /\ checkpoint \in [Streams -> 0..height] /\ CheckpointCovers /\ CallbackCovers(c)
        /\ status \in [Orders -> Open \cup {"none", "filled", "cancelled", "expired"}]
    BY Zenon DEF BookInv, BookTypeOK
  <2>3. MaxFaults \in Nat
    BY BookAssumption
  <2>4. cb[c].stream + 1 \in 1..4
    BY <2>1
  <2> QED BY <2>1, <2>2, <2>3, <2>4, Zenon
<1>1. UNCHANGED <<checkpoint, chain, fills, skipped>> => CheckpointCovers'
  BY <1>0 DEF CheckpointCovers, HasFill, Handled, height
<1>2. CASE OnBlock(c)
  <2>1. announced + 1 \in 0..height /\ 1 \in 1..4
    BY <1>0, <1>2 DEF OnBlock
  <2>2. /\ cb' = [cb EXCEPT ![c] = Enter(announced + 1, 1, last)]
        /\ announced' = announced + 1
        /\ UNCHANGED <<chain, fills, skipped, last, checkpoint, faults, remaining, txs, status,
                       initiated, up, watchVars>>
    BY <1>2 DEF OnBlock, chainVars, tableVars, boundVars
  <2> QED
    BY <1>0, <1>1, <2>1, <2>2, EnterStep
<1>3. CASE ReceiveLogs(c)
  <2>1. /\ Handle(c, logs) /\ cb[c].pc = "query"
        /\ UNCHANGED <<chain, fills, skipped, checkpoint, faults, remaining, txs, status,
                       initiated, up, announced, watchVars>>
    BY <1>3 DEF ReceiveLogs, At, chainVars, tableVars, boundVars
  <2>2. \A b \in cb[c].logs \ logs : HasFill(b) => Handled(b)'
    OBVIOUS
  <2> QED
    BY <1>0, <2>1, <2>2, HandleStep
<1>4. CASE InsertFill(c)
  <2> DEFINE row == RowOf(Log(c))
             r   == [cb[c] EXCEPT !.pc = "sum"]
  <2>1. /\ cb[c].pc = "row" /\ fills' = fills \cup {row} /\ cb' = [cb EXCEPT ![c] = r]
        /\ UNCHANGED <<chain, remaining, txs, status, initiated, checkpoint, up, announced, last,
                       watchVars, faults, skipped>>
    BY <1>4 DEF InsertFill, At, chainVars, boundVars
  <2>2. row \in Row /\ row.id = Log(c) /\ row.source = "filler"
    BY <1>0, <2>1, LogFacts DEF RowOf, Row, LogOrder
  <2>3. /\ cb \in [Callbacks -> Callback] /\ r \in Callback
        /\ r.at = cb[c].at /\ r.logs = cb[c].logs /\ r.stream = cb[c].stream /\ r.pc = "sum"
    BY DEF BookInv, BookTypeOK, Callback
  <2>4. /\ height' = height /\ \A k : HasFill(k)' = HasFill(k)
        /\ \A k : Handled(k) => Handled(k)'
        /\ Handled(Log(c))'
    <3>1. row \in fills' /\ fills \subseteq fills' /\ skipped' = skipped
      BY <2>1
    <3>2. Handled(Log(c))'
      <4>1. Log(c)' = Log(c)
        BY <2>1, <2>3 DEF Log
      <4> QED
        BY <2>2, <3>1, <4>1 DEF Handled
    <3> QED
      BY <2>1, <3>1, <3>2, StillHandled DEF height, HasFill
  <2>5. BookTypeOK'
    <3>1. cb' \in [Callbacks -> Callback]
      BY <2>1, <2>3
    <3>2. \A d \in Callbacks : cb'[d].at <= height /\ cb'[d].logs \subseteq 1..cb'[d].at
      BY <2>1, <2>3 DEF BookInv, BookTypeOK
    <3> QED
      BY <2>1, <2>2, <2>4, <3>1, <3>2 DEF BookInv, BookTypeOK, watchVars
  <2>6. CheckpointCovers' /\ CounterCovers'
    BY <2>1, <2>4 DEF BookInv, CheckpointCovers, CounterCovers
  <2>7. ASSUME NEW d \in Callbacks
        PROVE  CallbackCovers(d)'
    <3>1. CallbackCovers(d) /\ Log(d)' = Log(d)
      BY <2>1, <2>3 DEF BookInv, Log
    <3>2. CASE d = c
      BY <2>1, <2>3, <2>4, <3>1, <3>2 DEF CallbackCovers
    <3>3. CASE d # c
      BY <2>1, <2>3, <2>4, <3>1, <3>3 DEF CallbackCovers
    <3> QED
      BY <3>2, <3>3
  <2> QED
    BY <2>5, <2>6, <2>7 DEF BookInv
<1>5. CASE SumFills(c)
  <2> DEFINE r == [cb[c] EXCEPT !.pc = "status",
                     !.soldOut = Booked(LogOrder(c)) >= InputAmount[LogOrder(c)]]
  <2>1. /\ cb[c].pc = "sum" /\ cb' = [cb EXCEPT ![c] = r]
        /\ UNCHANGED <<chainVars, tableVars, up, announced, last, watchVars, boundVars>>
    BY <1>5 DEF SumFills, At
  <2>2. /\ cb \in [Callbacks -> Callback] /\ r \in Callback
        /\ r.at = cb[c].at /\ r.logs = cb[c].logs /\ r.stream = cb[c].stream /\ r.pc = "status"
    <3>1. (Booked(LogOrder(c)) >= InputAmount[LogOrder(c)]) \in BOOLEAN
      OBVIOUS
    <3>2. cb \in [Callbacks -> Callback] /\ cb[c] \in Callback
      BY DEF BookInv, BookTypeOK
    <3> QED
      BY <3>1, <3>2 DEF Callback
  <2> HIDE DEF r
  <2>3. /\ UNCHANGED <<chain, remaining, txs, fills, skipped, checkpoint, faults, status,
                       initiated, up, announced, last, watchVars>>
        /\ height' = height
        /\ \A k : HasFill(k)' = HasFill(k) /\ Handled(k)' = Handled(k)
    BY <2>1 DEF height, HasFill, Handled, chainVars, tableVars, boundVars
  <2>4. BookTypeOK'
    <3>1. cb' \in [Callbacks -> Callback]
      BY <2>1, <2>2
    <3>2. \A d \in Callbacks : cb'[d].at <= height /\ cb'[d].logs \subseteq 1..cb'[d].at
      BY <2>1, <2>2 DEF BookInv, BookTypeOK
    <3> QED
      BY <2>3, <3>1, <3>2 DEF BookInv, BookTypeOK, watchVars
  <2>5. CheckpointCovers' /\ CounterCovers'
    BY <2>3 DEF BookInv, CheckpointCovers, CounterCovers
  <2>6. ASSUME NEW d \in Callbacks
        PROVE  CallbackCovers(d)'
    <3>1. CallbackCovers(d) /\ Log(d)' = Log(d)
      BY <2>1, <2>2 DEF BookInv, Log
    <3>2. CASE d = c
      BY <2>1, <2>2, <2>3, <3>1, <3>2 DEF CallbackCovers
    <3>3. CASE d # c
      BY <2>1, <2>2, <2>3, <3>1, <3>3 DEF CallbackCovers
    <3> QED
      BY <3>2, <3>3
  <2> QED
    BY <2>4, <2>5, <2>6 DEF BookInv
<1>6. CASE UpdateStatus(c)
  <2>1. /\ Handle(c, rest) /\ cb[c].pc = "status"
        /\ UNCHANGED <<chain, fills, skipped, checkpoint, faults, remaining, txs,
                       initiated, up, announced, watchVars>>
    BY <1>6 DEF UpdateStatus, At, chainVars, boundVars
  <2>2. status' \in [Orders -> Open \cup {"none", "filled", "cancelled", "expired"}]
    <3>1. LogOrder(c) \in Orders
      BY <2>1, LogFacts
    <3>2. StatusAfter(c) \in Open \cup {"none", "filled", "cancelled", "expired"}
      <4>1. Stream[cb[c].stream] \in {"fill", "fallback", "invalidate"}
        BY <1>0, StreamFacts
      <4>2. status[LogOrder(c)] \in Open \cup {"none", "filled", "cancelled", "expired"}
        BY <1>0, <3>1
      <4> QED
        BY <4>1, <4>2 DEF StatusAfter, Open
    <3> QED
      BY <1>0, <1>6, <3>1, <3>2 DEF UpdateStatus
  <2>3. cb[c].stream = 1 => \A b \in cb[c].logs \ rest : HasFill(b) => Handled(b)'
    BY <1>0, <2>1, StillHandled DEF CallbackCovers
  <2> QED
    BY <1>0, <2>1, <2>2, <2>3, HandleStep
<1>7. CASE HandlerFails(c)
  <2>1. /\ Handle(c, rest) /\ cb[c].pc \in {"row", "sum", "status"} /\ faults' \in 0..MaxFaults
        /\ skipped' = IF cb[c].pc = "row" THEN skipped \cup {Log(c)} ELSE skipped
        /\ UNCHANGED <<chain, fills, checkpoint, remaining, txs, status, initiated, up,
                       announced, watchVars>>
    BY <1>0, <1>7 DEF HandlerFails, chainVars, tableVars
  <2>2. skipped \subseteq skipped' /\ skipped' \subseteq 1..height
    BY <1>0, <2>1, LogFacts
  <2>3. cb[c].stream = 1 => \A b \in cb[c].logs \ rest : HasFill(b) => Handled(b)'
    <3>1. CASE cb[c].pc = "row"
      BY <2>1, <3>1 DEF Handled
    <3>2. CASE cb[c].pc # "row"
      BY <1>0, <2>1, <2>2, <3>2, StillHandled DEF CallbackCovers
    <3> QED
      BY <3>1, <3>2
  <2> QED
    BY <1>0, <2>1, <2>2, <2>3, HandleStep
<1>8. CASE SaveCheckpoint(c)
  <2>1. /\ cb[c].pc = "save"
        /\ checkpoint' = [checkpoint EXCEPT ![Stream[cb[c].stream]] = cb[c].at]
        /\ cb' = [cb EXCEPT ![c] = Enter(cb[c].at, cb[c].stream + 1, last)]
        /\ UNCHANGED <<chain, fills, skipped, last, faults, remaining, txs, status,
                       initiated, up, announced, watchVars>>
    BY <1>8 DEF SaveCheckpoint, At, chainVars, boundVars
  <2>2. checkpoint' \in [Streams -> 0..height]
    BY <1>0, <2>1
  <2>3. CheckpointCovers'
    <3>1. \A k : HasFill(k)' = HasFill(k) /\ Handled(k)' = Handled(k)
      BY <2>1 DEF HasFill, Handled, height
    <3>2. CASE cb[c].stream = 1
      <4>1. checkpoint'["fill"] = cb[c].at
        BY <1>0, <2>1, <3>2, StreamFacts
      <4>2. \A b \in 1..cb[c].at : HasFill(b) => Handled(b) \/ b \in cb[c].logs
        BY <1>0, <2>1, <3>2 DEF CallbackCovers
      <4>3. cb[c].logs = {}
        BY <1>0, <2>1 DEF CallbackCovers
      <4> QED
        BY <3>1, <4>1, <4>2, <4>3 DEF CheckpointCovers
    <3>3. CASE cb[c].stream # 1
      <4>1. checkpoint'["fill"] = checkpoint["fill"]
        BY <1>0, <2>1, <3>3, StreamFacts
      <4> QED
        BY <1>0, <3>1, <4>1 DEF CheckpointCovers
    <3> QED
      BY <3>2, <3>3
  <2> QED
    BY <1>0, <2>1, <2>2, <2>3, EnterStep
<1>9. CASE TurnFails(c)
  <2>1. /\ cb' = [cb EXCEPT ![c] = Enter(cb[c].at, cb[c].stream + 1, last)]
        /\ faults' \in 0..MaxFaults
        /\ UNCHANGED <<chain, fills, skipped, last, checkpoint, remaining, txs, status,
                       initiated, up, announced, watchVars>>
    BY <1>0, <1>9 DEF TurnFails, chainVars, tableVars
  <2> QED
    BY <1>0, <1>1, <2>1, EnterStep
<1> QED
  BY <1>2, <1>3, <1>4, <1>5, <1>6, <1>7, <1>8, <1>9 DEF CallbackNext

-----------------------------------------------------------------------------
(* A crash keeps the tables; a restart takes its counters from them.       *)
LEMMA CrashStep ==
  ASSUME BookInv, Crash
  PROVE  BookInv'
<1>1. /\ cb' = [c \in Callbacks |-> IdleCallback] /\ job' = [o \in Orders |-> IdleJob]
      /\ up' = FALSE /\ attempting' = {} /\ cancelling' = {} /\ faults' \in 0..MaxFaults
      /\ txs' = {[t EXCEPT !.awaited = FALSE] : t \in txs}
      /\ UNCHANGED <<chain, remaining, status, initiated, fills, checkpoint, announced, last,
                     skipped>>
  BY BookAssumption DEF Crash, tableVars, BookInv, BookTypeOK
<1>2. height' = height /\ height \in Nat
  BY <1>1 DEF height, BookInv, BookTypeOK
<1>3. txs' \subseteq Tx
  <2>1. \A t \in Tx : [t EXCEPT !.awaited = FALSE] \in Tx
    BY DEF Tx
  <2> QED
    BY <1>1, <2>1 DEF BookInv, BookTypeOK
<1>4. BookTypeOK'
  <2>1. IdleCallback \in Callback /\ IdleCallback.at = 0 /\ IdleCallback.logs = {}
        /\ IdleJob \in Job
    BY DEF IdleCallback, Callback, IdleJob, Job
  <2>2. /\ cb' \in [Callbacks -> Callback] /\ job' \in [Orders -> Job]
        /\ \A c \in Callbacks : cb'[c].at <= height /\ cb'[c].logs \subseteq 1..cb'[c].at
    BY <1>1, <1>2, <2>1
  <2> QED
    BY <1>1, <1>2, <1>3, <2>2 DEF BookInv, BookTypeOK
<1>5. CheckpointCovers' /\ CounterCovers'
  BY <1>1 DEF BookInv, CheckpointCovers, CounterCovers, HasFill, Handled, height
<1>6. \A c \in Callbacks : CallbackCovers(c)'
  BY <1>1 DEF CallbackCovers, IdleCallback
<1> QED
  BY <1>4, <1>5, <1>6 DEF BookInv

LEMMA RestartStep ==
  ASSUME BookInv, Restart, BACKFILL
  PROVE  BookInv'
<1>1. \A s \in Streams : resolveCheckpoint(s) = checkpoint[s]
  <2>1. \A s \in Streams : ~(checkpoint[s] > height)
    BY IndexerFacts
  <2> QED
    BY <2>1 DEF resolveCheckpoint
<1>2. checkpoint \in [Streams -> 0..height]
  BY DEF BookInv, BookTypeOK
<1>3. [s \in Streams |-> resolveCheckpoint(s)] = checkpoint
  BY <1>1, <1>2
<1>4. /\ last' = checkpoint /\ checkpoint' = checkpoint /\ up' = TRUE
      /\ announced' = IF height = 0 THEN 0 ELSE height - 1
      /\ UNCHANGED <<chain, remaining, txs, status, initiated, fills, cb, watchVars, faults,
                     skipped>>
  BY <1>3 DEF Restart, chainVars, boundVars
<1>5. height' = height /\ height \in Nat
  BY <1>4 DEF height, BookInv, BookTypeOK
<1>6. BookTypeOK'
  BY <1>2, <1>4, <1>5 DEF BookInv, BookTypeOK, watchVars
<1>7. \A k : HasFill(k)' = HasFill(k) /\ Handled(k)' = Handled(k)
  BY <1>4 DEF HasFill, Handled, height
<1>8. CheckpointCovers' /\ CounterCovers'
  BY <1>4, <1>7 DEF BookInv, CheckpointCovers, CounterCovers
<1>9. ASSUME NEW c \in Callbacks
      PROVE  CallbackCovers(c)'
  <2>1. CallbackCovers(c) /\ Log(c)' = Log(c) /\ cb' = cb
    BY <1>4 DEF BookInv, Log
  <2> QED
    BY <1>7, <2>1 DEF CallbackCovers
<1> QED
  BY <1>6, <1>8, <1>9 DEF BookInv

LEMMA BookInitInv ==
  ASSUME BookInit
  PROVE  BookInv
<1>1. chain = << >> /\ height = 0
  BY DEF BookInit, height
<1>2. BookTypeOK
  BY <1>1, BookAssumption, StreamFacts
     DEF BookInit, BookTypeOK, IdleCallback, Callback, IdleJob, Job, Event
<1>3. CheckpointCovers /\ CounterCovers
  BY <1>1 DEF CheckpointCovers, CounterCovers, HasFill
<1>4. \A c \in Callbacks : CallbackCovers(c)
  BY DEF BookInit, CallbackCovers, IdleCallback
<1> QED
  BY <1>2, <1>3, <1>4 DEF BookInv

LEMMA BookStep ==
  ASSUME BookInv, [BookNext]_bookVars, BACKFILL
  PROVE  BookInv'
<1>1. CASE ChainNext
  BY <1>1, ChainStep, IndexerUntouched DEF BookInv
<1>2. ASSUME NEW c \in Callbacks, OnBlock(c) \/ CallbackNext(c)
      PROVE  BookInv'
  BY <1>2, IndexerStep
<1>3. CASE (\E o \in Orders : JobNext(o)) \/ ServiceNext
  BY <1>3, OthersStep, IndexerUntouched DEF BookInv
<1>4. CASE Crash \/ Restart
  BY <1>4, CrashStep, RestartStep
<1>5. CASE UNCHANGED bookVars
  <2>1. UNCHANGED <<chain, remaining, txs, status, initiated, fills, checkpoint, up, announced,
                    last, cb, attempting, job, cancelling, faults, skipped>>
    BY <1>5 DEF bookVars, chainVars, tableVars, indexVars, watchVars, boundVars
  <2>2. BookTypeOK'
    BY <2>1 DEF BookInv, BookTypeOK, height
  <2> QED
    BY <2>1, <2>2, IndexerUntouched DEF BookInv
<1> QED
  BY <1>1, <1>2, <1>3, <1>4, <1>5 DEF BookNext

(* What eventIndexer.ts, checkpoint.ts and the watchers keep in memory and *)
(* in the tables has the declared types in every behaviour.                *)
THEOREM BookTypes ==
  ASSUME BACKFILL
  PROVE  BookSpec => []BookTypeOK
<1>1. BookInv /\ [BookNext]_bookVars => BookInv'
  BY BookStep
<1>2. BookInv => BookTypeOK
  BY DEF BookInv
<1> QED
  BY <1>1, <1>2, BookInitInv, PTL DEF BookSpec

(* A checkpoint of the event indexer never passes a fill its handler has   *)
(* not dealt with: with backfill on, restarts lose nothing, however many   *)
(* callbacks overlap (eventIndexer.ts, checkpoint.ts).                     *)
THEOREM RestartsLoseNoFill ==
  ASSUME BACKFILL
  PROVE  BookSpec => []CheckpointCovers
<1>1. BookInv /\ [BookNext]_bookVars => BookInv'
  BY BookStep
<1>2. BookInv => CheckpointCovers
  BY DEF BookInv
<1> QED
  BY <1>1, <1>2, BookInitInv, PTL DEF BookSpec

-----------------------------------------------------------------------------
(* What was sold and what is booked.                                       *)
EventAmount == [b \in 1..height |-> chain[b].amount]
BlocksOf(o) == {b \in 1..height : chain[b].order = o}
RowAmount == [r \in fills |-> r.amount]
RowsOf(o) == {r \in fills : r.order = o}

LEMMA ChainFacts ==
  ASSUME BookTypeOK
  PROVE  /\ height \in Nat
         /\ \A b \in 1..height : /\ chain[b] \in Event /\ chain[b].order \in Orders
                                 /\ chain[b].amount \in Nat
                                 /\ chain[b] = [kind |-> chain[b].kind, order |-> chain[b].order,
                                                amount |-> chain[b].amount]
<1>1. chain \in Seq(Event) /\ height \in Nat /\ height = Len(chain)
  BY DEF BookTypeOK, height
<1>2. \A b \in 1..height : chain[b] \in Event
  BY <1>1
<1> QED
  BY <1>1, <1>2 DEF Event

LEMMA SalesCount ==
  ASSUME BookTypeOK, NEW o \in Orders
  PROVE  /\ Counted(EventAmount, BlocksOf(o))
         /\ Sold(o) = Total(EventAmount, BlocksOf(o)) /\ Sold(o) \in Nat
<1>1. IsFiniteSet(1..height)
  BY ChainFacts, Counting
<1>2. IsFiniteSet(BlocksOf(o))
  <2>1. BlocksOf(o) \subseteq 1..height
    BY DEF BlocksOf
  <2> QED
    BY <1>1, <2>1, FinitePart
<1>3. \A b \in BlocksOf(o) : EventAmount[b] \in Nat
  BY ChainFacts DEF BlocksOf, EventAmount
<1>4. Counted(EventAmount, BlocksOf(o))
  BY <1>2, <1>3 DEF Counted
<1>5. Sold(o) = Total(EventAmount, BlocksOf(o))
  BY DEF Sold, EventAmount, BlocksOf
<1> QED
  BY <1>4, <1>5, TotalType, Zenon

(* Every row is that of an event of its own, so an order's rows come to no *)
(* more than its sales.                                                    *)
LEMMA RowsWithinSales ==
  ASSUME BookTypeOK, RowsOnChain, NEW o \in Orders
  PROVE  Booked(o) \in Nat /\ Booked(o) <= Sold(o)
<1> DEFINE own == [r \in RowsOf(o) |-> r.id]
<1>1. ASSUME NEW r \in RowsOf(o)
      PROVE  /\ r \in Row /\ r \in fills /\ r.order = o /\ r.id \in 1..height
             /\ chain[r.id].order = o /\ chain[r.id].amount = r.amount
             /\ chain[r.id].kind = IF r.source = "filler" THEN "fill" ELSE "fallback"
  BY DEF RowsOf, RowsOnChain, BookTypeOK
<1>2. own \in [RowsOf(o) -> BlocksOf(o)]
  BY <1>1 DEF BlocksOf
<1>3. \A r \in RowsOf(o) : RowAmount[r] = EventAmount[own[r]]
  BY <1>1 DEF RowAmount, EventAmount, RowsOf
<1>4. ASSUME NEW r \in RowsOf(o), NEW q \in RowsOf(o), own[r] = own[q]
      PROVE  r = q
  <2>1. r.id = q.id
    BY <1>4
  <2>2. /\ r.amount = q.amount /\ r.order = q.order
        /\ (r.source = "filler" <=> q.source = "filler")
    BY <1>1, <2>1
  <2> QED
    BY <1>1, <2>1, <2>2 DEF Row
<1> HIDE DEF own
<1>5. Counted(RowAmount, RowsOf(o)) /\ Total(RowAmount, RowsOf(o)) <= Total(EventAmount, BlocksOf(o))
  BY <1>2, <1>3, <1>4, SalesCount, TotalInto
<1>6. Booked(o) = Total(RowAmount, RowsOf(o))
  BY DEF Booked, RowAmount, RowsOf
<1> QED
  BY <1>5, <1>6, SalesCount, TotalType

LEMMA BookedWithin ==
  ASSUME BookTypeOK, RowsOnChain, ChainAddsUp
  PROVE  NeverOverbooked
<1>1. ASSUME NEW o \in Orders
      PROVE  Booked(o) + remaining[o] <= InputAmount[o]
  <2>1. remaining[o] \in Nat /\ Sold(o) + remaining[o] = InputAmount[o]
    BY DEF BookTypeOK, ChainAddsUp
  <2> QED
    BY <2>1, RowsWithinSales, SalesCount
<1> QED
  BY <1>1 DEF NeverOverbooked

-----------------------------------------------------------------------------
(* An event adds its amount to what was sold of its order.                 *)
LEMMA EmitAddsUp ==
  ASSUME BookTypeOK, ChainAddsUp, NEW e \in Event, e.amount <= remaining[e.order], Emit(e)
  PROVE  ChainAddsUp'
<1>1. /\ height \in Nat /\ height' = height + 1 /\ chain' \in Seq(Event)
      /\ \A b \in 1..height : chain'[b] = chain[b]
      /\ chain'[height + 1] = e
  BY ChainKeeps DEF BookTypeOK, Emit, height
<1>2. /\ remaining \in [Orders -> Nat] /\ e.order \in Orders /\ e.amount \in Nat
      /\ remaining' = [remaining EXCEPT ![e.order] = @ - e.amount]
  BY DEF BookTypeOK, Emit, Event
<1>3. 1..height' = 1..height \cup {height + 1} /\ height + 1 \notin 1..height
  BY <1>1
<1>4. ASSUME NEW o \in Orders
      PROVE  Sold(o)' + remaining'[o] = InputAmount[o]
  <2> DEFINE amounts == EventAmount'
  <2>1. Sold(o)' = Total(amounts, BlocksOf(o)')
    BY DEF Sold, EventAmount, BlocksOf
  <2>2. /\ \A b \in BlocksOf(o) : amounts[b] = EventAmount[b]
        /\ amounts[height + 1] = e.amount
    BY <1>1, <1>3 DEF BlocksOf, EventAmount
  <2>3. BlocksOf(o)' = IF e.order = o THEN BlocksOf(o) \cup {height + 1} ELSE BlocksOf(o)
    BY <1>1, <1>3 DEF BlocksOf
  <2>4. height + 1 \notin BlocksOf(o)
    BY <1>3 DEF BlocksOf
  <2> HIDE DEF amounts
  <2>5. Total(amounts, BlocksOf(o)) = Sold(o) /\ Counted(amounts, BlocksOf(o))
    <3>1. Total(amounts, BlocksOf(o)) = Total(EventAmount, BlocksOf(o))
      BY <2>2, TotalSame
    <3>2. Counted(amounts, BlocksOf(o))
      BY <2>2, SalesCount DEF Counted
    <3> QED
      BY <3>1, <3>2, SalesCount
  <2>6. Sold(o) \in Nat /\ Sold(o) + remaining[o] = InputAmount[o] /\ remaining[o] \in Nat
    BY <1>2, SalesCount DEF ChainAddsUp
  <2>7. CASE e.order = o
    <3>1. Total(amounts, BlocksOf(o) \cup {height + 1}) = Sold(o) + e.amount
      <4>1. amounts[height + 1] \in Nat
        BY <1>2, <2>2
      <4>2. Total(amounts, BlocksOf(o) \cup {height + 1})
              = Total(amounts, BlocksOf(o)) + amounts[height + 1]
        <5> DEFINE before == BlocksOf(o)
                   next   == height + 1
        <5>1. next \notin before /\ Counted(amounts, before) /\ amounts[next] \in Nat
          BY <2>4, <2>5, <4>1
        <5> HIDE DEF before, next
        <5>2. Total(amounts, before \cup {next}) = Total(amounts, before) + amounts[next]
          BY <5>1, TotalAdd
        <5> QED
          BY <5>2 DEF before, next
      <4> QED
        BY <2>2, <2>5, <4>2
    <3>2. Sold(o)' = Sold(o) + e.amount
      BY <2>1, <2>3, <2>7, <3>1
    <3>3. remaining'[o] = remaining[o] - e.amount
      BY <1>2, <2>7
    <3> QED
      BY <1>2, <2>6, <3>2, <3>3
  <2>8. CASE e.order # o
    <3>1. Sold(o)' = Sold(o) /\ remaining'[o] = remaining[o]
      BY <1>2, <2>1, <2>3, <2>5, <2>8
    <3> QED
      BY <2>6, <3>1
  <2> QED
    BY <2>7, <2>8
<1> QED
  BY <1>4 DEF ChainAddsUp

(* A block with an event of the reactor keeps what the book is right about.*)
LEMMA EmitSale ==
  ASSUME BookInv, SaleInv, NEW e \in Event, e.amount <= remaining[e.order],
         e.kind = "fallback" => e.amount = remaining[e.order], Emit(e),
         UNCHANGED <<fills, cb, status>>, JobsOnChain'
  PROVE  SaleInv'
<1>1. /\ height \in Nat /\ height' = height + 1
      /\ \A b \in 1..height : chain'[b] = chain[b]
      /\ chain'[height + 1] = e
  BY ChainKeeps DEF BookInv, BookTypeOK, Emit, height
<1>2. /\ remaining \in [Orders -> Nat] /\ e.order \in Orders /\ e.amount \in Nat
      /\ remaining' = [remaining EXCEPT ![e.order] = @ - e.amount]
  BY DEF BookInv, BookTypeOK, Emit, Event
<1>3. ASSUME NEW o \in Orders, remaining[o] = 0
      PROVE  remaining'[o] = 0
  BY <1>2, <1>3
<1>4. ChainAddsUp'
  BY EmitAddsUp DEF BookInv, SaleInv
<1>5. FallbackTakesRest'
  <2>1. ASSUME NEW b \in 1..height', chain'[b].kind = "fallback"
        PROVE  remaining'[chain'[b].order] = 0
    <3>1. CASE b = height + 1
      BY <1>1, <1>2, <2>1, <3>1
    <3>2. CASE b \in 1..height
      <4>1. chain'[b] = chain[b] /\ chain[b].order \in Orders
        BY <1>1, <3>2, ChainFacts DEF BookInv
      <4> QED
        BY <1>3, <2>1, <3>2, <4>1 DEF SaleInv, FallbackTakesRest
    <3> QED
      BY <1>1, <3>1, <3>2
  <2> QED
    BY <2>1 DEF FallbackTakesRest
<1>6. RowsOnChain'
  BY <1>1 DEF SaleInv, RowsOnChain
<1>7. ASSUME NEW c \in Callbacks
      PROVE  CallbackReads(c)'
  <2>1. cb[c].logs \subseteq 1..height /\ CallbackReads(c)
    BY <1>1, IndexerFacts DEF SaleInv
  <2>2. \A b \in cb'[c].logs : chain'[b].kind = Stream[cb'[c].stream]
    BY <1>1, <2>1 DEF CallbackReads
  <2>3. ASSUME cb'[c].soldOut
        PROVE  cb'[c].pc = "status" /\ remaining'[LogOrder(c)'] = 0
    <3>1. cb[c].pc = "status" /\ remaining[LogOrder(c)] = 0
      BY <2>1, <2>3 DEF CallbackReads
    <3>2. Log(c) \in 1..height /\ LogOrder(c) \in Orders /\ Log(c)' = Log(c)
      BY <3>1, LogFacts DEF Log
    <3>3. LogOrder(c)' = LogOrder(c)
      BY <1>1, <3>2 DEF LogOrder
    <3> QED
      BY <1>3, <3>1, <3>2, <3>3
  <2> QED
    BY <2>2, <2>3 DEF CallbackReads
<1>8. FilledIsSold'
  BY <1>3 DEF SaleInv, FilledIsSold
<1> QED
  BY <1>4, <1>5, <1>6, <1>7, <1>8 DEF SaleInv

LEMMA ChainSale ==
  ASSUME BookInv, SaleInv, ChainNext
  PROVE  SaleInv'
<1>0. /\ height \in Nat /\ remaining \in [Orders -> Nat] /\ chain \in Seq(Event)
      /\ FillAmounts \subseteq Nat /\ txs \subseteq Tx /\ job \in [Orders -> Job]
  BY BookAssumption DEF BookInv, BookTypeOK, height
<1>1. CASE NextBlock
  <2>1. PICK kind \in Streams \cup {"none"}, o \in Orders :
          \E amount \in {0, remaining[o]} \cup FillAmounts :
            LET e == [kind |-> kind, order |-> o, amount |-> amount]
            IN  OthersEvent(e) /\ Emit(e)
    BY <1>1 DEF NextBlock
  <2>2. PICK amount \in {0, remaining[o]} \cup FillAmounts :
          LET e == [kind |-> kind, order |-> o, amount |-> amount]
          IN  OthersEvent(e) /\ Emit(e)
    BY <2>1
  <2> DEFINE e == [kind |-> kind, order |-> o, amount |-> amount]
  <2>3. amount \in Nat /\ remaining[o] \in Nat /\ OthersEvent(e) /\ Emit(e)
    BY <1>0, <2>2
  <2>4. /\ e \in Event /\ e.amount <= remaining[e.order]
        /\ e.kind = "fallback" => e.amount = remaining[e.order]
    BY <2>3, StreamFacts DEF OthersEvent, Event
  <2>5. UNCHANGED <<fills, cb, status, job>>
    BY <1>1 DEF NextBlock, tableVars, indexVars, watchVars
  <2>6. JobsOnChain'
    <3>1. /\ height' = height + 1
          /\ \A b \in 1..height : chain'[b] = chain[b]
      BY <1>0, <2>3, <2>4, ChainKeeps DEF Emit
    <3> QED
      BY <1>0, <2>5, <3>1 DEF SaleInv, JobsOnChain
  <2> QED
    BY <2>3, <2>4, <2>5, <2>6, EmitSale
<1>2. ASSUME NEW t \in txs, MineFallback(t)
      PROVE  SaleInv'
  <2> DEFINE e == [kind |-> "fallback", order |-> t.order, amount |-> t.amount]
             j == [pc |-> "mark", block |-> height + 1, amount |-> t.amount]
  <2>1. t.order \in Orders /\ t.amount \in Nat
    BY <1>0 DEF Tx
  <2>2. /\ t.amount = remaining[t.order] /\ Emit(e)
        /\ job' = IF t.awaited THEN [job EXCEPT ![t.order] = j] ELSE job
        /\ UNCHANGED <<fills, cb, status>>
    BY <1>2 DEF MineFallback, Receipt, tableVars, indexVars
  <2>3. e \in Event /\ e.amount <= remaining[e.order] /\ e.amount = remaining[e.order]
    BY <1>0, <2>1, <2>2, StreamFacts DEF Event
  <2>4. JobsOnChain'
    <3>1. /\ height' = height + 1 /\ chain'[height + 1] = e
          /\ \A b \in 1..height : chain'[b] = chain[b]
      BY <1>0, <2>2, <2>3, ChainKeeps DEF Emit, height
    <3>2. ASSUME NEW o \in Orders, job'[o].pc \in {"mark", "insert"}
          PROVE  /\ job'[o].block \in 1..height'
                 /\ chain'[job'[o].block].order = o
                 /\ chain'[job'[o].block].amount = job'[o].amount
                 /\ chain'[job'[o].block].kind = "fallback"
      <4>1. CASE job'[o] = job[o]
        BY <1>0, <3>1, <3>2, <4>1 DEF SaleInv, JobsOnChain
      <4>2. CASE job'[o] # job[o]
        <5>1. o = t.order /\ job'[o] = j
          BY <1>0, <2>1, <2>2, <4>2
        <5> QED
          BY <1>0, <3>1, <5>1
      <4> QED
        BY <4>1, <4>2
    <3> QED
      BY <3>2 DEF JobsOnChain
  <2> QED
    BY <2>2, <2>3, <2>4, EmitSale
<1>3. ASSUME NEW t \in txs, RevertFallback(t)
      PROVE  SaleInv'
  <2>1. /\ UNCHANGED <<chain, remaining, fills, cb, status>>
        /\ job' = IF t.awaited THEN [job EXCEPT ![t.order] = IdleJob] ELSE job
    BY <1>3 DEF RevertFallback, Receipt, tableVars, indexVars
  <2>2. JobsOnChain'
    BY <1>0, <2>1 DEF SaleInv, JobsOnChain, IdleJob, height
  <2>3. ChainAddsUp' /\ FallbackTakesRest' /\ RowsOnChain' /\ FilledIsSold'
    BY <2>1 DEF SaleInv, ChainAddsUp, Sold, FallbackTakesRest, RowsOnChain, FilledIsSold, height
  <2>4. \A c \in Callbacks : CallbackReads(c)'
    BY <2>1 DEF SaleInv, CallbackReads, LogOrder, Log
  <2> QED
    BY <2>2, <2>3, <2>4 DEF SaleInv
<1> QED
  BY <1>1, <1>2, <1>3 DEF ChainNext

-----------------------------------------------------------------------------
(* Off the chain, what was sold stays as it was.                           *)
LEMMA TablesSale ==
  ASSUME SaleInv, UNCHANGED <<chain, remaining>>,
         RowsOnChain', JobsOnChain', \A c \in Callbacks : CallbackReads(c)', FilledIsSold'
  PROVE  SaleInv'
<1>1. ChainAddsUp' /\ FallbackTakesRest'
  BY DEF SaleInv, ChainAddsUp, Sold, FallbackTakesRest, height
<1> QED
  BY <1>1 DEF SaleInv

LEMMA JobSale ==
  ASSUME BookInv, SaleInv, NEW o \in Orders, JobNext(o)
  PROVE  SaleInv'
<1>0. /\ job \in [Orders -> Job] /\ status \in [Orders -> Open \cup {"none", "filled", "cancelled", "expired"}]
      /\ height \in Nat
  BY DEF BookInv, BookTypeOK, height
<1>1. UNCHANGED <<chain, remaining, cb>>
  BY DEF JobNext, FallbackSelect, SendFallback, JobFails, MarkFallback, InsertFallback, chainVars,
     indexVars
<1>2. height' = height /\ \A c \in Callbacks : CallbackReads(c)'
  BY <1>1 DEF SaleInv, CallbackReads, LogOrder, Log, height
<1>3. ASSUME RowsOnChain', JobsOnChain', FilledIsSold'
      PROVE  SaleInv'
  BY <1>1, <1>2, <1>3, TablesSale
<1>4. CASE FallbackSelect(o) \/ SendFallback(o) \/ JobFails(o)
  <2>1. UNCHANGED <<fills, status>>
    BY <1>4 DEF FallbackSelect, SendFallback, JobFails, tableVars
  <2>2. /\ job'[o].pc \notin {"mark", "insert"}
        /\ \A q \in Orders \ {o} : job'[q] = job[q]
    BY <1>0, <1>4 DEF FallbackSelect, SendFallback, JobFails, Move, IdleJob, Job
  <2>3. RowsOnChain' /\ FilledIsSold'
    BY <1>1, <1>2, <2>1 DEF SaleInv, RowsOnChain, FilledIsSold
  <2>4. JobsOnChain'
    BY <1>1, <1>2, <2>2 DEF SaleInv, JobsOnChain
  <2> QED
    BY <1>3, <2>3, <2>4
<1>5. CASE MarkFallback(o)
  <2>1. /\ job[o].pc = "mark" /\ fills' = fills
        /\ status' = [status EXCEPT ![o] = "filled"]
        /\ job' = [job EXCEPT ![o].pc = "insert"]
    BY <1>5 DEF MarkFallback, InHand, Move
  <2>2. RowsOnChain'
    BY <1>1, <1>2, <2>1 DEF SaleInv, RowsOnChain
  <2>3. JobsOnChain'
    <3>1. ASSUME NEW q \in Orders, job'[q].pc \in {"mark", "insert"}
          PROVE  /\ job[q].pc \in {"mark", "insert"}
                 /\ job'[q].block = job[q].block /\ job'[q].amount = job[q].amount
      BY <1>0, <2>1, <3>1 DEF Job
    <3> QED
      BY <1>1, <1>2, <3>1 DEF SaleInv, JobsOnChain
  <2>4. FilledIsSold'
    <3>1. remaining[o] = 0
      BY <2>1 DEF SaleInv, JobsOnChain, FallbackTakesRest
    <3> QED
      BY <1>0, <1>1, <2>1, <3>1 DEF SaleInv, FilledIsSold
  <2> QED
    BY <1>3, <2>2, <2>3, <2>4
<1>6. CASE InsertFallback(o)
  <2> DEFINE row == [id |-> job[o].block, order |-> o, amount |-> job[o].amount,
                     source |-> "fallback"]
  <2>1. /\ job[o].pc = "insert" /\ fills' = fills \cup {row} /\ status' = status
        /\ job' = [job EXCEPT ![o] = IdleJob]
    BY <1>6 DEF InsertFallback, InHand
  <2>2. RowsOnChain'
    <3>1. /\ row.id \in 1..height
          /\ chain[row.id].order = row.order /\ chain[row.id].amount = row.amount
          /\ chain[row.id].kind = IF row.source = "filler" THEN "fill" ELSE "fallback"
      BY <2>1 DEF SaleInv, JobsOnChain
    <3> HIDE DEF row
    <3> QED
      BY <1>1, <1>2, <2>1, <3>1 DEF SaleInv, RowsOnChain
  <2>3. JobsOnChain'
    <3>1. IdleJob.pc = "idle"
      BY DEF IdleJob
    <3> QED
      BY <1>0, <1>1, <1>2, <2>1, <3>1 DEF SaleInv, JobsOnChain
  <2>4. FilledIsSold'
    BY <1>1, <2>1 DEF SaleInv, FilledIsSold
  <2> QED
    BY <1>3, <2>2, <2>3, <2>4
<1> QED
  BY <1>4, <1>5, <1>6 DEF JobNext

LEMMA ServiceSale ==
  ASSUME BookInv, SaleInv, ServiceNext
  PROVE  SaleInv'
<1>0. status \in [Orders -> Open \cup {"none", "filled", "cancelled", "expired"}]
  BY DEF BookInv, BookTypeOK
<1>1. UNCHANGED <<chain, remaining, cb, fills, job>>
  BY DEF ServiceNext, createOrder, cancelOrder, WriteCancelled, ExpireOrders, chainVars, tableVars,
     indexVars, watchVars
<1>2. RowsOnChain' /\ JobsOnChain' /\ \A c \in Callbacks : CallbackReads(c)'
  BY <1>1 DEF SaleInv, RowsOnChain, JobsOnChain, CallbackReads, LogOrder, Log, height
<1>3. \A o \in Orders : status'[o] = "filled" => status[o] = "filled"
  <2>1. CASE ExpireOrders
    BY <1>0, <2>1 DEF ExpireOrders
  <2>2. ASSUME NEW o \in Orders, createOrder(o) \/ cancelOrder(o) \/ WriteCancelled(o)
        PROVE  \A q \in Orders : status'[q] = "filled" => status[q] = "filled"
    BY <1>0, <2>2 DEF createOrder, cancelOrder, WriteCancelled, tableVars
  <2> QED
    BY <2>1, <2>2 DEF ServiceNext
<1>4. FilledIsSold'
  BY <1>1, <1>3 DEF SaleInv, FilledIsSold
<1> QED
  BY <1>1, <1>2, <1>4, TablesSale

-----------------------------------------------------------------------------
(* The indexer: what a callback may be left with.                          *)
LEMMA CallbackSale ==
  ASSUME BookInv, SaleInv, NEW c \in Callbacks, NEW r \in Callback, cb' = [cb EXCEPT ![c] = r],
         UNCHANGED <<chain, remaining, job>>, RowsOnChain', FilledIsSold',
         \A b \in r.logs : chain[b].kind = Stream[r.stream],
         r.soldOut => /\ r.pc = "status" /\ r.logs = cb[c].logs
                      /\ remaining[LogOrder(c)] = 0
  PROVE  SaleInv'
<1>1. JobsOnChain'
  BY DEF SaleInv, JobsOnChain, height
<1>2. cb'[c] = r /\ \A d \in Callbacks \ {c} : cb'[d] = cb[d]
  BY DEF BookInv, BookTypeOK
<1>3. ASSUME NEW d \in Callbacks
      PROVE  CallbackReads(d)'
  <2>1. CASE d = c
    <3>1. r.soldOut => LogOrder(c)' = LogOrder(c)
      BY <1>2 DEF LogOrder, Log
    <3> QED
      BY <1>2, <2>1, <3>1 DEF CallbackReads
  <2>2. CASE d # c
    <3>1. cb'[d] = cb[d] /\ LogOrder(d)' = LogOrder(d)
      BY <1>2, <2>2 DEF LogOrder, Log
    <3> QED
      BY <3>1 DEF SaleInv, CallbackReads
  <2> QED
    BY <2>1, <2>2
<1> QED
  BY <1>1, <1>3, TablesSale

LEMMA EnterSale ==
  ASSUME BookInv, SaleInv, NEW c \in Callbacks, NEW b \in 0..height, NEW i \in 1..4,
         cb' = [cb EXCEPT ![c] = Enter(b, i, last)],
         UNCHANGED <<chain, remaining, job, fills, status>>
  PROVE  SaleInv'
<1> DEFINE r == Enter(b, i, last)
           behind == {k \in i..3 : b > last[Stream[k]]}
<1>1. r \in Callback
  BY EnterEffect DEF BookInv
<1>2. RowsOnChain' /\ FilledIsSold'
  BY DEF SaleInv, RowsOnChain, FilledIsSold, height
<1>3. r = IF behind = {} THEN IdleCallback
          ELSE [IdleCallback EXCEPT !.pc = "query", !.at = b, !.stream = Min(behind),
                  !.logs = Logs(Stream[Min(behind)], last[Stream[Min(behind)]] + 1, b)]
  BY DEF Enter
<1>4. ~r.soldOut /\ \A k \in r.logs : chain[k].kind = Stream[r.stream]
  <2>1. CASE behind = {}
    BY <1>3, <2>1 DEF IdleCallback
  <2>2. CASE behind # {}
    <3>1. /\ r.soldOut = FALSE /\ r.stream = Min(behind)
          /\ r.logs = Logs(Stream[Min(behind)], last[Stream[Min(behind)]] + 1, b)
      BY <1>3, <2>2 DEF IdleCallback
    <3> QED
      BY <3>1 DEF Logs
  <2> QED
    BY <2>1, <2>2
<1> HIDE DEF r
<1> QED
  BY <1>1, <1>2, <1>4, CallbackSale DEF r

LEMMA HandleSale ==
  ASSUME BookInv, SaleInv, NEW c \in Callbacks, NEW logs \in SUBSET cb[c].logs, Handle(c, logs),
         UNCHANGED <<chain, remaining, job, fills>>, FilledIsSold'
  PROVE  SaleInv'
<1>1. RowsOnChain'
  BY DEF SaleInv, RowsOnChain, height
<1>2. cb[c] \in Callback /\ cb \in [Callbacks -> Callback] /\ logs \in SUBSET (1..cb[c].at)
  BY IndexerFacts DEF BookInv, BookTypeOK
<1>3. PICK r \in Callback :
        cb' = [cb EXCEPT ![c] = r] /\ r.stream = cb[c].stream /\ r.logs = logs
  <2>1. BookTypeOK
    BY DEF BookInv
  <2> QED
    BY <1>2, <2>1, HandleEffect
<1>4. ~r.soldOut
  <2>1. ~cb'[c].soldOut
    BY <1>2 DEF Handle, Callback
  <2> QED
    BY <1>2, <1>3, <2>1
<1>5. \A b \in r.logs : chain[b].kind = Stream[r.stream]
  BY <1>3 DEF SaleInv, CallbackReads
<1> QED
  BY <1>1, <1>3, <1>4, <1>5, CallbackSale

LEMMA IndexerSale ==
  ASSUME BookInv, SaleInv, NEW c \in Callbacks, OnBlock(c) \/ CallbackNext(c)
  PROVE  SaleInv'
<1> DEFINE rest == cb[c].logs \ {Log(c)}
<1>0. /\ height \in Nat /\ announced \in 0..height /\ cb \in [Callbacks -> Callback]
      /\ status \in [Orders -> Open \cup {"none", "filled", "cancelled", "expired"}]
      /\ cb[c] \in Callback /\ cb[c].at \in 0..height /\ cb[c].stream \in 1..3
      /\ rest \in SUBSET cb[c].logs /\ cb[c].logs \in SUBSET cb[c].logs
      /\ CallbackReads(c)
  BY IndexerFacts DEF BookInv, BookTypeOK, SaleInv
<1>1. UNCHANGED <<chain, remaining, job>>
  BY DEF OnBlock, CallbackNext, ReceiveLogs, InsertFill, SumFills, UpdateStatus, HandlerFails,
     SaveCheckpoint, TurnFails, chainVars, watchVars
<1>2. CASE OnBlock(c)
  <2>1. announced + 1 \in 0..height /\ 1 \in 1..4 /\ UNCHANGED <<fills, status>>
        /\ cb' = [cb EXCEPT ![c] = Enter(announced + 1, 1, last)]
    BY <1>0, <1>2 DEF OnBlock, tableVars
  <2> QED
    BY <1>1, <2>1, EnterSale
<1>3. CASE SaveCheckpoint(c) \/ TurnFails(c)
  <2>1. cb[c].stream + 1 \in 1..4 /\ UNCHANGED <<fills, status>>
        /\ cb' = [cb EXCEPT ![c] = Enter(cb[c].at, cb[c].stream + 1, last)]
    BY <1>0, <1>3 DEF SaveCheckpoint, TurnFails, tableVars
  <2> QED
    BY <1>0, <1>1, <2>1, EnterSale
<1>4. CASE ReceiveLogs(c) \/ HandlerFails(c)
  <2>1. /\ Handle(c, cb[c].logs) \/ Handle(c, rest)
        /\ UNCHANGED <<fills, status>>
    BY <1>4 DEF ReceiveLogs, HandlerFails, tableVars
  <2>2. FilledIsSold'
    BY <1>1, <2>1 DEF SaleInv, FilledIsSold
  <2> QED
    BY <1>0, <1>1, <2>1, <2>2, HandleSale
<1>5. CASE InsertFill(c)
  <2> DEFINE row == RowOf(Log(c))
             r   == [cb[c] EXCEPT !.pc = "sum"]
  <2>1. /\ cb[c].pc = "row" /\ cb' = [cb EXCEPT ![c] = r] /\ fills' = fills \cup {row}
        /\ status' = status
    BY <1>5 DEF InsertFill, At
  <2>2. cb[c].stream = 1
    BY <2>1 DEF BookInv, CallbackCovers
  <2>3. Log(c) \in cb[c].logs /\ Log(c) \in 1..height /\ chain[Log(c)].kind = "fill"
    BY <1>0, <2>1, <2>2, LogFacts, StreamFacts DEF CallbackReads
  <2>4. /\ row.id = Log(c) /\ row.order = chain[Log(c)].order
        /\ row.amount = chain[Log(c)].amount /\ row.source = "filler"
    BY DEF RowOf
  <2> HIDE DEF row
  <2>5. RowsOnChain'
    BY <1>1, <2>1, <2>3, <2>4 DEF SaleInv, RowsOnChain, height
  <2>6. FilledIsSold'
    BY <1>1, <2>1 DEF SaleInv, FilledIsSold
  <2>7. /\ r \in Callback /\ r.logs = cb[c].logs /\ r.stream = cb[c].stream
        /\ ~r.soldOut
    BY <1>0, <2>1 DEF CallbackReads, Callback
  <2> HIDE DEF r
  <2>8. \A b \in r.logs : chain[b].kind = Stream[r.stream]
    BY <1>0, <2>7 DEF CallbackReads
  <2> QED
    BY <1>1, <2>1, <2>5, <2>6, <2>7, <2>8, CallbackSale
<1>6. CASE SumFills(c)
  <2> DEFINE soldOut == Booked(LogOrder(c)) >= InputAmount[LogOrder(c)]
             r == [cb[c] EXCEPT !.pc = "status", !.soldOut = soldOut]
  <2>1. /\ cb[c].pc = "sum" /\ cb' = [cb EXCEPT ![c] = r] /\ fills' = fills /\ status' = status
    BY <1>6 DEF SumFills, At, tableVars
  <2>2. soldOut => remaining[LogOrder(c)] = 0
    <3>1. LogOrder(c) \in Orders
      BY <2>1, LogFacts
    <3>2. /\ Booked(LogOrder(c)) + remaining[LogOrder(c)] <= InputAmount[LogOrder(c)]
          /\ Booked(LogOrder(c)) \in Nat
      BY <3>1, BookedWithin, RowsWithinSales DEF NeverOverbooked, BookInv, SaleInv
    <3>3. remaining[LogOrder(c)] \in Nat /\ InputAmount[LogOrder(c)] \in Nat
      BY <3>1, BookAssumption DEF BookInv, BookTypeOK
    <3> QED
      BY <3>2, <3>3
  <2>3. soldOut \in BOOLEAN
    OBVIOUS
  <2> HIDE DEF soldOut
  <2>4. /\ r \in Callback /\ r.logs = cb[c].logs /\ r.stream = cb[c].stream
        /\ r.pc = "status" /\ r.soldOut = soldOut
    BY <1>0, <2>3 DEF Callback
  <2> HIDE DEF r
  <2>5. RowsOnChain' /\ FilledIsSold'
    BY <1>1, <2>1 DEF SaleInv, RowsOnChain, FilledIsSold, height
  <2>6. \A b \in r.logs : chain[b].kind = Stream[r.stream]
    BY <1>0, <2>4 DEF CallbackReads
  <2> QED
    BY <1>1, <2>1, <2>2, <2>4, <2>5, <2>6, CallbackSale
<1>7. CASE UpdateStatus(c)
  <2> DEFINE o == LogOrder(c)
  <2>1. /\ cb[c].pc = "status" /\ Handle(c, rest) /\ fills' = fills
        /\ status' = [status EXCEPT ![o] = IF @ = "none" THEN @ ELSE StatusAfter(c)]
    BY <1>7 DEF UpdateStatus, At
  <2>2. Log(c) \in cb[c].logs /\ Log(c) \in 1..height /\ o \in Orders
    BY <2>1, LogFacts
  <2>3. ASSUME StatusAfter(c) = "filled"
        PROVE  remaining[o] = 0
    <3>1. CASE cb[c].stream = 1
      <4>1. cb[c].soldOut
        BY <2>3, <3>1, StreamFacts DEF StatusAfter
      <4> QED
        BY <1>0, <4>1 DEF CallbackReads
    <3>2. CASE cb[c].stream = 2
      BY <1>0, <2>2, <3>2, StreamFacts DEF CallbackReads, SaleInv, FallbackTakesRest, LogOrder
    <3>3. CASE cb[c].stream = 3
      <4>1. status[o] = "filled"
        BY <2>3, <3>3, StreamFacts DEF StatusAfter
      <4> QED
        BY <2>2, <4>1 DEF SaleInv, FilledIsSold
    <3> QED
      BY <1>0, <3>1, <3>2, <3>3
  <2>4. FilledIsSold'
    BY <1>0, <1>1, <2>1, <2>2, <2>3 DEF SaleInv, FilledIsSold
  <2> QED
    BY <1>0, <1>1, <2>1, <2>4, HandleSale
<1> QED
  BY <1>2, <1>3, <1>4, <1>5, <1>6, <1>7 DEF CallbackNext

-----------------------------------------------------------------------------
LEMMA DownSale ==
  ASSUME BookInv, SaleInv, Crash \/ Restart
  PROVE  SaleInv'
<1>1. UNCHANGED <<chain, remaining, fills, status>>
  BY DEF Crash, Restart, chainVars, tableVars
<1>2. RowsOnChain' /\ FilledIsSold'
  BY <1>1 DEF SaleInv, RowsOnChain, FilledIsSold, height
<1>3. JobsOnChain'
  <2>1. CASE Crash
    BY <2>1 DEF Crash, JobsOnChain, IdleJob
  <2>2. CASE Restart
    BY <1>1, <2>2 DEF Restart, watchVars, SaleInv, JobsOnChain, height
  <2> QED
    BY <2>1, <2>2
<1>4. ASSUME NEW c \in Callbacks
      PROVE  CallbackReads(c)'
  <2>1. CASE Crash
    BY <2>1 DEF Crash, CallbackReads, IdleCallback
  <2>2. CASE Restart
    <3>1. LogOrder(c)' = LogOrder(c) /\ cb' = cb
      BY <1>1, <2>2 DEF Restart, LogOrder, Log
    <3> QED
      BY <1>1, <3>1 DEF SaleInv, CallbackReads
  <2> QED
    BY <2>1, <2>2
<1> QED
  BY <1>1, <1>2, <1>3, <1>4, TablesSale

LEMMA SaleInitInv ==
  ASSUME BookInit
  PROVE  SaleInv
<1>1. height = 0 /\ 1..height = {}
  BY DEF BookInit, height
<1>2. \A o \in Orders : Sold(o) = 0
  <2>1. \A o \in Orders : Sold(o) = Total(EventAmount, {})
    BY <1>1 DEF Sold, EventAmount
  <2> QED
    BY <2>1, TotalEmpty
<1>3. ChainAddsUp
  BY <1>2, BookAssumption DEF BookInit, ChainAddsUp
<1>4. FallbackTakesRest /\ RowsOnChain /\ JobsOnChain /\ FilledIsSold
  BY <1>1 DEF BookInit, FallbackTakesRest, RowsOnChain, JobsOnChain, FilledIsSold, IdleJob
<1>5. \A c \in Callbacks : CallbackReads(c)
  BY DEF BookInit, CallbackReads, IdleCallback
<1> QED
  BY <1>3, <1>4, <1>5 DEF SaleInv

LEMMA SaleStep ==
  ASSUME BookInv, SaleInv, [BookNext]_bookVars
  PROVE  SaleInv'
<1>1. CASE UNCHANGED bookVars
  <2>1. UNCHANGED <<chain, remaining, fills, status, job, cb>>
    BY <1>1 DEF bookVars, chainVars, tableVars, indexVars, watchVars
  <2>2. RowsOnChain' /\ JobsOnChain' /\ FilledIsSold'
    BY <2>1 DEF SaleInv, RowsOnChain, JobsOnChain, FilledIsSold, height
  <2>3. \A c \in Callbacks : CallbackReads(c)'
    BY <2>1 DEF SaleInv, CallbackReads, LogOrder, Log
  <2> QED
    BY <2>1, <2>2, <2>3, TablesSale
<1> QED
  BY <1>1, ChainSale, IndexerSale, JobSale, ServiceSale, DownSale DEF BookNext

LEMMA SalesHold ==
  ASSUME BACKFILL
  PROVE  BookSpec => [](BookInv /\ SaleInv)
<1>1. BookInv /\ [BookNext]_bookVars => BookInv'
  BY BookStep
<1>2. BookInv /\ SaleInv /\ [BookNext]_bookVars => SaleInv'
  BY SaleStep
<1> QED
  BY <1>1, <1>2, BookInitInv, SaleInitInv, PTL DEF BookSpec

(* The fills table never shows more of an order as sold than the chain     *)
(* sold, although a log is read by two callbacks and after restarts and    *)
(* the fallback watcher books what it measured two awaits earlier          *)
(* (eventIndexer.ts, fallbackWatcher.ts).                                  *)
THEOREM BookNeverOversold ==
  ASSUME BACKFILL
  PROVE  BookSpec => []NeverOverbooked
<1>1. BookInv /\ SaleInv => NeverOverbooked
  BY BookedWithin DEF BookInv, SaleInv
<1> QED
  BY <1>1, SalesHold, PTL

(* An order the backend shows as filled has nothing left on the chain,     *)
(* whichever of the indexer's handlers and the watcher wrote its status.   *)
THEOREM FilledOrdersAreSold ==
  ASSUME BACKFILL
  PROVE  BookSpec => []FilledIsSold
<1>1. BookInv /\ SaleInv => FilledIsSold
  BY DEF SaleInv
<1> QED
  BY <1>1, SalesHold, PTL

-----------------------------------------------------------------------------
(* Suggested parameters.                                                   *)
LEMMA LeastOf ==
  ASSUME NEW a \in Nat, NEW b \in Nat
  PROVE  Least(a, b) \in Nat /\ Least(a, b) <= a /\ Least(a, b) <= b
BY DEF Least

LEMMA SuggestionFacts ==
  /\ Unit \in Nat \ {0} /\ BPS \in Nat \ {0} /\ BPS = 10000 /\ OneInput \in Nat \ {0}
  /\ UINT32_MAX \in Nat
<1>1. Unit \in Nat \ {0}
  BY StrategyAssumption, Zenon
<1>2. OneInput \in Nat \ {0} /\ UINT32_MAX \in Nat
  BY SuggestionAssumption, Zenon
<1>3. BPS \in Nat \ {0} /\ BPS = 10000
  BY DEF BPS
<1> QED BY <1>1, <1>2, <1>3

(* A larger share of a rate is a price at least as high.                   *)
LEMMA RateMonotone ==
  ASSUME NEW rate \in Nat, NEW a \in Nat, NEW b \in Nat, a <= b
  PROVE  /\ rateToContract(rate, a) \in Nat /\ rateToContract(rate, b) \in Nat
         /\ rateToContract(rate, a) <= rateToContract(rate, b)
<1> DEFINE x == 2 * rate * a + BPS
           y == 2 * rate * b + BPS
           qx == x \div (2 * BPS)
           qy == y \div (2 * BPS)
<1>1. x \in Nat /\ y \in Nat /\ x <= y
  <2>1. 2 * rate \in Nat
    OBVIOUS
  <2>2. (2 * rate) * a <= (2 * rate) * b /\ (2 * rate) * a \in Nat /\ (2 * rate) * b \in Nat
    BY <2>1, ProductMonotone
  <2> QED BY <2>2, SuggestionFacts
<1>2. 2 * BPS \in Nat \ {0}
  BY SuggestionFacts
<1> HIDE DEF x, y
<1>3. qx \in Nat /\ qy \in Nat /\ qx <= qy
  BY <1>1, <1>2, Division, QuotientMonotone
<1> HIDE DEF qx, qy
<1>4. qx * Unit \in Nat /\ qy * Unit \in Nat /\ qx * Unit <= qy * Unit
  <2>1. Unit * qx <= Unit * qy
    BY <1>3, SuggestionFacts, ProductMonotone
  <2> QED BY <1>3, <2>1, SuggestionFacts
<1>5. /\ (qx * Unit) \div OneInput \in Nat /\ (qy * Unit) \div OneInput \in Nat
      /\ (qx * Unit) \div OneInput <= (qy * Unit) \div OneInput
  BY <1>4, SuggestionFacts, Division, QuotientMonotone
<1> QED BY <1>5 DEF rateToContract, mulDiv, qx, qy, x, y

LEMMA RequestFacts ==
  ASSUME request \in Requests
  PROVE  /\ request.inputAmount \in Nat \ {0} /\ request.deadlineBlocks \in Nat \ {0}
         /\ request.targetBps \in Nat
         /\ startPrice \in Nat /\ floorPrice \in Nat /\ floorPrice <= startPrice
         /\ minOutput \in Nat
<1>1. /\ request.rate \in Nat /\ request.inputAmount \in Nat \ {0}
      /\ request.deadlineBlocks \in Nat \ {0} /\ request.premiumBps \in Nat
      /\ request.slippageBps \in 0..BPS /\ request.targetBps \in 0..BPS
  BY SuggestionAssumption
<1> DEFINE slip == request.slippageBps
           premium == request.premiumBps
           target == request.targetBps
<1>0. slip \in Nat /\ slip <= BPS /\ premium \in Nat /\ target \in Nat
  <2> HIDE DEF slip, premium, target
  <2>1. \A x \in 0..BPS : x \in Nat /\ x <= BPS
    BY SuggestionFacts
  <2> QED BY <1>1, <2>1 DEF slip, premium, target
<1> HIDE DEF slip, premium, target
<1>2. /\ BPS + request.premiumBps \in Nat /\ BPS - request.slippageBps \in Nat
      /\ BPS - request.slippageBps <= BPS + request.premiumBps
  <2>1. BPS + premium \in Nat /\ BPS - slip \in Nat /\ BPS - slip <= BPS + premium
    BY <1>0, SuggestionFacts
  <2> QED BY <2>1 DEF slip, premium
<1>3. startPrice \in Nat /\ floorPrice \in Nat /\ floorPrice <= startPrice
  BY <1>1, <1>2, RateMonotone DEF startPrice, floorPrice
<1>4. minOutput \in Nat
  <2>1. request.inputAmount \in Nat
    BY <1>1
  <2>2. Unit \in Nat \ {0}
    BY StrategyAssumption, Zenon
  <2> QED BY <1>3, <2>1, <2>2, MulDivNat, Zenon DEF minOutput
<1> QED BY <1>0, <1>1, <1>3, <1>4 DEF target

(* The price decayed at any block of the window is not below the floor.    *)
LEMMA SweepStaysAbove ==
  ASSUME request \in Requests, NEW blocks \in 0..request.deadlineBlocks
  PROVE  /\ DecayedPrice(startPrice, decay, 0, blocks) \in Nat
         /\ floorPrice <= DecayedPrice(startPrice, decay, 0, blocks)
<1> DEFINE n == request.deadlineBlocks
           gap == startPrice - floorPrice
           d == gap \div n
<1>1. /\ n \in Nat \ {0} /\ startPrice \in Nat /\ floorPrice \in Nat /\ floorPrice <= startPrice
      /\ gap \in Nat /\ startPrice = floorPrice + gap
  BY RequestFacts
<1>2. d \in Nat /\ d * n <= gap
  BY <1>1, Division
<1>3. decay \in Nat /\ decay <= d
  <2>1. decay = Least(UINT32_MAX, d)
    BY <1>1 DEF decay
  <2> QED BY <1>2, <2>1, SuggestionFacts, LeastOf
<1>4. blocks \in Nat /\ blocks <= n
  BY <1>1
<1> HIDE DEF d, gap, n
<1>5. /\ blocks * decay \in Nat /\ blocks * d \in Nat /\ d * blocks \in Nat /\ d * n \in Nat
      /\ blocks * d = d * blocks
  BY <1>1, <1>2, <1>3, <1>4
<1>6. blocks * decay <= blocks * d /\ d * blocks <= d * n
  BY <1>1, <1>2, <1>3, <1>4, ProductMonotone
<1> DEFINE fall == blocks * decay
<1>7. fall \in Nat /\ fall <= gap
  BY <1>1, <1>2, <1>5, <1>6
<1>8. DecayedPrice(startPrice, decay, 0, blocks) =
        IF startPrice > fall THEN startPrice - fall ELSE 0
  <2>1. (IF blocks > 0 THEN blocks - 0 ELSE 0) = blocks
    BY <1>4
  <2> QED BY <2>1 DEF DecayedPrice
<1> HIDE DEF fall
<1> QED BY <1>1, <1>7, <1>8

LEMMA SuggestionPays ==
  ASSUME request \in Requests, NEW blocks \in 0..request.deadlineBlocks,
         NEW fillAmount \in 1..request.inputAmount
  PROVE  mulDiv(minOutput, fillAmount, request.inputAmount)
           <= mulDiv(fillAmount, DecayedPrice(startPrice, decay, 0, blocks), Unit)
<1> DEFINE n == request.inputAmount
           price == DecayedPrice(startPrice, decay, 0, blocks)
<1>1. /\ n \in Nat \ {0} /\ floorPrice \in Nat /\ minOutput \in Nat /\ fillAmount \in Nat
      /\ price \in Nat /\ floorPrice <= price
  BY RequestFacts, SweepStaysAbove
<1>2. minOutput * Unit <= n * floorPrice
  <2>1. n * floorPrice \in Nat
    BY <1>1
  <2>2. minOutput = (n * floorPrice) \div Unit
    BY DEF minOutput, mulDiv
  <2> HIDE DEF n
  <2> QED BY <2>1, <2>2, SuggestionFacts, Division
<1> HIDE DEF n, price
<1>3. n * floorPrice <= n * price
  BY <1>1, ProductMonotone
<1>4. minOutput * Unit <= n * price
  <2>1. minOutput * Unit \in Nat /\ n * floorPrice \in Nat /\ n * price \in Nat
    BY <1>1, SuggestionFacts
  <2> QED BY <1>2, <1>3, <2>1
<1>5. mulDiv(minOutput, fillAmount, n) <= mulDiv(fillAmount, price, Unit)
  BY <1>1, <1>4, SuggestionFacts, PartPays
<1> QED BY <1>5 DEF n, price
-----------------------------------------------------------------------------
LEMMA CapacityType ==
  ASSUME NEW balance \in Nat, NEW price \in Nat \ {0}
  PROVE  Capacity(balance, price) \in Nat
<1>1. MAX_INVENTORY_USE_BPS \in Nat
  <2>1. \A x \in 0..BPS : x \in Nat
    BY SuggestionFacts
  <2> QED BY <2>1, StrategyAssumption
<1>2. usableBalance(balance) \in Nat
  BY <1>1, SuggestionFacts, MulDivNat DEF usableBalance
<1> QED BY <1>2, SuggestionFacts, MulDivNat DEF Capacity

(* The larger its minimum chunk, the fewer orders a whale fills.           *)
LEMMA WhaleMonotone ==
  ASSUME NEW start, NEW price \in Nat, NEW size \in Nat, NEW balance \in Nat,
         NEW small \in Nat, NEW large \in Nat, small <= large
  PROVE  /\ whaleDecide(start, price, size, small, balance) \in Nat
         /\ whaleDecide(start, price, size, large, balance) \in Nat
         /\ whaleDecide(start, price, size, large, balance)
              <= whaleDecide(start, price, size, small, balance)
<1> DEFINE ref == mulDiv(start, BPS + FAKE_MARKET_PREMIUM_BPS, BPS)
           amount == Least(Capacity(balance, price), size)
           willing == /\ price > 0 /\ price < ref
                      /\ mulDiv(ref - price, BPS, ref) >= MIN_SPREAD_BPS
                      /\ Capacity(balance, price) > 0
<1>1. \A m : whaleDecide(start, price, size, m, balance) =
               IF willing /\ amount >= m THEN amount ELSE 0
  BY DEF whaleDecide
<1>2. price > 0 => amount \in Nat
  BY CapacityType, LeastOf
<1>3. willing => price > 0
  OBVIOUS
<1> HIDE DEF willing, amount
<1> QED BY <1>1, <1>2, <1>3

LEMMA CowType ==
  ASSUME NEW price \in Nat, NEW size \in Nat, NEW balance \in Nat, NEW bids
  PROVE  cowDecide(price, size, balance, bids) \in Nat
<1> DEFINE available == Least(Capacity(balance, price), size)
           result == match(price, available, bids)
<1>1. price > 0 => available \in Nat
  BY CapacityType, LeastOf
<1>2. cowDecide(price, size, balance, bids) =
        IF /\ price > 0
           /\ result.fillAmount > 0
           /\ result.fillAmount = available
           /\ result.totalRevenue - result.totalCost >= MIN_PROFIT_RAW
          THEN result.fillAmount ELSE 0
  BY DEF cowDecide
<1> HIDE DEF result, available
<1> QED BY <1>1, <1>2

LEMMA QuoteMonotone ==
  ASSUME request \in Requests, NEW filler \in Quoters,
         NEW small \in Nat, NEW large \in Nat, small <= large
  PROVE  /\ quote(filler, small) \in Nat /\ quote(filler, large) \in Nat
         /\ quote(filler, large) <= quote(filler, small)
<1> DEFINE size == request.inputAmount
           chunk(bps) == mulDiv(size, bps, BPS)
<1>1. size \in Nat /\ floorPrice \in Nat /\ filler.balance \in Nat
  BY RequestFacts, SuggestionAssumption
<1>2. chunk(small) \in Nat /\ chunk(large) \in Nat /\ chunk(small) <= chunk(large)
  <2> HIDE DEF size
  <2>1. size * small \in Nat /\ size * large \in Nat /\ size * small <= size * large
    BY <1>1, ProductMonotone
  <2>2. /\ (size * small) \div BPS \in Nat /\ (size * large) \div BPS \in Nat
        /\ (size * small) \div BPS <= (size * large) \div BPS
    BY <2>1, SuggestionFacts, Division, QuotientMonotone
  <2> QED BY <2>2 DEF mulDiv
<1>3. /\ whaleDecide(floorPrice, floorPrice, size, chunk(small), filler.balance) \in Nat
      /\ whaleDecide(floorPrice, floorPrice, size, chunk(large), filler.balance) \in Nat
      /\ whaleDecide(floorPrice, floorPrice, size, chunk(large), filler.balance)
           <= whaleDecide(floorPrice, floorPrice, size, chunk(small), filler.balance)
  <2> HIDE DEF size, chunk
  <2> QED BY <1>1, <1>2, WhaleMonotone
<1>4. cowDecide(floorPrice, size, filler.balance, filler.bids) \in Nat
  <2> HIDE DEF size
  <2> QED BY <1>1, CowType
<1>5. \A bps : quote(filler, bps) =
        IF filler \notin answering THEN 0
        ELSE IF filler.strategy = "whale"
          THEN whaleDecide(floorPrice, floorPrice, size, chunk(bps), filler.balance)
          ELSE cowDecide(floorPrice, size, filler.balance, filler.bids)
  BY DEF quote
<1> HIDE DEF size, chunk
<1> QED BY <1>3, <1>4, <1>5

(* The larger the minimum fill, the less of the order is covered.          *)
LEMMA CoverageFalls ==
  ASSUME request \in Requests, NEW small \in Nat, NEW large \in Nat, small <= large
  PROVE  /\ simulateOrder(small) \in Nat /\ simulateOrder(large) \in Nat
         /\ simulateOrder(large) <= simulateOrder(small)
<1> DEFINE f == [filler \in Quoters |-> quote(filler, large)]
           g == [filler \in Quoters |-> quote(filler, small)]
           size == request.inputAmount
<1>1. Counted(f, Quoters) /\ Counted(g, Quoters) /\ Total(f, Quoters) <= Total(g, Quoters)
  <2>1. \A filler \in Quoters : f[filler] \in Nat /\ g[filler] \in Nat /\ f[filler] <= g[filler]
    BY QuoteMonotone
  <2>2. IsFiniteSet(Quoters)
    BY SuggestionAssumption
  <2> HIDE DEF f, g
  <2>3. Counted(g, Quoters)
    BY <2>1, <2>2 DEF Counted
  <2> QED BY <2>1, <2>3, TotalMonotone
<1> DEFINE a == Total(f, Quoters)
           b == Total(g, Quoters)
<1>2. a \in Nat /\ b \in Nat /\ a <= b
  BY <1>1, TotalType
<1>3. size \in Nat \ {0}
  BY RequestFacts
<1>4. simulateOrder(large) = (Least(a, size) * BPS) \div size
      /\ simulateOrder(small) = (Least(b, size) * BPS) \div size
  BY DEF simulateOrder, mulDiv
<1> HIDE DEF a, b, size
<1>5. Least(a, size) \in Nat /\ Least(b, size) \in Nat /\ Least(a, size) <= Least(b, size)
  BY <1>2, <1>3 DEF Least
<1> DEFINE p == Least(a, size) * BPS
           q == Least(b, size) * BPS
<1>6. p \in Nat /\ q \in Nat /\ p <= q
  BY <1>5, SuggestionFacts
<1>7. simulateOrder(large) = p \div size /\ simulateOrder(small) = q \div size
  BY <1>4
<1> HIDE DEF p, q
<1> QED BY <1>3, <1>6, <1>7, Division, QuotientMonotone

-----------------------------------------------------------------------------
LEMMA CandidateFacts ==
  /\ Len(MIN_FILL_CANDIDATES) \in Nat \ {0}
  /\ \A i \in 1..Len(MIN_FILL_CANDIDATES) : MIN_FILL_CANDIDATES[i] \in Nat
  /\ \A i, j \in 1..Len(MIN_FILL_CANDIDATES) :
       i <= j => MIN_FILL_CANDIDATES[i] <= MIN_FILL_CANDIDATES[j]
<1> DEFINE n == Len(MIN_FILL_CANDIDATES)
<1>1. /\ MIN_FILL_CANDIDATES \in Seq(0..BPS) /\ MIN_FILL_CANDIDATES # << >>
      /\ \A i, j \in 1..n : i < j => MIN_FILL_CANDIDATES[i] <= MIN_FILL_CANDIDATES[j]
  BY SuggestionAssumption
<1>2. n \in Nat \ {0} /\ \A i \in 1..n : MIN_FILL_CANDIDATES[i] \in Nat
  <2> DEFINE D == 0..BPS
  <2>1. \A x \in D : x \in Nat
    BY SuggestionFacts
  <2>2. MIN_FILL_CANDIDATES \in Seq(D)
    BY <1>1
  <2> HIDE DEF D
  <2>3. n \in Nat \ {0} /\ \A i \in 1..n : MIN_FILL_CANDIDATES[i] \in D
    BY <1>1, <2>2
  <2> QED BY <2>1, <2>3
<1> HIDE DEF n
<1>3. \A i, j \in 1..n : i <= j => MIN_FILL_CANDIDATES[i] <= MIN_FILL_CANDIDATES[j]
  <2> TAKE i, j \in 1..n
  <2>1. i \in Int /\ j \in Int
    BY <1>2
  <2>2. CASE i < j
    BY <1>1, <2>2
  <2>3. CASE i = j
    BY <1>2, <2>3
  <2>4. CASE j < i
    BY <2>1, <2>4
  <2> QED BY <2>1, <2>2, <2>3, <2>4
<1> QED BY <1>2, <1>3 DEF n

(* The coverage of the candidates falls from each to the next.             *)
LEMMA CoverageOrdered ==
  ASSUME request \in Requests,
         NEW i \in 1..Len(MIN_FILL_CANDIDATES), NEW j \in 1..Len(MIN_FILL_CANDIDATES), i <= j
  PROVE  coverage[i] \in Nat /\ coverage[j] \in Nat /\ coverage[j] <= coverage[i]
<1>1. /\ simulateOrder(MIN_FILL_CANDIDATES[i]) \in Nat
      /\ simulateOrder(MIN_FILL_CANDIDATES[j]) \in Nat
      /\ simulateOrder(MIN_FILL_CANDIDATES[j]) <= simulateOrder(MIN_FILL_CANDIDATES[i])
  BY CandidateFacts, CoverageFalls
<1> QED BY <1>1 DEF coverage

(* It is what the request and the fillers that answer make it.             *)
LEMMA SameCoverage ==
  ASSUME UNCHANGED <<request, answering>>
  PROVE  UNCHANGED coverage
BY Zenon DEF coverage, simulateOrder, quote, floorPrice

LEMMA SearchStarts == ASSUME SuggestionInit PROVE SearchInv
<1>1. /\ request \in Requests /\ lo = 1 /\ hi = Len(MIN_FILL_CANDIDATES) /\ best = 0
      /\ coverageCache = << >> /\ answered = FALSE /\ outages = 0
  BY DEF SuggestionInit
<1>2. DOMAIN coverageCache = {}
  BY <1>1
<1>3. SearchBounds /\ BestMeasured
  <2>1. Len(MIN_FILL_CANDIDATES) \in Nat \ {0}
    BY CandidateFacts
  <2>2. SearchBounds
    <3>1. answered \in BOOLEAN /\ ~answered
      BY <1>1, Zenon
    <3>2. /\ outages \in Nat /\ lo \in Nat /\ hi \in Nat /\ 1 <= lo /\ lo <= hi + 1
          /\ hi <= Len(MIN_FILL_CANDIDATES) /\ best = lo - 1
      BY <1>1, <2>1
    <3> QED BY <1>1, <3>1, <3>2, Zenon DEF SearchBounds
  <2>3. BestMeasured
    BY <1>1, <1>2 DEF BestMeasured
  <2> QED BY <2>2, <2>3
<1>4. FoundOut
  BY <1>1, <1>2, CandidateFacts DEF FoundOut
<1> QED BY <1>3, <1>4 DEF SearchInv

(* Measuring a candidate keeps what was measured of the others.            *)
LEMMA MeasuredFacts ==
  ASSUME SearchInv, NEW i \in 1..Len(MIN_FILL_CANDIDATES), Measured(i),
         UNCHANGED <<request, answering>>
  PROVE  /\ DOMAIN coverageCache' = DOMAIN coverageCache \cup {i}
         /\ DOMAIN coverageCache' \subseteq 1..Len(MIN_FILL_CANDIDATES)
         /\ coverageCache'[i] = coverageAt(i)
         /\ \A j \in DOMAIN coverageCache : coverageCache'[j] = coverageCache[j]
         /\ outages = 0 =>
              /\ coverageAt(i) = coverage[i]
              /\ \A j \in DOMAIN coverageCache' : coverageCache'[j] = coverage[j]
<1>1. coverageCache' = [j \in DOMAIN coverageCache \cup {i} |->
                          IF j = i THEN coverageAt(i) ELSE coverageCache[j]]
  BY DEF Measured
<1>2. i \in DOMAIN coverageCache => coverageAt(i) = coverageCache[i]
  BY DEF coverageAt
<1>3. i \notin DOMAIN coverageCache => coverageAt(i) = coverage[i]
  BY DEF coverageAt, coverage
<1>4. outages = 0 => \A j \in DOMAIN coverageCache : coverageCache[j] = coverage[j]
  BY DEF SearchInv, FoundOut
<1>5. DOMAIN coverageCache \subseteq 1..Len(MIN_FILL_CANDIDATES)
  BY DEF SearchInv, BestMeasured
<1> QED BY <1>1, <1>2, <1>3, <1>4, <1>5, Zenon

LEMMA SearchGoesOn ==
  ASSUME SearchInv, SearchStep
  PROVE  SearchInv'
<1> DEFINE mid == (lo + hi) \div 2
           n == Len(MIN_FILL_CANDIDATES)
           met == coverageAt(mid) >= request.targetBps
<1>1. /\ request \in Requests /\ answered \in BOOLEAN /\ outages \in Nat /\ n \in Nat
      /\ lo \in Nat /\ hi \in Nat /\ 1 <= lo /\ hi <= n /\ best = lo - 1
      /\ (answered => lo > hi)
  BY CandidateFacts DEF SearchInv, SearchBounds
<1>2. /\ lo <= hi /\ Measured(mid)
      /\ IF met THEN best' = mid /\ lo' = mid + 1 /\ UNCHANGED hi
                ELSE hi' = mid - 1 /\ UNCHANGED <<lo, best>>
      /\ UNCHANGED <<request, answered, answering, outages>>
  BY DEF SearchStep, Searching
<1>3. mid \in Nat /\ lo <= mid /\ mid <= hi /\ mid \in 1..n
  BY <1>1, <1>2
<1>4. /\ DOMAIN coverageCache' = DOMAIN coverageCache \cup {mid}
      /\ DOMAIN coverageCache' \subseteq 1..n
      /\ coverageCache'[mid] = coverageAt(mid)
      /\ \A j \in DOMAIN coverageCache : coverageCache'[j] = coverageCache[j]
      /\ outages = 0 =>
           /\ coverageAt(mid) = coverage[mid]
           /\ \A j \in DOMAIN coverageCache' : coverageCache'[j] = coverage[j]
  <2> HIDE DEF mid, met
  <2> QED BY <1>2, <1>3, MeasuredFacts
<1>5. UNCHANGED coverage
  BY <1>2, SameCoverage
<1> HIDE DEF mid
<1>6. SearchBounds'
  <2> HIDE DEF met
  <2> QED BY <1>1, <1>2, <1>3 DEF SearchBounds, n
<1>7. BestMeasured'
  <2>1. best > 0 => best \in DOMAIN coverageCache /\ coverageCache[best] >= request.targetBps
    BY DEF SearchInv, BestMeasured
  <2>2. CASE met
    BY <1>2, <1>4, <2>2 DEF BestMeasured, n
  <2>3. CASE ~met
    BY <1>2, <1>4, <2>1, <2>3 DEF BestMeasured, n
  <2> QED BY <2>2, <2>3
<1>8. ASSUME outages = 0
      PROVE  FoundOut'
  <2>1. \A i \in 1..n : /\ i < lo => coverage[i] >= request.targetBps
                        /\ i > hi => coverage[i] < request.targetBps
    BY <1>8 DEF SearchInv, FoundOut, n
  <2>2. \A i \in 1..n : /\ coverage[i] \in Nat
                        /\ i <= mid => coverage[mid] <= coverage[i]
                        /\ mid <= i => coverage[i] <= coverage[mid]
    <3> TAKE i \in 1..n
    <3>1. i \in Int /\ mid \in Int
      BY <1>1, <1>3
    <3>2. CASE i <= mid
      BY <1>1, <1>3, <3>2, <3>1, CoverageOrdered DEF n
    <3>3. CASE mid <= i
      BY <1>1, <1>3, <3>3, <3>1, CoverageOrdered DEF n
    <3> QED BY <3>1, <3>2, <3>3
  <2>3. coverage[mid] \in Nat /\ request.targetBps \in Nat /\ coverageAt(mid) = coverage[mid]
    <3>1. request.targetBps \in Nat
      BY <1>1, RequestFacts
    <3> HIDE DEF met
    <3> QED BY <1>3, <1>4, <1>8, <2>2, <3>1
  <2>4. \A i \in 1..n : /\ i < lo' => coverage[i] >= request.targetBps
                        /\ i > hi' => coverage[i] < request.targetBps
    <3>1. CASE met
      <4>1. coverage[mid] >= request.targetBps /\ lo' = mid + 1 /\ hi' = hi
        BY <1>2, <2>3, <3>1
      <4> HIDE DEF met
      <4> QED BY <1>1, <1>3, <2>1, <2>2, <2>3, <4>1
    <3>2. CASE ~met
      <4>1. coverage[mid] < request.targetBps /\ hi' = mid - 1 /\ lo' = lo
        BY <1>2, <2>3, <3>2
      <4> HIDE DEF met
      <4> QED BY <1>1, <1>3, <2>1, <2>2, <2>3, <4>1
    <3> QED BY <3>1, <3>2
  <2>5. \A i \in DOMAIN coverageCache' : coverageCache'[i] = coverage'[i]
    BY <1>4, <1>5, <1>8
  <2>6. \A i \in 1..n : /\ i < lo' => coverage'[i] >= request'.targetBps
                        /\ i > hi' => coverage'[i] < request'.targetBps
    BY <1>2, <1>5, <2>4
  <2> QED BY <2>5, <2>6 DEF FoundOut, n
<1> QED BY <1>2, <1>6, <1>7, <1>8 DEF SearchInv

LEMMA SearchAnswers ==
  ASSUME SearchInv, Respond
  PROVE  SearchInv'
<1> DEFINE n == Len(MIN_FILL_CANDIDATES)
<1>1. /\ ~(lo <= hi) /\ Measured(chosen) /\ answered' = TRUE
      /\ UNCHANGED <<request, lo, hi, best, answering, outages>>
  BY DEF Respond, Searching
<1>2. /\ lo \in Nat /\ hi \in Nat /\ 1 <= lo /\ lo <= hi + 1 /\ hi <= n /\ best = lo - 1
      /\ n \in Nat \ {0}
  BY CandidateFacts DEF SearchInv, SearchBounds
<1>3. chosen \in 1..n
  BY <1>1, <1>2 DEF chosen
<1>4. /\ DOMAIN coverageCache' = DOMAIN coverageCache \cup {chosen}
      /\ DOMAIN coverageCache' \subseteq 1..n
      /\ \A j \in DOMAIN coverageCache : coverageCache'[j] = coverageCache[j]
      /\ outages = 0 => \A j \in DOMAIN coverageCache' : coverageCache'[j] = coverage[j]
  BY <1>1, <1>3, MeasuredFacts
<1>5. UNCHANGED coverage
  BY <1>1, SameCoverage
<1>6. SearchBounds'
  BY <1>1, <1>2 DEF SearchInv, SearchBounds
<1>7. BestMeasured'
  BY <1>1, <1>4 DEF SearchInv, BestMeasured
<1>8. outages = 0 => FoundOut'
  BY <1>1, <1>4, <1>5 DEF SearchInv, FoundOut
<1> QED BY <1>1, <1>6, <1>7, <1>8 DEF SearchInv

LEMMA SearchHolds == SuggestionSpec => []SearchInv
<1>1. ASSUME SearchInv, [SuggestionNext]_suggestionVars
      PROVE  SearchInv'
  <2>1. CASE Outage
    <3>1. UNCHANGED <<request, searchVars>> /\ outages' = outages + 1
      BY <2>1 DEF Outage
    <3>2. UNCHANGED <<request, lo, hi, best, coverageCache, answered>>
      BY <3>1 DEF searchVars
    <3>3. outages' \in Nat /\ outages' # 0
      BY <1>1, <3>1 DEF SearchInv, SearchBounds
    <3>4. SearchBounds'
      BY <1>1, <3>2, <3>3 DEF SearchInv, SearchBounds
    <3>5. BestMeasured'
      BY <1>1, <3>2 DEF SearchInv, BestMeasured
    <3> QED BY <3>3, <3>4, <3>5 DEF SearchInv
  <2>2. CASE UNCHANGED suggestionVars
    <3>1. UNCHANGED <<request, lo, hi, best, coverageCache, answered, answering, outages>>
      BY <2>2 DEF suggestionVars, searchVars
    <3>2. UNCHANGED coverage
      BY <3>1, SameCoverage
    <3> QED BY <1>1, <3>1, <3>2 DEF SearchInv, SearchBounds, BestMeasured, FoundOut
  <2> QED BY <1>1, <2>1, <2>2, SearchGoesOn, SearchAnswers DEF SuggestionNext
<1> QED BY <1>1, SearchStarts, PTL DEF SuggestionSpec

(* However often fillers come and go, an order with the suggested          *)
(* parameters can be filled at any block of its window: any part of it pays*)
(* its share of the minimum output (suggest.ts).                           *)
THEOREM SuggestionsStayPayable == SuggestionSpec => []SuggestionStaysPayable
<1>1. SearchInv => SuggestionStaysPayable
  BY SuggestionPays DEF SearchInv, SearchBounds, SuggestionStaysPayable
<1> QED BY <1>1, SearchHolds, PTL

(* The binary search over the candidates finds the largest that meets the  *)
(* target while the fillers stay as they are, and stands by what it        *)
(* measured when they do not (suggest.ts, fillerSim.ts).                   *)
THEOREM SearchFindsLargest == SuggestionSpec => []LargestMinimum
<1>1. ASSUME SearchInv
      PROVE  LargestMinimum
  <2> DEFINE n == Len(MIN_FILL_CANDIDATES)
             good == {i \in 1..n : simulateOrder(MIN_FILL_CANDIDATES[i]) >= request.targetBps}
  <2>1. /\ lo \in Nat /\ hi \in Nat /\ 1 <= lo /\ lo <= hi + 1 /\ hi <= n /\ best = lo - 1
        /\ (answered => lo > hi) /\ n \in Nat /\ request \in Requests
    BY <1>1, CandidateFacts DEF SearchInv, SearchBounds
  <2>2. best > 0 => coverageCache[chosen] >= request.targetBps
    BY <1>1 DEF SearchInv, BestMeasured, chosen
  <2>3. ASSUME answered, outages = 0
        PROVE  best = Max({0} \cup good)
    <3>1. \A i \in 1..n : /\ coverage[i] = simulateOrder(MIN_FILL_CANDIDATES[i])
                          /\ i < lo => coverage[i] >= request.targetBps
                          /\ i > hi => coverage[i] < request.targetBps
                          /\ coverage[i] \in Nat
      BY <1>1, <2>1, <2>3, CoverageOrdered DEF SearchInv, FoundOut, coverage
    <3>2. request.targetBps \in Nat
      BY <2>1, RequestFacts
    <3>3. best \in {0} \cup good /\ best \in Int /\ \A i \in {0} \cup good : i \in Int /\ best >= i
      BY <2>1, <2>3, <3>1, <3>2
    <3> HIDE DEF good
    <3>4. \A x \in {0} \cup good : (\A i \in {0} \cup good : x >= i) => x = best
      BY <3>3
    <3> QED BY <3>3, <3>4, Zenon DEF Max
  <2> QED BY <2>2, <2>3 DEF LargestMinimum
<1> QED BY <1>1, SearchHolds, PTL

-----------------------------------------------------------------------------
(* The swap page.                                                          *)
LEMMA FormStrategy ==
  /\ Unit \in Nat \ {0} /\ BPS \in Nat \ {0} /\ BPS + START_PREMIUM_BPS \in Nat
  /\ BPS - FLOOR_SLIPPAGE_BPS \in Nat /\ AUCTION_BLOCKS \in Nat \ {0}
  /\ DECAY_PER_BLOCK_MAX \in Nat
<1>1. Unit \in Nat \ {0}
  BY StrategyAssumption, Zenon
<1>2. START_PREMIUM_BPS \in Nat /\ FLOOR_SLIPPAGE_BPS \in 0..BPS
  BY FormAssumption, Zenon
<1>3. AUCTION_BLOCKS \in Nat \ {0} /\ DECAY_PER_BLOCK_MAX \in Nat
  BY FormAssumption, Zenon
<1>4. /\ BPS \in Nat \ {0} /\ BPS + START_PREMIUM_BPS \in Nat
      /\ BPS - FLOOR_SLIPPAGE_BPS \in Nat
  <2>1. \A x \in 0..BPS : BPS - x \in Nat
    BY DEF BPS
  <2>2. BPS \in Nat \ {0} /\ \A x \in Nat : BPS + x \in Nat
    BY DEF BPS
  <2> QED BY <1>2, <2>1, <2>2, Zenon
<1> QED BY <1>1, <1>3, <1>4, Zenon

LEMMA CalcType ==
  ASSUME NEW inWei \in Nat \ {0}, NEW outWei \in Nat
  PROVE  calcStartPrice(inWei, outWei) \in Nat
BY FormStrategy, MulDivNat DEF calcStartPrice

(* The order a press of Swap signs.                                        *)
LEMMA SignedBody ==
  ASSUME inAmt \in Nat \ {0}, outAmt \in Nat, manualDecay \in Nat
  PROVE  orderBody \in Body /\ AboveFloor(orderBody)
<1>1. startOut \in Nat /\ floorOut \in Nat
  BY FormStrategy, MulDivNat DEF startOut, floorOut
<1>2. sp \in Nat /\ floorRate \in Nat
  BY <1>1, CalcType DEF sp, floorRate
<1>3. sweep \in Nat /\ (sp > floorRate => sweep <= (sp - floorRate) \div AUCTION_BLOCKS)
  <2>1. sp > floorRate => (sp - floorRate) \div AUCTION_BLOCKS \in Nat
    <3>1. sp > floorRate => sp - floorRate \in Nat
      BY <1>2
    <3> QED BY <3>1, FormStrategy, Division
  <2> QED BY <2>1, FormStrategy, LeastOf DEF sweep
<1>4. orderBody \in Body
  BY <1>1, <1>2, <1>3 DEF orderBody, Body
<1>5. ASSUME sp > floorRate
      PROVE  floorRate < sp - sweep * (AUCTION_BLOCKS - 1)
  <2> DEFINE gap == sp - floorRate
             d   == gap \div AUCTION_BLOCKS
  <2>1. gap \in Nat \ {0} /\ AUCTION_BLOCKS \in Nat \ {0} /\ sweep \in Nat
    BY <1>2, <1>3, <1>5, FormStrategy
  <2>2. d \in Nat /\ d * AUCTION_BLOCKS <= gap /\ sweep <= d
    BY <1>3, <1>5, <2>1, Division
  <2> HIDE DEF d
  <2>3. AUCTION_BLOCKS * sweep <= AUCTION_BLOCKS * d
    BY <2>1, <2>2, ProductMonotone
  <2>4. /\ AUCTION_BLOCKS * sweep = sweep * AUCTION_BLOCKS /\ sweep * AUCTION_BLOCKS \in Nat
        /\ AUCTION_BLOCKS * d = d * AUCTION_BLOCKS /\ d * AUCTION_BLOCKS \in Nat
        /\ sweep * (AUCTION_BLOCKS - 1) = sweep * AUCTION_BLOCKS - sweep
    BY <2>1, <2>2
  <2>5. sweep * AUCTION_BLOCKS <= gap
    BY <2>1, <2>2, <2>3, <2>4
  <2>6. sweep * (AUCTION_BLOCKS - 1) < gap
    <3>1. CASE sweep = 0
      BY <2>1, <3>1
    <3>2. CASE sweep # 0
      <4> DEFINE all == sweep * AUCTION_BLOCKS
      <4>1. all \in Nat /\ all <= gap /\ sweep * (AUCTION_BLOCKS - 1) = all - sweep
        BY <2>4, <2>5
      <4> HIDE DEF all
      <4> QED BY <2>1, <3>2, <4>1
    <3> QED BY <3>1, <3>2
  <2>7. sweep * (AUCTION_BLOCKS - 1) \in Int
    BY <2>1, <2>4
  <2> QED BY <1>2, <2>6, <2>7
<1>6. AboveFloor(orderBody)
  <2>1. ASSUME orderBody.swept, orderBody.resolved
        PROVE  /\ calcStartPrice(orderBody.inputAmount, orderBody.minOutputAmount) = floorRate
               /\ orderBody.startPrice = sp /\ orderBody.decayPerBlock = sweep
               /\ sp > floorRate
    <3>1. orderBody.swept = (manualDecay = 0) /\ orderBody.resolved = (sp > floorRate)
      BY Zenon DEF orderBody
    <3>2. manualDecay = 0 /\ sp > floorRate
      BY <2>1, <3>1, Zenon
    <3>3. /\ orderBody.inputAmount = inAmt /\ orderBody.minOutputAmount = floorOut
          /\ orderBody.startPrice = sp
          /\ orderBody.decayPerBlock = IF manualDecay > 0 THEN manualDecay ELSE sweep
      BY Zenon DEF orderBody
    <3> QED BY <3>2, <3>3 DEF floorRate
  <2> QED BY <1>5, <2>1 DEF AboveFloor
<1> QED BY <1>4, <1>6

(* What is above the floor's rate at the last block pays the floor for any *)
(* part in every block.                                                    *)
LEMMA BodyPays ==
  ASSUME NEW b \in Body, AboveFloor(b), b.swept, b.resolved,
         NEW blocks \in 0 .. AUCTION_BLOCKS - 1, NEW fill \in 1 .. b.inputAmount
  PROVE  mulDiv(b.minOutputAmount, fill, b.inputAmount)
           <= mulDiv(fill, b.startPrice - b.decayPerBlock * blocks, Unit)
<1> DEFINE n == b.inputAmount
           F == b.minOutputAmount
           rate == calcStartPrice(n, F)
           price == b.startPrice - b.decayPerBlock * blocks
<1>1. /\ n \in Nat \ {0} /\ F \in Nat /\ b.startPrice \in Nat /\ b.decayPerBlock \in Nat
      /\ fill \in Nat /\ rate \in Nat
  <2>1. n \in Nat \ {0} /\ F \in Nat /\ b.startPrice \in Nat /\ b.decayPerBlock \in Nat
    BY DEF Body
  <2>2. rate \in Nat
    BY <2>1, CalcType, Zenon
  <2> HIDE DEF rate, F
  <2>3. fill \in Nat
    BY <2>1
  <2> QED BY <2>1, <2>2, <2>3, Zenon
<1>2. AUCTION_BLOCKS - 1 \in Nat /\ blocks \in Nat /\ blocks <= AUCTION_BLOCKS - 1
  BY FormStrategy
<1>3. b.decayPerBlock * blocks <= b.decayPerBlock * (AUCTION_BLOCKS - 1)
  BY <1>1, <1>2, ProductMonotone
<1>4. rate < b.startPrice - b.decayPerBlock * (AUCTION_BLOCKS - 1)
  BY DEF AboveFloor
<1>5. b.decayPerBlock * blocks \in Nat /\ b.decayPerBlock * (AUCTION_BLOCKS - 1) \in Nat
  BY <1>1, <1>2
<1>6. price \in Nat /\ rate + 1 <= price
  <2>1. PICK start \in Nat, some \in Nat, all \in Nat, least \in Nat :
          /\ start = b.startPrice /\ least = rate
          /\ some = b.decayPerBlock * blocks /\ all = b.decayPerBlock * (AUCTION_BLOCKS - 1)
    BY <1>1, <1>5, Zenon
  <2>2. some <= all /\ least < start - all
    BY <1>3, <1>4, <2>1, Zenon
  <2>3. start - some \in Nat /\ least + 1 <= start - some
    BY <2>2
  <2> QED BY <2>1, <2>3, Zenon
<1>7. F * Unit \in Nat /\ F * Unit < rate * n + n
  BY <1>1, FormStrategy, Division DEF calcStartPrice, mulDiv
<1> HIDE DEF n, F, rate, price
<1>8. n * (rate + 1) <= n * price
  BY <1>1, <1>6, ProductMonotone
<1>9. n * (rate + 1) = rate * n + n /\ n * price \in Nat /\ rate * n \in Nat
  BY <1>1, <1>6
<1>10. F * Unit <= n * price
  BY <1>1, <1>7, <1>8, <1>9
<1>11. mulDiv(F, fill, n) <= mulDiv(fill, price, Unit)
  BY <1>1, <1>6, <1>10, FormStrategy, PartPays
<1> QED BY <1>11 DEF n, F, price

-----------------------------------------------------------------------------
LEMMA FormInitInv == ASSUME FormInit PROVE FormInv
<1>1. PICK k \in Tokens :
        /\ inKey = k /\ inAmt = 0 /\ outAmt = 0 /\ manualDecay = 0
        /\ debounced = 0 /\ quotes = {}
        /\ step = "checking" /\ checks = [t \in Tokens |-> IF t = k THEN 1 ELSE 0]
        /\ approvals \in [Tokens -> 0..3] /\ approving = {}
        /\ signing = {} /\ card = FALSE /\ inputs = 0
  BY DEF FormInit
<1>2. checks \in [Tokens -> Nat] /\ checks[k] > 0
  BY <1>1
<1>3. WaitsEnd
  BY <1>1, <1>2 DEF WaitsEnd
<1> QED BY <1>1, <1>2, <1>3 DEF FormInv

(* A read of a token's approvals is under way from here on.                *)
LEMMA CheckStarts ==
  ASSUME FormInv, NEW k \in Tokens, CheckApproval(k)
  PROVE  checks' \in [Tokens -> Nat] /\ step' = "checking" /\ WaitsEnd'
<1>1. checks' = [checks EXCEPT ![k] = @ + 1] /\ step' = "checking"
  BY DEF CheckApproval
<1>2. checks' \in [Tokens -> Nat] /\ checks'[k] > 0
  BY <1>1 DEF FormInv
<1> QED BY <1>1, <1>2 DEF WaitsEnd

LEMMA FieldStep ==
  ASSUME FormInv,
         \/ \E a \in Amounts : TypeInput(a) \/ TypeOutput(a)
         \/ \E d \in Decays : SetDecay(d)
         \/ \E k \in Tokens : ChooseToken(k) \/ Flip(k)
         \/ AskQuote
         \/ \E a \in quotes : QuoteAnswers(a)
  PROVE  FormInv'
<1>0. /\ Amounts \subseteq Nat /\ Decays \subseteq Nat /\ quotes \subseteq Nat
      /\ inAmt \in Nat /\ outAmt \in Nat
  BY FormAssumption DEF FormInv
<1>1. UNCHANGED <<approvals, approving, signing, card>>
  BY DEF TypeInput, TypeOutput, SetDecay, ChooseToken, Flip, AskQuote, QuoteAnswers, approvalVars
<1>2. checks' \in [Tokens -> Nat] /\ WaitsEnd'
      /\ step' \in {"checking", "idle", "erc20", "p2", "ready", "busy"}
  <2>1. CASE UNCHANGED <<step, checks>>
    BY <1>1, <2>1 DEF FormInv, WaitsEnd
  <2>2. CASE \E k \in Tokens : CheckApproval(k)
    BY <2>2, CheckStarts
  <2> QED BY <2>1, <2>2 DEF TypeInput, TypeOutput, SetDecay, ChooseToken, Flip, AskQuote,
             QuoteAnswers, approvalVars
<1>3. /\ inKey' \in Tokens /\ inAmt' \in Nat /\ outAmt' \in Nat /\ manualDecay' \in Nat
      /\ debounced' \in Nat /\ quotes' \subseteq Nat
  <2>1. ASSUME NEW a \in Amounts, TypeInput(a) \/ TypeOutput(a)
        PROVE  <1>3!:
    BY <1>0, <2>1 DEF TypeInput, TypeOutput, AutoQuote, FormInv
  <2>2. ASSUME NEW d \in Decays, SetDecay(d)
        PROVE  <1>3!:
    BY <1>0, <2>2 DEF SetDecay, FormInv
  <2>3. ASSUME NEW k \in Tokens, ChooseToken(k) \/ Flip(k)
        PROVE  <1>3!:
    BY <1>0, <2>3 DEF ChooseToken, Flip, AutoQuote, FormInv
  <2>4. CASE AskQuote
    BY <1>0, <2>4 DEF AskQuote, FormInv
  <2>5. ASSUME NEW a \in quotes, QuoteAnswers(a)
        PROVE  <1>3!:
    <3>1. \A rate \in Rates : mulDiv(a, rate, Unit) \in Nat
      BY <1>0, FormAssumption, FormStrategy, MulDivNat
    <3> QED BY <1>0, <2>5, <3>1 DEF QuoteAnswers, FormInv
  <2> QED BY <2>1, <2>2, <2>3, <2>4, <2>5
<1> QED BY <1>1, <1>2, <1>3 DEF FormInv

LEMMA ApprovalStep ==
  ASSUME FormInv,
         \/ \E k \in Tokens : CheckAnswers(k)
         \/ Approve
         \/ \E a \in approving : ApprovalMined(a) \/ ApprovalFails(a)
  PROVE  FormInv'
<1>0. UNCHANGED <<inKey, inAmt, outAmt, manualDecay, debounced, quotes, signing, card>>
  BY DEF CheckAnswers, Approve, ApprovalMined, ApprovalFails, fieldVars
<1>1. ASSUME NEW k \in Tokens, CheckAnswers(k)
      PROVE  FormInv'
  <2>1. /\ checks' \in [Tokens -> Nat] /\ step' \in {"idle", "erc20", "p2", "ready"}
        /\ UNCHANGED <<approvals, approving>>
    BY <1>1 DEF CheckAnswers, FormInv
  <2> QED BY <1>0, <2>1 DEF FormInv, WaitsEnd
<1>2. CASE Approve
  <2> DEFINE sent == [kind |-> step, token |-> inKey]
  <2>1. sent \in [kind : {"erc20", "p2"}, token : Tokens]
    BY <1>2 DEF Approve, FormInv
  <2>2. /\ approving' = approving \cup {sent}
        /\ step' = "busy" /\ UNCHANGED <<approvals, checks>>
    BY <1>2 DEF Approve
  <2> HIDE DEF sent
  <2>3. approving' \subseteq [kind : {"erc20", "p2"}, token : Tokens] /\ approving' # {}
    BY <2>1, <2>2 DEF FormInv
  <2> QED BY <1>0, <2>2, <2>3 DEF FormInv, WaitsEnd
<1>3. ASSUME NEW a \in approving, ApprovalMined(a)
      PROVE  FormInv'
  <2> DEFINE had == approvals[a.token]
             has == IF a.kind = "erc20" THEN IF had = 0 THEN 1 ELSE had
                    ELSE IF had < 2 THEN 2 ELSE 3
  <2>1. a.token \in Tokens /\ had \in 0..3
    BY DEF FormInv
  <2>2. has \in 0..3
    BY <2>1
  <2>3. approvals' = [approvals EXCEPT ![a.token] = has]
        /\ (\/ UNCHANGED <<approving, step, checks>>
            \/ approving' = approving \ {a} /\ CheckApproval(a.token))
    BY <1>3 DEF ApprovalMined
  <2> HIDE DEF has
  <2>4. approvals' \in [Tokens -> 0..3]
    BY <2>2, <2>3 DEF FormInv
  <2>5. CASE UNCHANGED <<approving, step, checks>>
    BY <1>0, <2>4, <2>5 DEF FormInv, WaitsEnd
  <2>6. CASE approving' = approving \ {a} /\ CheckApproval(a.token)
    BY <1>0, <2>1, <2>4, <2>6, CheckStarts DEF FormInv
  <2> QED BY <2>3, <2>5, <2>6
<1>4. ASSUME NEW a \in approving, ApprovalFails(a)
      PROVE  FormInv'
  <2>1. /\ approving' \subseteq [kind : {"erc20", "p2"}, token : Tokens]
        /\ step' \in {"erc20", "p2"} /\ UNCHANGED <<approvals, checks>>
    BY <1>4 DEF ApprovalFails, FormInv
  <2> QED BY <1>0, <2>1 DEF FormInv, WaitsEnd
<1> QED BY <1>1, <1>2, <1>3, <1>4

LEMMA OrderStep ==
  ASSUME FormInv,
         \/ DecayRefused \/ DoSwap \/ Back
         \/ \E b \in signing : Posted(b) \/ SwapFails(b)
  PROVE  FormInv'
<1>0. UNCHANGED <<inKey, inAmt, outAmt, manualDecay, debounced, quotes, approvals, approving>>
  BY DEF DecayRefused, DoSwap, Back, Posted, SwapFails, fieldVars, approvalVars
<1>1. CASE DecayRefused
  <2>1. step' = "ready" /\ UNCHANGED <<checks, signing, card>>
    BY <1>1 DEF DecayRefused
  <2> QED BY <1>0, <2>1 DEF FormInv, WaitsEnd
<1>2. CASE DoSwap
  <2>1. /\ step' = "busy" /\ signing' = signing \cup {orderBody} /\ UNCHANGED <<checks, card>>
        /\ inAmt > 0
    BY <1>2 DEF DoSwap, canSwap
  <2>2. orderBody \in Body /\ AboveFloor(orderBody)
    BY <2>1, SignedBody DEF FormInv
  <2>3. \A b \in signing' : b \in Body /\ AboveFloor(b)
    BY <2>1, <2>2 DEF FormInv
  <2>4. WaitsEnd'
    BY <2>1 DEF WaitsEnd
  <2> QED BY <1>0, <2>1, <2>3, <2>4 DEF FormInv
<1>3. CASE Back
  <2>1. card' = FALSE /\ CheckApproval(inKey) /\ inKey \in Tokens /\ UNCHANGED signing
    BY <1>3 DEF Back, FormInv
  <2> QED BY <1>0, <2>1, CheckStarts DEF FormInv
<1>4. ASSUME NEW b \in signing, Posted(b)
      PROVE  FormInv'
  <2>1. card' = TRUE /\ signing' \subseteq signing /\ UNCHANGED <<step, checks>>
    BY <1>4 DEF Posted, approvalVars
  <2> QED BY <1>0, <2>1 DEF FormInv, WaitsEnd
<1>5. ASSUME NEW b \in signing, SwapFails(b)
      PROVE  FormInv'
  <2>1. step' = "ready" /\ signing' \subseteq signing /\ UNCHANGED <<checks, card>>
    BY <1>5 DEF SwapFails
  <2> QED BY <1>0, <2>1 DEF FormInv, WaitsEnd
<1> QED BY <1>1, <1>2, <1>3, <1>4, <1>5

LEMMA FormHolds == FormSpec => []FormInv
<1>1. ASSUME FormInv, [FormNext]_formVars
      PROVE  FormInv'
  <2>1. CASE UNCHANGED formVars
    <3>1. UNCHANGED <<inKey, inAmt, outAmt, manualDecay, debounced, quotes, step, approvals,
                      checks, approving, signing, card>>
      BY <2>1 DEF formVars, fieldVars, approvalVars
    <3> QED BY <1>1, <3>1 DEF FormInv, WaitsEnd
  <2> QED BY <1>1, <2>1, FieldStep, ApprovalStep, OrderStep DEF FormNext
<1> QED BY <1>1, FormInitInv, PTL DEF FormSpec

(* However the page's fields came to what they are, and whatever answered  *)
(* late, an order whose decay the page worked out pays its signed floor for*)
(* any part of it in any block up to its deadline (DutchAuction.tsx).      *)
THEOREM SweptOrdersPayTheFloor == FormSpec => []SweepStaysFillable
<1>1. FormInv => SweepStaysFillable
  BY BodyPays DEF FormInv, SweepStaysFillable
<1> QED BY <1>1, FormHolds, PTL

(* A button of the page that waits always has something to wait for.       *)
THEOREM FormNeverStuck == FormSpec => []WaitsEnd
<1>1. FormInv => WaitsEnd
  BY DEF FormInv
<1> QED BY <1>1, FormHolds, PTL

-----------------------------------------------------------------------------
(* A callback's next log is one of the earliest stream it has logs of.     *)
LEMMA FirstLogIs ==
  ASSUME NEW todo, todo \subseteq Nat \X Nat, todo # {}
  PROVE  FirstLog(todo) \in todo /\ \A d \in todo : FirstLog(todo)[1] <= d[1]
<1> DEFINE S == {d[1] : d \in todo}
<1>1. PICK m \in S : \A n \in S : m <= n
  <2>1. S \subseteq Nat /\ S # {}
    OBVIOUS
  <2> HIDE DEF S
  <2> QED BY <2>1, LeastExists
<1> DEFINE B == {d[2] : d \in {x \in todo : x[1] = m}}
<1>2. PICK b \in B : \A n \in B : b <= n
  <2>1. B \subseteq Nat /\ B # {}
    OBVIOUS
  <2> HIDE DEF B
  <2> QED BY <2>1, LeastExists
<1>3. PICK e \in todo : e[1] = m /\ e[2] = b
  OBVIOUS
<1>4. \A d \in todo : e[1] < d[1] \/ (e[1] = d[1] /\ e[2] <= d[2])
  <2> TAKE d \in todo
  <2>1. d[1] \in S /\ m <= d[1] /\ m \in Nat /\ d[1] \in Nat
    BY <1>1
  <2>2. d[1] = m => d[2] \in B /\ b <= d[2]
    BY <1>2
  <2> QED BY <1>3, <2>1, <2>2
<1>5. FirstLog(todo) \in todo
      /\ \A d \in todo : FirstLog(todo)[1] < d[1]
                         \/ (FirstLog(todo)[1] = d[1] /\ FirstLog(todo)[2] <= d[2])
  BY <1>4 DEF FirstLog
<1>6. \A d \in todo : d[1] \in Nat
  OBVIOUS
<1> HIDE DEF S, B
<1> QED BY <1>5, <1>6

(* Of a log that was read, its stream, block, stake and kind.              *)
LEMMA FoundFacts ==
  ASSUME IndexTypes, NEW b \in Nat, b <= Tip, NEW e \in Found(1, b)
  PROVE  /\ e \in Nat \X Nat /\ e = <<e[1], e[2]>>
         /\ e[1] \in 1..5 /\ e[2] \in 1..b /\ e[2] \in 1..Tip
         /\ stakeLog[e[2]].stake \in Stakes
         /\ stakeLog[e[2]].kind \in Queried(e[1])
         /\ stakeLog[e[2]].kind \in Resolution \cup {"registered"}
         /\ e[1] = 1 => stakeLog[e[2]].kind = "registered"
         /\ e[1] = 3 => stakeLog[e[2]].kind = "docked"
         /\ e[1] \in {2, 4, 5} => stakeLog[e[2]].kind \in Resolution
         /\ e[1] = 2 => Final(stakeLog[e[2]].kind) = "filled"
         /\ e[1] = 4 => Final(stakeLog[e[2]].kind) = "slashed"
         /\ e[1] = 5 => Final(stakeLog[e[2]].kind) = "released"
<1>1. /\ e \in (1..5) \X (1..b) /\ stakeLog[e[2]].kind \in Queried(e[1])
  BY DEF Found
<1>2. Tip \in Nat /\ stakeLog \in Seq([kind : Resolution \cup {"registered"}, stake : Stakes])
  BY DEF IndexTypes, Tip
<1>3. /\ e \in Nat \X Nat /\ e = <<e[1], e[2]>>
      /\ e[1] \in 1..5 /\ e[2] \in 1..b /\ e[2] \in 1..Tip
  BY <1>1, <1>2
<1>4. stakeLog[e[2]] \in [kind : Resolution \cup {"registered"}, stake : Stakes]
  <2> DEFINE T == [kind : Resolution \cup {"registered"}, stake : Stakes]
             i == e[2]
  <2>1. stakeLog \in Seq(T) /\ i \in 1..Len(stakeLog)
    BY <1>2, <1>3 DEF Tip
  <2> HIDE DEF T, i
  <2>2. stakeLog[i] \in T
    BY <2>1
  <2> QED BY <2>2 DEF T, i
<1>5. e[1] = 1 \/ e[1] = 2 \/ e[1] = 3 \/ e[1] = 4 \/ e[1] = 5
  BY <1>3
<1> QED
  BY <1>1, <1>3, <1>4, <1>5 DEF Queried, Resolution, Final

-----------------------------------------------------------------------------
(* What no step takes back: the log of the chain grows at its end, and what*)
(* a row shows it keeps.                                                   *)
Keeps ==
  /\ Tip' \in Nat /\ Tip <= Tip'
  /\ \A i \in 1..Tip : stakeLog'[i] = stakeLog[i]
  /\ \A b \in Nat : b <= Tip => \A e \in Found(1, b) : Shown(e) => Shown(e)'

LEMMA KeepsCovered ==
  ASSUME IndexTypes, Keeps
  PROVE  /\ \A b \in Nat : b <= Tip => b <= Tip' /\ Found(1, b)' = Found(1, b)
         /\ \A b \in Nat : Covers(b) => Covers(b)'
         /\ started \subseteq started' => \A p \in Poll : Fits(p) => Fits(p)'
<1>1. Tip \in Nat
  BY DEF IndexTypes, Tip
<1>2. ASSUME NEW b \in Nat, b <= Tip
      PROVE  b <= Tip' /\ Found(1, b)' = Found(1, b)
  <2>1. b <= Tip'
    BY <1>1, <1>2 DEF Keeps
  <2>2. \A e \in (1..5) \X (1..b) : stakeLog'[e[2]] = stakeLog[e[2]]
    <3> TAKE e \in (1..5) \X (1..b)
    <3>1. e[2] \in 1..Tip
      BY <1>1, <1>2
    <3> QED BY <3>1 DEF Keeps
  <2> QED BY <2>1, <2>2 DEF Found
<1>3. ASSUME NEW b \in Nat, Covers(b)
      PROVE  Covers(b)'
  <2>1. b <= Tip /\ \A e \in Found(1, b) : Shown(e)
    BY <1>3 DEF Covers
  <2>2. b <= Tip' /\ Found(1, b)' = Found(1, b)
    BY <1>2, <2>1
  <2>3. \A e \in Found(1, b) : Shown(e)'
    BY <2>1 DEF Keeps
  <2> QED BY <2>2, <2>3 DEF Covers
<1>4. ASSUME started \subseteq started', NEW p \in Poll, Fits(p)
      PROVE  Fits(p)'
  <2>1. p.at \in Nat
    BY DEF Poll
  <2>2. CASE p.pc = "idle"
    BY <2>2 DEF Fits
  <2>3. CASE p.pc # "idle"
    <3>1. /\ p.start \in started /\ p.at <= Tip
          /\ p.pc \in {"query", "handle"} =>
               p.todo \subseteq Found(1, p.at) /\ \A e \in Found(1, p.at) : e \in p.todo \/ Shown(e)
          /\ p.pc = "handle" => p.todo # {}
      BY <1>4, <2>3 DEF Fits
    <3>2. p.at <= Tip' /\ Found(1, p.at)' = Found(1, p.at)
      BY <1>2, <2>1, <3>1
    <3>3. \A e \in Found(1, p.at) : Shown(e) => Shown(e)'
      BY <2>1, <3>1 DEF Keeps
    <3> QED BY <1>4, <3>1, <3>2, <3>3 DEF Fits
  <2> QED BY <2>2, <2>3
<1> QED BY <1>2, <1>3, <1>4

(* A row goes from absent to active and from there to the one resolution of*)
(* its stake; that is enough for what it shows to stay.                    *)
RowMoves(k) ==
  \/ rows'[k] = rows[k]
  \/ rows[k] = "none" /\ rows'[k] = "active"
  \/ /\ rows[k] # "none"
     /\ \E i \in 1..Tip : /\ stakeLog[i].stake = k /\ stakeLog[i].kind \in Resolution
                          /\ rows'[k] = Final(stakeLog[i].kind)

LEMMA FinalIs ==
  ASSUME NEW kind \in Resolution
  PROVE  Final(kind) \in Statuses \ {"none", "active"}
BY DEF Final, Resolution, Statuses

LEMMA RowsKeep ==
  ASSUME IndexTypes, ChainOrder,
         Tip' \in Nat, Tip <= Tip', \A i \in 1..Tip : stakeLog'[i] = stakeLog[i],
         \A k \in Stakes : RowMoves(k), docked \subseteq docked', lost \subseteq lost'
  PROVE  Keeps
<1> SUFFICES ASSUME NEW b \in Nat, b <= Tip, NEW e \in Found(1, b), Shown(e)
             PROVE  Shown(e)'
  BY DEF Keeps
<1> DEFINE k == stakeLog[e[2]].stake
<1>1. /\ e[1] \in 1..5 /\ e[2] \in 1..Tip /\ k \in Stakes
      /\ e[1] \in {2, 4, 5} => stakeLog[e[2]].kind \in Resolution
  BY FoundFacts
<1>2. stakeLog'[e[2]] = stakeLog[e[2]]
  BY <1>1
<1>3. CASE k \in lost
  BY <1>2, <1>3 DEF Shown
<1>4. CASE e[1] = 1 /\ rows[k] # "none"
  <2>1. rows'[k] # "none"
    BY <1>1, <1>4, FinalIs DEF RowMoves, Statuses
  <2> QED BY <1>2, <1>4, <2>1 DEF Shown
<1>5. CASE e[1] = 3 /\ k \in docked
  BY <1>2, <1>5 DEF Shown
<1>6. CASE e[1] \in {2, 4, 5} /\ rows[k] = Final(stakeLog[e[2]].kind)
  <2>1. rows[k] \notin {"none", "active"}
    BY <1>1, <1>6, FinalIs
  <2>2. ASSUME NEW i \in 1..Tip, stakeLog[i].stake = k, stakeLog[i].kind \in Resolution
        PROVE  i = e[2]
    <3>1. Tip \in Nat /\ i \in Int /\ e[2] \in Int
      BY <1>1 DEF IndexTypes, Tip
    <3>2. ~(i < e[2]) /\ ~(e[2] < i)
      BY <1>1, <1>6, <2>2 DEF ChainOrder, Resolution
    <3> QED BY <3>1, <3>2
  <2>3. rows'[k] = rows[k]
    BY <1>1, <1>6, <2>1, <2>2 DEF RowMoves
  <2> QED BY <1>2, <1>6, <2>3 DEF Shown
<1> QED BY <1>3, <1>4, <1>5, <1>6 DEF Shown

(* What counters and callbacks claim stays, and so it does when a counter  *)
(* or a callback is replaced by another that claims what is the case.      *)
LEMMA ClaimsStay ==
  ASSUME RowsInv, Keeps, started \subseteq started', savedBlock' \in Nat,
         savedBlock' # savedBlock => \E b \in Nat : savedBlock' = b /\ Covers(b),
         \A n \in started' : \E b \in Nat : lastBlock'[n] = b /\ Covers(b)',
         \A c \in Polls : \E p \in Poll : poll'[c] = p /\ Fits(p)'
  PROVE  /\ Covers(savedBlock)'
         /\ \A n \in started' : Covers(lastBlock[n])'
         /\ \A c \in Polls : Fits(poll[c])'
<1>1. IndexTypes /\ Covers(savedBlock) /\ savedBlock \in Nat
  BY DEF RowsInv, IndexTypes, Tip
<1>2. \A b \in Nat : Covers(b) => Covers(b)'
  BY <1>1, KeepsCovered
<1>3. PICK b \in Nat : savedBlock' = b /\ Covers(b)
  BY <1>1
<1>4. Covers(savedBlock)'
  BY <1>2, <1>3 DEF Covers
<1>5. ASSUME NEW n \in started'
      PROVE  Covers(lastBlock[n])'
  <2>1. PICK d \in Nat : lastBlock'[n] = d /\ Covers(d)'
    BY <1>5
  <2> QED BY <2>1 DEF Covers
<1>6. ASSUME NEW c \in Polls
      PROVE  Fits(poll[c])'
  <2>1. PICK p \in Poll : poll'[c] = p /\ Fits(p)'
    BY <1>6
  <2> QED BY <2>1 DEF Fits
<1> QED BY <1>4, <1>5, <1>6

(* The counters that do not move still cover what they did.                *)
LEMMA CountersStay ==
  ASSUME RowsInv, Keeps, NEW n \in started, lastBlock'[n] = lastBlock[n]
  PROVE  \E b \in Nat : lastBlock'[n] = b /\ Covers(b)'
<1>1. IndexTypes /\ Covers(lastBlock[n]) /\ lastBlock[n] \in Nat
  BY DEF RowsInv, IndexTypes
<1>2. \A b \in Nat : Covers(b) => Covers(b)'
  BY <1>1, KeepsCovered
<1>3. PICK b \in Nat : lastBlock[n] = b
  BY <1>1
<1>4. Covers(b)
  BY <1>1, <1>3
<1> QED BY <1>2, <1>3, <1>4

LEMMA PollsStay ==
  ASSUME RowsInv, Keeps, started \subseteq started', NEW c \in Polls, poll'[c] = poll[c]
  PROVE  \E p \in Poll : poll'[c] = p /\ Fits(p)'
<1>1. IndexTypes /\ Fits(poll[c]) /\ poll[c] \in Poll
  BY DEF RowsInv, IndexTypes
<1>2. \A p \in Poll : Fits(p) => Fits(p)'
  BY <1>1, KeepsCovered
<1>3. PICK p \in Poll : poll[c] = p
  BY <1>1
<1>4. Fits(p)
  BY <1>1, <1>3
<1> QED BY <1>2, <1>3, <1>4

LEMMA IdleFits == IdlePoll \in Poll /\ Fits(IdlePoll)'
<1>1. IdlePoll \in Poll
  BY IndexAssumption DEF IdlePoll, Poll
<1>2. IdlePoll.pc = "idle"
  BY DEF IdlePoll
<1> QED BY <1>1, <1>2 DEF Fits

(* GoOn: to the next log, or past the last one.                            *)
LEMMA GoesOn ==
  ASSUME RowsInv, Keeps, NEW c \in Polls, poll[c].pc \in {"query", "handle"},
         NEW todo \in SUBSET poll[c].todo, GoOn(c, todo), started' = started,
         \A e \in Found(1, poll[c].at) : e \in todo \/ Shown(e)'
  PROVE  /\ poll' \in [Polls -> Poll] /\ lastBlock' \in [Starts -> Nat]
         /\ \A n \in started' : \E b \in Nat : lastBlock'[n] = b /\ Covers(b)'
         /\ \A d \in Polls : \E p \in Poll : poll'[d] = p /\ Fits(p)'
<1>p. PICK p \in Poll : p = poll[c]
  BY DEF RowsInv, IndexTypes
<1>1. /\ IndexTypes /\ p = poll[c] /\ poll \in [Polls -> Poll] /\ lastBlock \in [Starts -> Nat]
      /\ started \subseteq Starts /\ Fits(p)
  BY <1>p DEF RowsInv, IndexTypes
<1>2. /\ p.pc \in {"query", "handle"} /\ p.at \in Nat /\ p.start \in Starts
      /\ p.todo \in SUBSET (Nat \X Nat)
  BY <1>1 DEF Poll
<1>3. /\ p.start \in started /\ p.at <= Tip /\ p.todo \subseteq Found(1, p.at)
  BY <1>1, <1>2 DEF Fits
<1>4. p.at <= Tip' /\ Found(1, p.at)' = Found(1, p.at)
  BY <1>1, <1>2, <1>3, KeepsCovered
<1>5. CASE todo # {}
  <2>q. PICK q \in Poll : q = [p EXCEPT !.pc = "handle", !.todo = todo]
    BY <1>1, <1>2 DEF Poll
  <2>1. poll' = [poll EXCEPT ![c] = q] /\ lastBlock' = lastBlock
    BY <1>1, <1>5, <2>q DEF GoOn
  <2>2. q \in Poll /\ q.pc = "handle" /\ q.start = p.start /\ q.at = p.at /\ q.todo = todo
    BY <1>1, <1>2, <2>q DEF Poll
  <2>3. Fits(q)'
    <3>1. \A e \in Found(1, p.at) : e \in todo \/ Shown(e)'
      BY <1>1
    <3>2. todo \subseteq Found(1, p.at) /\ p.start \in started'
      BY <1>1, <1>3
    <3> QED BY <1>4, <1>5, <2>2, <3>1, <3>2 DEF Fits
  <2>4. \A d \in Polls : \E r \in Poll : poll'[d] = r /\ Fits(r)'
    <3> TAKE d \in Polls
    <3>1. CASE d = c
      <4>1. poll'[d] = q
        BY <1>1, <2>1, <3>1
      <4> QED BY <2>2, <2>3, <4>1
    <3>2. CASE d # c
      <4>1. poll'[d] = poll[d]
        BY <1>1, <2>1, <3>2
      <4> QED BY <4>1, PollsStay
    <3> QED BY <3>1, <3>2
  <2>5. poll' \in [Polls -> Poll]
    BY <1>1, <2>1, <2>2
  <2>6. \A n \in started' : \E b \in Nat : lastBlock'[n] = b /\ Covers(b)'
    BY <2>1, CountersStay
  <2> QED BY <1>1, <2>1, <2>4, <2>5, <2>6
<1>6. CASE todo = {}
  <2>q. PICK q \in Poll : q = [p EXCEPT !.pc = "save", !.todo = {}]
    BY <1>1, <1>2 DEF Poll
  <2>1. /\ poll' = [poll EXCEPT ![c] = q]
        /\ lastBlock' = [lastBlock EXCEPT ![p.start] = p.at]
    BY <1>1, <1>6, <2>q DEF GoOn
  <2>2. q \in Poll /\ q.pc = "save" /\ q.start = p.start /\ q.at = p.at
    BY <1>1, <1>2, <2>q DEF Poll
  <2>3. Fits(q)'
    <3>1. p.start \in started'
      BY <1>1, <1>3
    <3> QED BY <1>4, <2>2, <3>1 DEF Fits
  <2>4. \A d \in Polls : \E r \in Poll : poll'[d] = r /\ Fits(r)'
    <3> TAKE d \in Polls
    <3>1. CASE d = c
      <4>1. poll'[d] = q
        BY <1>1, <2>1, <3>1
      <4> QED BY <2>2, <2>3, <4>1
    <3>2. CASE d # c
      <4>1. poll'[d] = poll[d]
        BY <1>1, <2>1, <3>2
      <4> QED BY <4>1, PollsStay
    <3> QED BY <3>1, <3>2
  <2>5. poll' \in [Polls -> Poll] /\ lastBlock' \in [Starts -> Nat]
    BY <1>1, <1>2, <2>1, <2>2
  <2>6. Covers(p.at)'
    <3>1. \A e \in Found(1, p.at) : Shown(e)'
      BY <1>1, <1>6
    <3> QED BY <1>4, <3>1 DEF Covers
  <2>7. \A n \in started' : \E b \in Nat : lastBlock'[n] = b /\ Covers(b)'
    <3> TAKE n \in started'
    <3>1. CASE n = p.start
      <4>1. lastBlock'[n] = p.at
        BY <1>1, <1>2, <2>1, <3>1
      <4> QED
        <5>1. PICK b \in Nat : b = p.at
          BY <1>2
        <5>2. Covers(b)'
          BY <2>6, <5>1 DEF Covers
        <5> QED BY <4>1, <5>1, <5>2
    <3>2. CASE n # p.start
      <4>1. lastBlock'[n] = lastBlock[n] /\ n \in started
        BY <1>1, <2>1, <3>2
      <4> QED BY <4>1, CountersStay
    <3> QED BY <3>1, <3>2
  <2> QED BY <2>4, <2>5, <2>7
<1> QED BY <1>5, <1>6

-----------------------------------------------------------------------------
LEMMA SoundKeeps ==
  ASSUME IndexTypes, RowsSound,
         Tip' \in Nat, Tip <= Tip', \A i \in 1..Tip : stakeLog'[i] = stakeLog[i],
         \A k \in Stakes : RowMoves(k),
         \A k \in Stakes : rows[k] = "none" /\ rows'[k] = "active" => Happened(k, {"registered"}, Tip),
         \A k \in docked' : k \in docked \/ Happened(k, {"docked"}, Tip)
  PROVE  RowsSound'
<1>1. Tip \in Nat
  BY DEF IndexTypes, Tip
<1>2. \A i \in 1..Tip : i \in 1..Tip'
  BY <1>1
<1>3. ASSUME NEW k, NEW kinds, Happened(k, kinds, Tip)
      PROVE  Happened(k, kinds, Tip)'
  BY <1>2, <1>3 DEF Happened
<1>4. ASSUME NEW k \in Stakes
      PROVE  /\ rows'[k] # "none" => Happened(k, {"registered"}, Tip)'
             /\ rows'[k] \notin {"none", "active"} =>
                  \E i \in 1..Tip' : /\ stakeLog'[i].stake = k /\ stakeLog'[i].kind \in Resolution
                                     /\ rows'[k] = Final(stakeLog'[i].kind)
             /\ k \in docked' => Happened(k, {"docked"}, Tip)'
  <2>1. rows'[k] # "none" => Happened(k, {"registered"}, Tip)
    BY DEF RowMoves, RowsSound
  <2>2. rows'[k] \notin {"none", "active"} =>
          \E i \in 1..Tip : /\ stakeLog[i].stake = k /\ stakeLog[i].kind \in Resolution
                            /\ rows'[k] = Final(stakeLog[i].kind)
    BY DEF RowMoves, RowsSound
  <2>3. k \in docked' => Happened(k, {"docked"}, Tip)
    BY DEF RowsSound
  <2>4. rows'[k] \notin {"none", "active"} =>
          \E i \in 1..Tip' : /\ stakeLog'[i].stake = k /\ stakeLog'[i].kind \in Resolution
                             /\ rows'[k] = Final(stakeLog'[i].kind)
    BY <1>2, <2>2
  <2> QED BY <1>3, <2>1, <2>3, <2>4
<1> QED BY <1>4 DEF RowsSound

(* A step that leaves the chain and the table alone.                       *)
LEMMA TableStays ==
  ASSUME RowsInv, stakeLog' = stakeLog, rows' = rows, docked' = docked, lost \subseteq lost'
  PROVE  Keeps /\ RowsSound' /\ ChainOrder' /\ Tip' = Tip
<1>1. /\ IndexTypes /\ ChainOrder /\ RowsSound /\ Tip \in Nat
  BY DEF RowsInv, IndexTypes, Tip
<1>2. Tip' = Tip /\ \A i \in 1..Tip : stakeLog'[i] = stakeLog[i]
  BY DEF Tip
<1>3. \A k \in Stakes : RowMoves(k)
  BY DEF RowMoves
<1>4. Keeps
  BY <1>1, <1>2, <1>3, RowsKeep
<1>5. RowsSound'
  BY <1>1, <1>2, <1>3, SoundKeeps
<1>6. ChainOrder'
  BY <1>1, <1>2 DEF ChainOrder
<1> QED BY <1>2, <1>4, <1>5, <1>6

LEMMA MineStep ==
  ASSUME RowsInv, MineStake
  PROVE  RowsInv'
<1> DEFINE Entry == [kind : Resolution \cup {"registered"}, stake : Stakes]
<1>1. PICK k \in Stakes, kind \in Resolution \cup {"registered"} :
        /\ kind = "registered" => ~Happened(k, {"registered"}, Tip)
        /\ kind \in Resolution => Happened(k, {"registered"}, Tip) /\ ~Happened(k, Resolution, Tip)
        /\ stakeLog' = Append(stakeLog, [kind |-> kind, stake |-> k])
  BY DEF MineStake
<1>2. /\ IndexTypes /\ ChainOrder /\ RowsSound /\ Tip \in Nat /\ stakeLog \in Seq(Entry)
      /\ rows' = rows /\ docked' = docked /\ savedBlock' = savedBlock /\ lost' = lost
      /\ started' = started /\ lastBlock' = lastBlock /\ heardBlock' = heardBlock
      /\ poll' = poll
  BY DEF RowsInv, IndexTypes, Tip, MineStake, tableRows, startVars, historyVars
<1>3. /\ Tip' = Tip + 1 /\ stakeLog' \in Seq(Entry)
      /\ \A i \in 1..Tip : stakeLog'[i] = stakeLog[i]
      /\ stakeLog'[Tip + 1].kind = kind /\ stakeLog'[Tip + 1].stake = k
  <2>1. \E e \in Entry : e = [kind |-> kind, stake |-> k] /\ stakeLog' = Append(stakeLog, e)
    BY <1>1
  <2> HIDE DEF Entry
  <2>2. PICK e \in Entry : e = [kind |-> kind, stake |-> k] /\ stakeLog' = Append(stakeLog, e)
    BY <2>1
  <2>3. e.kind = kind /\ e.stake = k
    BY <2>2
  <2>4. /\ Len(stakeLog') = Len(stakeLog) + 1 /\ stakeLog' \in Seq(Entry)
        /\ \A i \in 1..Len(stakeLog) : stakeLog'[i] = stakeLog[i]
        /\ stakeLog'[Len(stakeLog) + 1] = e
    BY <1>2, <2>2
  <2> QED BY <2>3, <2>4 DEF Tip
<1>4. \A j \in Stakes : RowMoves(j)
  BY <1>2 DEF RowMoves
<1>5. Keeps
  BY <1>2, <1>3, <1>4, RowsKeep
<1>6. RowsSound'
  BY <1>2, <1>3, <1>4, SoundKeeps
<1>7. ChainOrder'
  <2>1. ASSUME NEW i \in 1..Tip, stakeLog[i].stake = k
        PROVE  stakeLog[i].kind = "registered" /\ kind \in Resolution
    <3>1. stakeLog[i].kind \in Resolution \cup {"registered"}
      <4>1. i \in 1..Len(stakeLog) /\ stakeLog \in Seq(Entry)
        BY <1>2 DEF Tip
      <4> HIDE DEF Entry
      <4>2. stakeLog[i] \in Entry
        BY <4>1
      <4> QED BY <4>2 DEF Entry
    <3>2. stakeLog[i].kind \in Resolution =>
            \E j \in 1..(i - 1) : stakeLog[j].stake = k /\ stakeLog[j].kind = "registered"
      BY <1>2, <2>1 DEF ChainOrder
    <3>3. Happened(k, {"registered"}, Tip)
      <4>1. CASE stakeLog[i].kind = "registered"
        BY <2>1, <4>1 DEF Happened
      <4>2. CASE stakeLog[i].kind \in Resolution
        <5>1. PICK j \in 1..(i - 1) : stakeLog[j].stake = k /\ stakeLog[j].kind = "registered"
          BY <3>2, <4>2
        <5>2. j \in 1..Tip
          BY <1>2
        <5> QED BY <5>1, <5>2 DEF Happened
      <4> QED BY <3>1, <4>1, <4>2
    <3>4. kind \in Resolution /\ ~Happened(k, Resolution, Tip)
      BY <1>1, <3>3
    <3>5. stakeLog[i].kind \notin Resolution
      BY <2>1, <3>4 DEF Happened
    <3> QED BY <3>1, <3>4, <3>5
  <2>2. ASSUME NEW i \in 1..(Tip + 1), NEW j \in 1..(Tip + 1), i < j,
               stakeLog'[i].stake = stakeLog'[j].stake
        PROVE  stakeLog'[i].kind = "registered" /\ stakeLog'[j].kind \in Resolution
    <3>1. i \in 1..Tip /\ stakeLog'[i] = stakeLog[i]
      BY <1>2, <1>3, <2>2
    <3>2. CASE j \in 1..Tip
      BY <1>2, <1>3, <2>2, <3>1, <3>2 DEF ChainOrder
    <3>3. CASE j = Tip + 1
      BY <1>3, <2>1, <2>2, <3>1, <3>3
    <3> QED BY <1>2, <3>2, <3>3
  <2>3. ASSUME NEW j \in 1..(Tip + 1), stakeLog'[j].kind \in Resolution
        PROVE  \E i \in 1..(j - 1) : /\ stakeLog'[i].stake = stakeLog'[j].stake
                                     /\ stakeLog'[i].kind = "registered"
    <3>1. CASE j \in 1..Tip
      <4>1. PICK i \in 1..(j - 1) : stakeLog[i].stake = stakeLog[j].stake /\ stakeLog[i].kind = "registered"
        BY <1>2, <1>3, <2>3, <3>1 DEF ChainOrder
      <4>2. i \in 1..Tip
        BY <1>2, <3>1
      <4> QED BY <1>3, <3>1, <4>1, <4>2
    <3>2. CASE j = Tip + 1
      <4>1. Happened(k, {"registered"}, Tip)
        BY <1>1, <1>3, <2>3, <3>2
      <4>2. PICK i \in 1..Tip : stakeLog[i].stake = k /\ stakeLog[i].kind = "registered"
        BY <4>1 DEF Happened
      <4>3. i \in 1..(j - 1)
        BY <1>2, <3>2
      <4> QED BY <1>3, <3>2, <4>2, <4>3
    <3> QED BY <1>2, <3>1, <3>2
  <2> QED BY <1>3, <2>2, <2>3 DEF ChainOrder
<1>8. IndexTypes'
  <2>1. savedBlock' \in 0..Tip'
    BY <1>2, <1>3 DEF IndexTypes
  <2> QED BY <1>2, <1>3, <2>1 DEF IndexTypes
<1>9. /\ Covers(savedBlock)' /\ \A n \in started' : Covers(lastBlock[n])'
      /\ \A c \in Polls : Fits(poll[c])'
  <2>1. \A n \in started' : \E b \in Nat : lastBlock'[n] = b /\ Covers(b)'
    BY <1>2, <1>5, CountersStay
  <2>2. \A c \in Polls : \E p \in Poll : poll'[c] = p /\ Fits(p)'
    BY <1>2, <1>5, PollsStay
  <2>3. savedBlock' \in Nat
    BY <1>2 DEF IndexTypes
  <2> QED BY <1>2, <1>5, <2>1, <2>2, <2>3, ClaimsStay
<1> QED BY <1>6, <1>7, <1>8, <1>9 DEF RowsInv

(* A block announced: the range begins after what the counter has covered. *)
LEMMA AnnouncedStep ==
  ASSUME RowsInv, NEW n \in Starts, NEW c \in Polls, OnStakeBlock(n, c)
  PROVE  RowsInv'
<1> DEFINE b == heardBlock[n] + 1
<1>1. /\ IndexTypes /\ n \in started /\ b \in Nat /\ b <= Tip /\ Tip \in Nat
      /\ lastBlock[n] \in Nat /\ Covers(lastBlock[n])
      /\ heardBlock' = [heardBlock EXCEPT ![n] = b]
      /\ stakeLog' = stakeLog /\ rows' = rows /\ docked' = docked /\ savedBlock' = savedBlock
      /\ started' = started /\ lastBlock' = lastBlock /\ lost' = lost
  BY DEF RowsInv, IndexTypes, OnStakeBlock, tableRows, historyVars, Tip
<1>2. Keeps /\ RowsSound' /\ ChainOrder' /\ Tip' = Tip
  BY <1>1, TableStays
<1>3. PICK q \in Poll :
        q = IF b <= lastBlock[n] THEN poll[c]
            ELSE [pc |-> "query", start |-> n, at |-> b, todo |-> Found(lastBlock[n] + 1, b)]
  <2>1. Found(lastBlock[n] + 1, b) \in SUBSET (Nat \X Nat)
    BY <1>1 DEF Found
  <2>2. poll[c] \in Poll
    BY <1>1 DEF IndexTypes
  <2>3. [pc |-> "query", start |-> n, at |-> b, todo |-> Found(lastBlock[n] + 1, b)] \in Poll
    BY <1>1, <2>1 DEF Poll
  <2> QED BY <2>2, <2>3
<1>4. poll' = [poll EXCEPT ![c] = q]
  <2>1. poll \in [Polls -> Poll]
    BY <1>1 DEF IndexTypes
  <2>2. CASE b <= lastBlock[n]
    <3>1. poll' = poll
      BY <2>2 DEF OnStakeBlock
    <3> QED BY <1>3, <2>1, <2>2, <3>1
  <2>3. CASE ~(b <= lastBlock[n])
    BY <1>3, <2>3 DEF OnStakeBlock
  <2> QED BY <2>2, <2>3
<1>5. Fits(q)
  <2>1. CASE b <= lastBlock[n]
    BY <1>3, <2>1 DEF RowsInv
  <2>2. CASE ~(b <= lastBlock[n])
    <3>1. q.pc = "query" /\ q.start = n /\ q.at = b /\ q.todo = Found(lastBlock[n] + 1, b)
      BY <1>3, <2>2
    <3>2. Found(lastBlock[n] + 1, b) \subseteq Found(1, b)
      BY <1>1 DEF Found
    <3>3. ASSUME NEW e \in Found(1, b)
          PROVE  e \in Found(lastBlock[n] + 1, b) \/ Shown(e)
      <4>1. e \in (1..5) \X (1..b) /\ e[2] \in Nat
        BY <1>1 DEF Found
      <4>2. CASE e[2] <= lastBlock[n]
        <5>1. e \in Found(1, lastBlock[n])
          BY <1>1, <4>1, <4>2 DEF Found
        <5> QED BY <1>1, <5>1 DEF Covers
      <4>3. CASE ~(e[2] <= lastBlock[n])
        <5>1. e \in (1..5) \X ((lastBlock[n] + 1)..b)
          BY <1>1, <4>1, <4>3
        <5> QED BY <5>1 DEF Found
      <4> QED BY <4>2, <4>3
    <3> QED BY <1>1, <3>1, <3>2, <3>3 DEF Fits
  <2> QED BY <2>1, <2>2
<1>6. \A d \in Polls : \E p \in Poll : poll'[d] = p /\ Fits(p)'
  <2> TAKE d \in Polls
  <2>1. CASE d = c
    <3>1. poll'[d] = q
      BY <1>1, <1>4, <2>1 DEF IndexTypes
    <3>2. Fits(q)'
      BY <1>1, <1>2, <1>5, KeepsCovered
    <3> QED BY <3>1, <3>2
  <2>2. CASE d # c
    <3>1. poll'[d] = poll[d]
      BY <1>1, <1>4, <2>2 DEF IndexTypes
    <3> QED BY <1>1, <1>2, <3>1, PollsStay
  <2> QED BY <2>1, <2>2
<1>7. \A m \in started' : \E d \in Nat : lastBlock'[m] = d /\ Covers(d)'
  BY <1>1, <1>2, CountersStay
<1>8. /\ Covers(savedBlock)' /\ \A m \in started' : Covers(lastBlock[m])'
      /\ \A d \in Polls : Fits(poll[d])'
  <2>1. savedBlock' \in Nat
    BY <1>1 DEF IndexTypes
  <2> QED BY <1>1, <1>2, <1>6, <1>7, <2>1, ClaimsStay
<1>9. IndexTypes'
  <2>1. heardBlock' \in [Starts -> Nat] /\ poll' \in [Polls -> Poll]
    BY <1>1, <1>4 DEF IndexTypes
  <2> HIDE DEF b
  <2> QED BY <1>1, <1>2, <2>1 DEF IndexTypes
<1> QED BY <1>2, <1>8, <1>9 DEF RowsInv

(* The log a callback handles next, and why its row is there to update:    *)
(* what registers a stake is handled before what resolves it.              *)
LEMMA NextLog ==
  ASSUME RowsInv, NEW c \in Polls, poll[c].pc = "handle"
  PROVE  /\ poll[c].at \in Nat /\ poll[c].at <= Tip
         /\ FirstLog(poll[c].todo) \in poll[c].todo
         /\ FirstLog(poll[c].todo) \in Found(1, poll[c].at)
         /\ LET e == FirstLog(poll[c].todo)
                k == stakeLog[e[2]].stake
            IN  k \in lost \/ e[1] = 1 \/ rows[k] # "none"
<1> DEFINE at == poll[c].at
           e  == FirstLog(poll[c].todo)
           k  == stakeLog[e[2]].stake
<1>1. IndexTypes /\ poll[c] \in Poll /\ Fits(poll[c])
  BY DEF RowsInv, IndexTypes
<1>2. /\ at \in Nat /\ at <= Tip
      /\ poll[c].todo \subseteq Found(1, at) /\ poll[c].todo # {}
      /\ \A d \in Found(1, at) : d \in poll[c].todo \/ Shown(d)
  BY <1>1 DEF Fits, Poll
<1>3. e \in poll[c].todo /\ \A d \in poll[c].todo : e[1] <= d[1]
  <2>1. poll[c].todo \subseteq Nat \X Nat
    BY <1>1 DEF Poll
  <2> QED BY <1>2, <2>1, FirstLogIs
<1>4. e \in Found(1, at)
  BY <1>2, <1>3
<1> HIDE DEF e, at
<1>5. /\ e[1] \in 1..5 /\ e[2] \in 1..at /\ e[2] \in 1..Tip
      /\ e[1] = 3 => stakeLog[e[2]].kind = "docked"
      /\ e[1] \in {2, 4, 5} => stakeLog[e[2]].kind \in Resolution
  BY <1>1, <1>2, <1>4, FoundFacts
<1>6. ASSUME e[1] # 1, k \notin lost
      PROVE  rows[k] # "none"
  <2>1. stakeLog[e[2]].kind \in Resolution
    BY <1>5, <1>6 DEF Resolution
  <2>2. PICK i \in 1..(e[2] - 1) : stakeLog[i].stake = k /\ stakeLog[i].kind = "registered"
    BY <1>5, <2>1 DEF RowsInv, ChainOrder
  <2> DEFINE r == <<1, i>>
  <2>3. r \in Found(1, at) /\ r[1] = 1 /\ r[2] = i
    <3>1. i \in 1..at
      BY <1>2, <1>5
    <3> QED BY <2>2, <3>1 DEF Found, Queried
  <2> HIDE DEF r
  <2>4. r \notin poll[c].todo
    BY <1>3, <1>5, <1>6, <2>3
  <2>5. Shown(r)
    BY <1>2, <2>3, <2>4
  <2>6. stakeLog[r[2]].stake = k
    BY <2>2, <2>3
  <2> QED BY <1>6, <2>3, <2>5, <2>6 DEF Shown
<1>7. k \in lost \/ e[1] = 1 \/ rows[k] # "none"
  BY <1>6
<1> QED BY <1>2, <1>3, <1>4, <1>7 DEF at, e

(* What a callback claims beside the log it has just dealt with.           *)
LEMMA HeldOrShown ==
  ASSUME RowsInv, Keeps, NEW c \in Polls, poll[c].pc = "handle",
         NEW e, e = FirstLog(poll[c].todo), Shown(e)'
  PROVE  \A d \in Found(1, poll[c].at) : d \in poll[c].todo \ {e} \/ Shown(d)'
<1>1. PICK p \in Poll : p = poll[c]
  BY DEF RowsInv, IndexTypes
<1>2. p.at \in Nat /\ p.at <= Tip /\ \A d \in Found(1, p.at) : d \in p.todo \/ Shown(d)
  <2>1. Fits(p)
    BY <1>1 DEF RowsInv
  <2>2. p.pc = "handle" /\ p.at \in Nat
    BY <1>1 DEF Poll
  <2> QED BY <2>1, <2>2 DEF Fits
<1>3. \A d \in Found(1, p.at) : Shown(d) => Shown(d)'
  BY <1>2 DEF Keeps
<1>4. ASSUME NEW d \in Found(1, p.at)
      PROVE  d \in p.todo \ {e} \/ Shown(d)'
  <2>1. CASE d = e
    BY <2>1
  <2>2. CASE d # e
    BY <1>2, <1>3, <2>2
  <2> QED BY <2>1, <2>2
<1> QED BY <1>1, <1>4

(* What remains to show when a callback goes on.                           *)
LEMMA GoneOn ==
  ASSUME RowsInv, Keeps, Tip' = Tip, RowsSound', ChainOrder',
         NEW c \in Polls, poll[c].pc \in {"query", "handle"},
         NEW todo \in SUBSET poll[c].todo, GoOn(c, todo),
         \A e \in Found(1, poll[c].at) : e \in todo \/ Shown(e)',
         stakeLog' = stakeLog, savedBlock' = savedBlock, started' = started,
         heardBlock' = heardBlock,
         rows' \in [Stakes -> Statuses], docked' \subseteq Stakes, lost' \subseteq Stakes
  PROVE  RowsInv'
<1>1. /\ poll' \in [Polls -> Poll] /\ lastBlock' \in [Starts -> Nat]
      /\ \A n \in started' : \E b \in Nat : lastBlock'[n] = b /\ Covers(b)'
      /\ \A d \in Polls : \E p \in Poll : poll'[d] = p /\ Fits(p)'
  BY GoesOn
<1>2. IndexTypes'
  BY <1>1 DEF RowsInv, IndexTypes
<1>3. savedBlock' \in Nat
  BY DEF RowsInv, IndexTypes
<1>4. /\ Covers(savedBlock)' /\ \A m \in started' : Covers(lastBlock[m])'
      /\ \A d \in Polls : Fits(poll[d])'
  BY <1>1, <1>3, ClaimsStay
<1> QED BY <1>2, <1>4 DEF RowsInv

LEMMA HandleLogStep ==
  ASSUME RowsInv, NEW c \in Polls, HandleLog(c)
  PROVE  RowsInv'
<1>1. PICK e \in Nat \X Nat : e = FirstLog(poll[c].todo)
  <2>1. poll[c].pc = "handle" /\ poll[c] \in Poll
    BY DEF HandleLog, RowsInv, IndexTypes
  <2> QED BY <2>1, NextLog DEF Poll
<1>2. PICK k \in Stakes : k = stakeLog[e[2]].stake
  <2>1. /\ poll[c].pc = "handle" /\ poll[c].at \in Nat /\ poll[c].at <= Tip
        /\ e \in Found(1, poll[c].at)
    BY <1>1, NextLog DEF HandleLog
  <2> QED BY <2>1, FoundFacts DEF RowsInv
<1> DEFINE kind == stakeLog[e[2]].kind
<1>3. /\ IndexTypes /\ ChainOrder /\ RowsSound
      /\ poll[c].pc = "handle" /\ poll[c].at \in Nat /\ poll[c].at <= Tip
      /\ e \in poll[c].todo /\ e \in Found(1, poll[c].at)
      /\ k \in lost \/ e[1] = 1 \/ rows[k] # "none"
      /\ rows' = [rows EXCEPT ![k] =
                       CASE e[1] = 1 -> IF @ = "none" THEN "active" ELSE @
                         [] e[1] = 2 -> IF @ = "none" THEN @ ELSE "filled"
                         [] e[1] = 3 -> @
                         [] e[1] = 4 -> IF @ = "none" THEN @ ELSE "slashed"
                         [] e[1] = 5 -> IF @ = "none" THEN @ ELSE "released"]
      /\ docked' = IF e[1] = 3 /\ rows[k] # "none" THEN docked \cup {k} ELSE docked
      /\ GoOn(c, poll[c].todo \ {e})
      /\ stakeLog' = stakeLog /\ savedBlock' = savedBlock /\ started' = started
      /\ heardBlock' = heardBlock /\ lost' = lost
  BY <1>1, <1>2, NextLog DEF RowsInv, HandleLog, historyVars
<1>4. /\ e[1] \in 1..5 /\ e[2] \in 1..Tip /\ Tip \in Nat
      /\ e[1] = 1 => kind = "registered"
      /\ e[1] = 3 => kind = "docked"
      /\ e[1] \in {2, 4, 5} => kind \in Resolution
      /\ e[1] = 2 => Final(kind) = "filled"
      /\ e[1] = 4 => Final(kind) = "slashed"
      /\ e[1] = 5 => Final(kind) = "released"
  BY <1>3, FoundFacts DEF IndexTypes, Tip
<1>5. Tip' = Tip /\ \A i \in 1..Tip : stakeLog'[i] = stakeLog[i]
  BY <1>3 DEF Tip
<1>6. \A j \in Stakes : j # k => rows'[j] = rows[j]
  BY <1>3 DEF IndexTypes
<1>7. /\ e[1] = 1 => rows'[k] = IF rows[k] = "none" THEN "active" ELSE rows[k]
      /\ e[1] = 3 => rows'[k] = rows[k]
      /\ e[1] \in {2, 4, 5} =>
           rows'[k] = IF rows[k] = "none" THEN "none" ELSE Final(kind)
  <2>1. rows \in [Stakes -> Statuses]
    BY <1>3 DEF IndexTypes
  <2>2. /\ e[1] = 1 => rows'[k] = IF rows[k] = "none" THEN "active" ELSE rows[k]
        /\ e[1] = 2 => rows'[k] = IF rows[k] = "none" THEN rows[k] ELSE "filled"
        /\ e[1] = 3 => rows'[k] = rows[k]
        /\ e[1] = 4 => rows'[k] = IF rows[k] = "none" THEN rows[k] ELSE "slashed"
        /\ e[1] = 5 => rows'[k] = IF rows[k] = "none" THEN rows[k] ELSE "released"
    BY <1>3, <2>1
  <2> QED BY <1>4, <2>2
<1>8. \A j \in Stakes : RowMoves(j)
  <2> TAKE j \in Stakes
  <2>1. CASE j # k
    BY <1>6, <2>1 DEF RowMoves
  <2>2. CASE j = k /\ e[1] \in {1, 3}
    BY <1>7, <2>2 DEF RowMoves
  <2>3. CASE j = k /\ e[1] \in {2, 4, 5}
    BY <1>2, <1>4, <1>7, <2>3 DEF RowMoves
  <2> QED BY <1>4, <2>1, <2>2, <2>3
<1>9. Keeps
  BY <1>3, <1>4, <1>5, <1>8, RowsKeep
<1>10. RowsSound'
  <2>1. ASSUME NEW j \in Stakes, rows[j] = "none", rows'[j] = "active"
        PROVE  Happened(j, {"registered"}, Tip)
    <3>1. j = k
      BY <1>6, <2>1
    <3>2. e[1] = 1
      BY <1>4, <1>7, <2>1, <3>1
    <3> QED BY <1>2, <1>4, <3>1, <3>2 DEF Happened
  <2>2. ASSUME NEW j \in docked'
        PROVE  j \in docked \/ Happened(j, {"docked"}, Tip)
    BY <1>2, <1>3, <1>4, <2>2 DEF Happened
  <2> QED BY <1>3, <1>4, <1>5, <1>8, <2>1, <2>2, SoundKeeps
<1>11. Shown(e)'
  <2>1. stakeLog'[e[2]].stake = k /\ stakeLog'[e[2]].kind = kind
    BY <1>2, <1>4, <1>5
  <2>2. CASE k \in lost
    BY <1>3, <2>1, <2>2 DEF Shown
  <2>3. CASE k \notin lost /\ e[1] = 1
    BY <1>7, <2>1, <2>3 DEF Shown
  <2>4. CASE k \notin lost /\ e[1] = 3
    BY <1>3, <2>1, <2>4 DEF Shown
  <2>5. CASE k \notin lost /\ e[1] \in {2, 4, 5}
    <3>1. rows'[k] = Final(kind)
      BY <1>3, <1>7, <2>5
    <3> QED BY <2>1, <2>5, <3>1 DEF Shown
  <2> QED BY <1>4, <2>2, <2>3, <2>4, <2>5
<1>12. \A d \in Found(1, poll[c].at) : d \in poll[c].todo \ {e} \/ Shown(d)'
  BY <1>1, <1>3, <1>9, <1>11, HeldOrShown
<1>13. rows' \in [Stakes -> Statuses] /\ docked' \subseteq Stakes /\ lost' \subseteq Stakes
  <2>1. rows'[k] \in Statuses
    <3>1. rows[k] \in Statuses
      BY <1>3 DEF IndexTypes
    <3> QED BY <1>4, <1>7, <3>1, FinalIs DEF Statuses
  <2>2. PICK v : rows' = [rows EXCEPT ![k] = v]
    BY <1>3
  <2>3. rows \in [Stakes -> Statuses] /\ v \in Statuses
    BY <1>3, <2>1, <2>2 DEF IndexTypes
  <2>4. rows' \in [Stakes -> Statuses]
    BY <2>2, <2>3
  <2> QED BY <1>3, <2>4 DEF IndexTypes
<1>14. ChainOrder'
  BY <1>3, <1>5 DEF ChainOrder
<1> HIDE DEF kind
<1> QED BY <1>3, <1>5, <1>9, <1>10, <1>12, <1>13, <1>14, GoneOn

LEMMA StatementThrowsStep ==
  ASSUME RowsInv, NEW c \in Polls, StatementThrows(c)
  PROVE  RowsInv'
<1>1. PICK e \in Nat \X Nat : e = FirstLog(poll[c].todo)
  <2>1. poll[c].pc = "handle" /\ poll[c] \in Poll
    BY DEF StatementThrows, RowsInv, IndexTypes
  <2> QED BY <2>1, NextLog DEF Poll
<1>2. /\ poll[c].pc = "handle" /\ poll[c].at \in Nat /\ poll[c].at <= Tip
      /\ e \in Found(1, poll[c].at)
      /\ lost' = lost \cup {stakeLog[e[2]].stake} /\ GoOn(c, poll[c].todo \ {e})
      /\ stakeLog' = stakeLog /\ rows' = rows /\ docked' = docked /\ savedBlock' = savedBlock
      /\ started' = started /\ heardBlock' = heardBlock
  BY <1>1, NextLog DEF StatementThrows, tableRows
<1>3. IndexTypes /\ stakeLog[e[2]].stake \in Stakes
  BY <1>2, FoundFacts DEF RowsInv
<1>4. Keeps /\ RowsSound' /\ ChainOrder' /\ Tip' = Tip
  BY <1>2, TableStays
<1>5. Shown(e)'
  BY <1>2 DEF Shown
<1>6. \A d \in Found(1, poll[c].at) : d \in poll[c].todo \ {e} \/ Shown(d)'
  BY <1>1, <1>2, <1>4, <1>5, HeldOrShown
<1>7. rows' \in [Stakes -> Statuses] /\ docked' \subseteq Stakes /\ lost' \subseteq Stakes
  BY <1>2, <1>3 DEF IndexTypes
<1> QED BY <1>2, <1>4, <1>6, <1>7, GoneOn

LEMMA AnsweredStep ==
  ASSUME RowsInv, NEW c \in Polls, QueriesAnswered(c)
  PROVE  RowsInv'
<1>1. /\ poll[c].pc = "query" /\ GoOn(c, poll[c].todo)
      /\ stakeLog' = stakeLog /\ rows' = rows /\ docked' = docked /\ savedBlock' = savedBlock
      /\ started' = started /\ heardBlock' = heardBlock /\ lost' = lost
  BY DEF QueriesAnswered, tableRows, historyVars
<1>2. Keeps /\ RowsSound' /\ ChainOrder' /\ Tip' = Tip
  BY <1>1, TableStays
<1>3. PICK p \in Poll : p = poll[c]
  BY DEF RowsInv, IndexTypes
<1>4. p.at \in Nat /\ p.at <= Tip /\ \A d \in Found(1, p.at) : d \in p.todo \/ Shown(d)
  <2>1. Fits(p)
    BY <1>3 DEF RowsInv
  <2>2. p.pc = "query" /\ p.at \in Nat
    BY <1>1, <1>3 DEF Poll
  <2> QED BY <2>1, <2>2 DEF Fits
<1>5. \A d \in Found(1, p.at) : d \in p.todo \/ Shown(d)'
  BY <1>2, <1>4 DEF Keeps
<1>6. \A d \in Found(1, poll[c].at) : d \in poll[c].todo \/ Shown(d)'
  BY <1>3, <1>5
<1>7. rows' \in [Stakes -> Statuses] /\ docked' \subseteq Stakes /\ lost' \subseteq Stakes
  BY <1>1 DEF RowsInv, IndexTypes
<1> QED BY <1>1, <1>2, <1>6, <1>7, GoneOn

LEMMA SaveStep ==
  ASSUME RowsInv, NEW c \in Polls, SaveBlock(c)
  PROVE  RowsInv'
<1>1. /\ poll[c].pc = "save" /\ savedBlock' = lastBlock[poll[c].start]
      /\ poll' = [poll EXCEPT ![c] = IdlePoll]
      /\ stakeLog' = stakeLog /\ rows' = rows /\ docked' = docked /\ lost' = lost
      /\ started' = started /\ lastBlock' = lastBlock /\ heardBlock' = heardBlock
  BY DEF SaveBlock, startVars, historyVars
<1>2. Keeps /\ RowsSound' /\ ChainOrder' /\ Tip' = Tip
  BY <1>1, TableStays
<1>3. IndexTypes /\ poll[c] \in Poll /\ Fits(poll[c]) /\ poll[c].start \in Starts
  BY DEF RowsInv, IndexTypes, Poll
<1>4. poll[c].start \in started
  BY <1>1, <1>3 DEF Fits
<1>5. savedBlock' \in Nat /\ Covers(lastBlock[poll[c].start])
  BY <1>1, <1>3, <1>4 DEF RowsInv, IndexTypes
<1>6. PICK b \in Nat : savedBlock' = b /\ Covers(b)
  BY <1>1, <1>5
<1>7. \A n \in started' : \E d \in Nat : lastBlock'[n] = d /\ Covers(d)'
  BY <1>1, <1>2, CountersStay
<1>8. \A d \in Polls : \E p \in Poll : poll'[d] = p /\ Fits(p)'
  <2> TAKE d \in Polls
  <2>1. CASE d = c
    BY <1>1, <1>3, <2>1, IdleFits DEF IndexTypes
  <2>2. CASE d # c
    <3>1. poll'[d] = poll[d]
      BY <1>1, <1>3, <2>2 DEF IndexTypes
    <3> QED BY <1>1, <1>2, <3>1, PollsStay
  <2> QED BY <2>1, <2>2
<1>9. /\ Covers(savedBlock)' /\ \A m \in started' : Covers(lastBlock[m])'
      /\ \A d \in Polls : Fits(poll[d])'
  BY <1>1, <1>2, <1>5, <1>6, <1>7, <1>8, ClaimsStay
<1>10. IndexTypes'
  <2>1. poll' \in [Polls -> Poll]
    BY <1>1, <1>3, IdleFits DEF IndexTypes
  <2>2. savedBlock' \in 0..Tip'
    BY <1>2, <1>6, <1>3 DEF Covers, IndexTypes, Tip
  <2> QED BY <1>1, <1>3, <2>1, <2>2 DEF IndexTypes
<1> QED BY <1>2, <1>9, <1>10 DEF RowsInv

LEMMA PollThrowsStep ==
  ASSUME RowsInv, NEW c \in Polls, PollThrows(c)
  PROVE  RowsInv'
<1>1. /\ poll' = [poll EXCEPT ![c] = IdlePoll] /\ savedBlock' = savedBlock
      /\ stakeLog' = stakeLog /\ rows' = rows /\ docked' = docked /\ lost' = lost
      /\ started' = started /\ lastBlock' = lastBlock /\ heardBlock' = heardBlock
  BY DEF PollThrows, tableRows, startVars
<1>2. Keeps /\ RowsSound' /\ ChainOrder' /\ Tip' = Tip
  BY <1>1, TableStays
<1>3. IndexTypes
  BY DEF RowsInv
<1>4. savedBlock' \in Nat
  BY <1>1, <1>3 DEF IndexTypes
<1>5. \A n \in started' : \E d \in Nat : lastBlock'[n] = d /\ Covers(d)'
  BY <1>1, <1>2, CountersStay
<1>6. \A d \in Polls : \E p \in Poll : poll'[d] = p /\ Fits(p)'
  <2> TAKE d \in Polls
  <2>1. CASE d = c
    BY <1>1, <1>3, <2>1, IdleFits DEF IndexTypes
  <2>2. CASE d # c
    <3>1. poll'[d] = poll[d]
      BY <1>1, <1>3, <2>2 DEF IndexTypes
    <3> QED BY <1>1, <1>2, <3>1, PollsStay
  <2> QED BY <2>1, <2>2
<1>7. /\ Covers(savedBlock)' /\ \A m \in started' : Covers(lastBlock[m])'
      /\ \A d \in Polls : Fits(poll[d])'
  BY <1>1, <1>2, <1>4, <1>5, <1>6, ClaimsStay
<1>8. IndexTypes'
  <2>1. poll' \in [Polls -> Poll]
    BY <1>1, <1>3, IdleFits DEF IndexTypes
  <2> QED BY <1>1, <1>2, <1>3, <2>1 DEF IndexTypes
<1> QED BY <1>2, <1>7, <1>8 DEF RowsInv

(* A death of the process leaves the table and the checkpoint.             *)
LEMMA DiesStep ==
  ASSUME RowsInv, BackendDies
  PROVE  RowsInv'
<1>1. /\ poll' = [c \in Polls |-> IdlePoll] /\ savedBlock' = savedBlock
      /\ stakeLog' = stakeLog /\ rows' = rows /\ docked' = docked /\ lost' = lost
      /\ started' = {} /\ lastBlock' = lastBlock /\ heardBlock' = heardBlock
  BY DEF BackendDies, tableRows
<1>2. Keeps /\ RowsSound' /\ ChainOrder' /\ Tip' = Tip
  BY <1>1, TableStays
<1>3. IndexTypes /\ Covers(savedBlock) /\ savedBlock \in Nat
  BY DEF RowsInv, IndexTypes
<1>4. Covers(savedBlock)'
  <2>1. PICK b \in Nat : savedBlock = b
    BY <1>3
  <2>2. Covers(b)'
    BY <1>2, <1>3, <2>1, KeepsCovered
  <2> QED BY <1>1, <2>1, <2>2 DEF Covers
<1>5. \A d \in Polls : Fits(poll[d])'
  <2> TAKE d \in Polls
  <2>1. poll'[d] = IdlePoll
    BY <1>1
  <2> QED BY <2>1 DEF Fits, IdlePoll
<1>6. IndexTypes'
  <2>1. poll' \in [Polls -> Poll]
    BY <1>1, IdleFits
  <2> QED BY <1>1, <1>2, <1>3, <2>1 DEF IndexTypes
<1> QED BY <1>1, <1>2, <1>4, <1>5, <1>6 DEF RowsInv

(* A start takes its counter from the checkpoint.                          *)
LEMMA StartStep ==
  ASSUME RowsInv, NEW n \in Starts, StartIndexer(n),
         UNCHANGED <<stakeLog, tableRows, poll, lost>>
  PROVE  RowsInv'
<1>1. /\ poll' = poll /\ savedBlock' = savedBlock
      /\ stakeLog' = stakeLog /\ rows' = rows /\ docked' = docked /\ lost' = lost
      /\ started' = started \cup {n} /\ lastBlock' = [lastBlock EXCEPT ![n] = savedBlock]
      /\ heardBlock' = [heardBlock EXCEPT ![n] = IF Tip = 0 THEN 0 ELSE Tip - 1]
  BY DEF StartIndexer, FromCheckpoint, tableRows
<1>2. Keeps /\ RowsSound' /\ ChainOrder' /\ Tip' = Tip
  BY <1>1, TableStays
<1>3. IndexTypes /\ Covers(savedBlock) /\ savedBlock \in Nat /\ Tip \in Nat
  BY DEF RowsInv, IndexTypes, Tip
<1>4. \A m \in started' : \E d \in Nat : lastBlock'[m] = d /\ Covers(d)'
  <2> TAKE m \in started'
  <2>1. CASE m = n
    <3>1. PICK b \in Nat : savedBlock = b
      BY <1>3
    <3>2. Covers(b)'
      BY <1>2, <1>3, <3>1, KeepsCovered
    <3>3. lastBlock'[m] = b
      BY <1>1, <1>3, <2>1, <3>1 DEF IndexTypes
    <3> QED BY <3>2, <3>3
  <2>2. CASE m # n
    <3>1. m \in started /\ lastBlock'[m] = lastBlock[m]
      BY <1>1, <1>3, <2>2 DEF IndexTypes
    <3> QED BY <1>2, <3>1, CountersStay
  <2> QED BY <2>1, <2>2
<1>5. \A d \in Polls : \E p \in Poll : poll'[d] = p /\ Fits(p)'
  BY <1>1, <1>2, PollsStay
<1>6. /\ Covers(savedBlock)' /\ \A m \in started' : Covers(lastBlock[m])'
      /\ \A d \in Polls : Fits(poll[d])'
  BY <1>1, <1>2, <1>3, <1>4, <1>5, ClaimsStay
<1>7. IndexTypes'
  <2>1. lastBlock' \in [Starts -> Nat] /\ heardBlock' \in [Starts -> Nat]
    BY <1>1, <1>3 DEF IndexTypes
  <2> QED BY <1>1, <1>2, <1>3, <2>1 DEF IndexTypes
<1> QED BY <1>2, <1>6, <1>7 DEF RowsInv

LEMMA RowsInitInv ==
  ASSUME IndexerInit
  PROVE  RowsInv
<1>1. /\ stakeLog = << >> /\ rows = [k \in Stakes |-> "none"] /\ docked = {} /\ savedBlock = 0
      /\ started = {1} /\ lastBlock = [n \in Starts |-> 0] /\ heardBlock = [n \in Starts |-> 0]
      /\ poll = [c \in Polls |-> IdlePoll] /\ lost = {}
  BY DEF IndexerInit
<1>2. Tip = 0
  BY <1>1 DEF Tip
<1>3. IndexTypes
  <2>1. poll \in [Polls -> Poll]
    BY <1>1, IdleFits
  <2> QED BY <1>1, <1>2, <2>1, IndexAssumption DEF IndexTypes, Statuses
<1>4. ChainOrder /\ RowsSound
  BY <1>1, <1>2 DEF ChainOrder, RowsSound
<1>5. Covers(0)
  BY <1>2 DEF Covers, Found
<1>6. \A c \in Polls : Fits(poll[c])
  BY <1>1 DEF Fits, IdlePoll
<1> QED BY <1>1, <1>3, <1>4, <1>5, <1>6, IndexAssumption DEF RowsInv

LEMMA RowsStep ==
  ASSUME RowsInv, [IndexerNext]_indexerVars
  PROVE  RowsInv'
<1>1. CASE MineStake
  BY <1>1, MineStep
<1>2. CASE \E n \in Starts, c \in Polls : OnStakeBlock(n, c)
  BY <1>2, AnnouncedStep
<1>3. CASE \E c \in Polls : QueriesAnswered(c)
  BY <1>3, AnsweredStep
<1>4. CASE \E c \in Polls : HandleLog(c)
  BY <1>4, HandleLogStep
<1>5. CASE \E c \in Polls : StatementThrows(c)
  BY <1>5, StatementThrowsStep
<1>6. CASE \E c \in Polls : SaveBlock(c)
  BY <1>6, SaveStep
<1>7. CASE \E c \in Polls : PollThrows(c)
  BY <1>7, PollThrowsStep
<1>8. CASE BackendDies
  BY <1>8, DiesStep
<1>9. CASE BackendStarts
  BY <1>9, StartStep, IndexAssumption DEF BackendStarts, historyVars
<1>10. CASE \E n \in Starts : ProviderError(n)
  <2>1. PICK n \in Starts : ProviderError(n)
    BY <1>10
  <2> QED BY <2>1, StartStep DEF ProviderError
<1>11. CASE UNCHANGED indexerVars
  <2>1. UNCHANGED <<stakeLog, rows, docked, savedBlock, started, lastBlock, heardBlock, poll, lost>>
    BY <1>11 DEF indexerVars, tableRows, startVars, historyVars
  <2>2. IndexTypes' /\ ChainOrder' /\ RowsSound'
    <3>1. IndexTypes /\ ChainOrder /\ RowsSound
      BY Zenon DEF RowsInv
    <3>2. IndexTypes'
      BY <2>1, <3>1 DEF IndexTypes, Tip
    <3>3. ChainOrder'
      BY <2>1, <3>1 DEF ChainOrder, Tip
    <3>4. RowsSound'
      BY <2>1, <3>1 DEF RowsSound, Tip, Happened
    <3> QED BY <3>2, <3>3, <3>4, Zenon
  <2>3. \A b : Covers(b)' <=> Covers(b)
    BY <2>1 DEF Covers, Found, Shown, Tip
  <2>4. Covers(savedBlock)' /\ \A n \in started' : Covers(lastBlock[n])'
    BY <2>1, <2>3 DEF RowsInv
  <2>5. \A c \in Polls : Fits(poll[c])'
    BY <2>1 DEF RowsInv, Fits, Found, Shown, Tip
  <2> QED BY <2>2, <2>4, <2>5, Zenon DEF RowsInv
<1> QED BY <1>1, <1>2, <1>3, <1>4, <1>5, <1>6, <1>7, <1>8, <1>9, <1>10, <1>11 DEF IndexerNext

(* The blocks that are indexed are covered: a greatest counter exists,     *)
(* since none runs ahead of the chain.                                     *)
LEMMA IndexedCovered ==
  ASSUME RowsInv
  PROVE  Indexed \in Nat /\ Covers(Indexed)
<1> DEFINE S == {savedBlock} \cup {lastBlock[n] : n \in started}
<1>1. \A b \in S : b \in Nat /\ Covers(b)
  BY DEF RowsInv, IndexTypes
<1>2. Tip \in Nat /\ \A b \in S : b \in Nat /\ b <= Tip
  BY <1>1 DEF Covers, RowsInv, IndexTypes, Tip
<1> DEFINE T == {Tip - b : b \in S}
<1>3. T \subseteq Nat /\ T # {}
  <2>1. savedBlock \in S
    OBVIOUS
  <2> HIDE DEF S
  <2>2. \A b \in S : Tip - b \in Nat
    BY <1>2
  <2> QED BY <2>1, <2>2
<1>4. PICK t \in T : \A u \in T : t <= u
  <2> HIDE DEF T
  <2> QED BY <1>3, LeastExists
<1>5. PICK m \in S : t = Tip - m
  OBVIOUS
<1>6. \A b \in S : m >= b
  <2> TAKE b \in S
  <2>1. Tip - b \in T
    OBVIOUS
  <2>2. Tip - m <= Tip - b
    BY <1>4, <1>5, <2>1
  <2> HIDE DEF S, T
  <2> QED BY <1>2, <2>2
<1>7. Max(S) \in S
  <2> HIDE DEF S, T
  <2> QED BY <1>6 DEF Max
<1> QED BY <1>1, <1>7 DEF Indexed

LEMMA StatusIs ==
  ASSUME RowsInv, NEW k \in Stakes, NEW b \in Nat, b <= Tip
  PROVE  /\ ~Happened(k, {"registered"}, b) /\ ~Happened(k, Resolution, b) => StatusAt(k, b) = "none"
         /\ Happened(k, {"registered"}, b) /\ ~Happened(k, Resolution, b) => StatusAt(k, b) = "active"
         /\ \A i \in 1..b : stakeLog[i].stake = k /\ stakeLog[i].kind \in Resolution =>
              StatusAt(k, b) = Final(stakeLog[i].kind)
<1>1. Tip \in Nat /\ ChainOrder
  BY DEF RowsInv, IndexTypes, Tip
<1>2. \A kinds : ~Happened(k, Resolution, b) /\ kinds \subseteq Resolution => ~Happened(k, kinds, b)
  BY DEF Happened
<1>3. ~Happened(k, Resolution, b) =>
        /\ ~Happened(k, {"returned", "docked"}, b) /\ ~Happened(k, {"slashed"}, b)
        /\ ~Happened(k, {"released"}, b)
  <2>1. {"returned", "docked"} \subseteq Resolution /\ {"slashed"} \subseteq Resolution
        /\ {"released"} \subseteq Resolution
    BY DEF Resolution
  <2> QED BY <1>2, <2>1
<1>4. ASSUME NEW i \in 1..b, stakeLog[i].stake = k, stakeLog[i].kind \in Resolution
      PROVE  StatusAt(k, b) = Final(stakeLog[i].kind)
  <2>1. ASSUME NEW j \in 1..b, stakeLog[j].stake = k, stakeLog[j].kind \in Resolution
        PROVE  j = i
    <3>1. i \in 1..Tip /\ j \in 1..Tip /\ i \in Int /\ j \in Int
      BY <1>1
    <3>2. ~(i < j) /\ ~(j < i)
      BY <1>1, <1>4, <2>1, <3>1 DEF ChainOrder, Resolution
    <3> QED BY <3>1, <3>2
  <2>2. Happened(k, Resolution, b)
    BY <1>4 DEF Happened
  <2>3. \A kinds : kinds \subseteq Resolution => (Happened(k, kinds, b) <=> stakeLog[i].kind \in kinds)
    BY <1>4, <2>1 DEF Happened
  <2>4. /\ Happened(k, {"returned", "docked"}, b) <=> stakeLog[i].kind \in {"returned", "docked"}
        /\ Happened(k, {"slashed"}, b) <=> stakeLog[i].kind \in {"slashed"}
        /\ Happened(k, {"released"}, b) <=> stakeLog[i].kind \in {"released"}
    BY <2>3 DEF Resolution
  <2>5. CASE stakeLog[i].kind \in {"returned", "docked"}
    BY <2>2, <2>4, <2>5 DEF StatusAt, Final
  <2>6. CASE stakeLog[i].kind = "slashed"
    BY <2>2, <2>4, <2>6 DEF StatusAt, Final
  <2>7. CASE stakeLog[i].kind = "released"
    BY <2>2, <2>4, <2>7 DEF StatusAt, Final
  <2> QED BY <1>4, <2>5, <2>6, <2>7 DEF Resolution
<1>5. ~Happened(k, {"registered"}, b) /\ ~Happened(k, Resolution, b) => StatusAt(k, b) = "none"
  BY <1>3 DEF StatusAt
<1>6. Happened(k, {"registered"}, b) /\ ~Happened(k, Resolution, b) => StatusAt(k, b) = "active"
  BY <1>3 DEF StatusAt
<1> QED BY <1>4, <1>5, <1>6

(* What the rows of covered blocks show.                                   *)
LEMMA CoveredRow ==
  ASSUME RowsInv, NEW k \in Stakes, k \notin lost, NEW b \in Nat, Covers(b)
  PROVE  /\ Happened(k, {"registered"}, b) => rows[k] # "none"
         /\ \A i \in 1..b : stakeLog[i].stake = k /\ stakeLog[i].kind \in Resolution =>
              rows[k] = Final(stakeLog[i].kind)
         /\ Happened(k, {"docked"}, b) => k \in docked
<1>1. b <= Tip /\ \A e \in Found(1, b) : Shown(e)
  BY DEF Covers
<1>2. ASSUME NEW s \in 1..5, NEW i \in 1..b, stakeLog[i].stake = k, stakeLog[i].kind \in Queried(s)
      PROVE  \/ s = 1 /\ rows[k] # "none"
             \/ s = 3 /\ k \in docked
             \/ s \in {2, 4, 5} /\ rows[k] = Final(stakeLog[i].kind)
  <2> DEFINE e == <<s, i>>
  <2>1. e \in Found(1, b) /\ e[1] = s /\ e[2] = i
    BY <1>2 DEF Found
  <2> HIDE DEF e
  <2>2. Shown(e) /\ stakeLog[e[2]].stake = k
    BY <1>1, <1>2, <2>1
  <2> QED BY <2>1, <2>2 DEF Shown
<1>3. Happened(k, {"registered"}, b) => rows[k] # "none"
  BY <1>2 DEF Happened, Queried
<1>4. ASSUME NEW i \in 1..b, stakeLog[i].stake = k, stakeLog[i].kind \in Resolution
      PROVE  rows[k] = Final(stakeLog[i].kind)
  <2>1. \/ stakeLog[i].kind \in Queried(2) \/ stakeLog[i].kind \in Queried(4)
        \/ stakeLog[i].kind \in Queried(5)
    BY <1>4 DEF Resolution, Queried
  <2> QED BY <1>2, <1>4, <2>1
<1>5. Happened(k, {"docked"}, b) => k \in docked
  BY <1>2 DEF Happened, Queried
<1> QED BY <1>3, <1>4, <1>5

LEMMA RowsShowChain ==
  ASSUME RowsInv
  PROVE  RowsFollowChain
<1> SUFFICES ASSUME NEW k \in Stakes
             PROVE  /\ \E b \in (IF k \in lost THEN 0 ELSE Indexed)..Tip : rows[k] = StatusAt(k, b)
                    /\ k \in docked => Happened(k, {"docked"}, Tip)
                    /\ k \notin lost /\ Happened(k, {"docked"}, Indexed) => k \in docked
                    /\ k \notin lost /\ Indexed = Tip => (canReclaim(k) <=> StatusAt(k, Tip) = "active")
  BY DEF RowsFollowChain
<1>1. /\ IndexTypes /\ ChainOrder /\ RowsSound /\ Tip \in Nat
      /\ Indexed \in Nat /\ Indexed <= Tip /\ Covers(Indexed)
  BY IndexedCovered DEF RowsInv, Covers, IndexTypes, Tip
<1>2. PICK low \in Nat : low = IF k \in lost THEN 0 ELSE Indexed
  BY <1>1
<1>3. low <= Tip
  BY <1>1, <1>2
<1>4. \A b \in Nat : Happened(k, Resolution, b) /\ b <= Tip => Happened(k, {"registered"}, b)
  <2> SUFFICES ASSUME NEW b \in Nat, Happened(k, Resolution, b), b <= Tip
               PROVE  Happened(k, {"registered"}, b)
    OBVIOUS
  <2>1. PICK j \in 1..b : stakeLog[j].stake = k /\ stakeLog[j].kind \in Resolution
    BY DEF Happened
  <2>2. j \in 1..Tip
    BY <1>1
  <2>3. PICK i \in 1..(j - 1) : stakeLog[i].stake = k /\ stakeLog[i].kind = "registered"
    BY <1>1, <2>1, <2>2 DEF ChainOrder
  <2>4. i \in 1..b
    OBVIOUS
  <2> QED BY <2>3, <2>4 DEF Happened
<1>5. \E b \in low..Tip : rows[k] = StatusAt(k, b)
  <2>1. CASE rows[k] = "none"
    <3>1. ~Happened(k, {"registered"}, low)
      <4>1. CASE k \in lost
        BY <1>2, <4>1 DEF Happened
      <4>2. CASE k \notin lost
        BY <1>1, <1>2, <2>1, <4>2, CoveredRow
      <4> QED BY <4>1, <4>2
    <3>2. ~Happened(k, Resolution, low)
      BY <1>3, <1>4, <3>1
    <3>3. StatusAt(k, low) = "none"
      BY <1>3, <3>1, <3>2, StatusIs
    <3>4. low \in low..Tip
      BY <1>1, <1>3
    <3> QED BY <2>1, <3>3, <3>4
  <2>2. CASE rows[k] = "active"
    <3>1. Happened(k, {"registered"}, Tip)
      BY <1>1, <2>2 DEF RowsSound
    <3>2. PICK j \in 1..Tip : stakeLog[j].stake = k /\ stakeLog[j].kind = "registered"
      BY <3>1 DEF Happened
    <3>3. PICK b \in Nat : b = IF j <= low THEN low ELSE j
      BY <1>1
    <3>4. b \in low..Tip /\ b <= Tip /\ j \in 1..b
      BY <1>1, <1>3, <3>3
    <3>5. Happened(k, {"registered"}, b)
      BY <3>2, <3>4 DEF Happened
    <3>6. ~Happened(k, Resolution, b)
      <4> SUFFICES ASSUME NEW i \in 1..b, stakeLog[i].stake = k, stakeLog[i].kind \in Resolution
                   PROVE  FALSE
        BY DEF Happened
      <4>1. CASE b = j
        <5>1. i \in 1..Tip /\ i # j
          BY <1>1, <3>2, <3>4 DEF Resolution
        <5>2. i < j
          BY <3>4, <4>1, <5>1
        <5> QED BY <1>1, <3>2, <5>1, <5>2 DEF ChainOrder, Resolution
      <4>2. CASE b = low /\ k \notin lost
        <5>1. rows[k] = Final(stakeLog[i].kind)
          BY <1>1, <1>2, <4>2, CoveredRow
        <5> QED BY <2>2, <5>1, FinalIs
      <4>3. CASE k \in lost /\ b = low
        BY <1>2, <3>4, <4>3
      <4> QED BY <3>3, <4>1, <4>2, <4>3
    <3>7. StatusAt(k, b) = "active"
      BY <3>4, <3>5, <3>6, StatusIs
    <3> QED BY <2>2, <3>4, <3>7
  <2>3. CASE rows[k] \notin {"none", "active"}
    <3>1. PICK i \in 1..Tip : /\ stakeLog[i].stake = k /\ stakeLog[i].kind \in Resolution
                              /\ rows[k] = Final(stakeLog[i].kind)
      BY <1>1, <2>3 DEF RowsSound
    <3>2. StatusAt(k, Tip) = rows[k]
      BY <1>1, <3>1, StatusIs
    <3>3. Tip \in low..Tip
      BY <1>1, <1>3
    <3> QED BY <3>2, <3>3
  <2> QED BY <2>1, <2>2, <2>3
<1>6. k \in docked => Happened(k, {"docked"}, Tip)
  BY <1>1 DEF RowsSound
<1>7. k \notin lost /\ Happened(k, {"docked"}, Indexed) => k \in docked
  BY <1>1, CoveredRow
<1>8. k \notin lost /\ Indexed = Tip => (canReclaim(k) <=> StatusAt(k, Tip) = "active")
  <2> SUFFICES ASSUME k \notin lost, Indexed = Tip
               PROVE  canReclaim(k) <=> StatusAt(k, Tip) = "active"
    OBVIOUS
  <2>1. PICK b \in low..Tip : rows[k] = StatusAt(k, b)
    BY <1>5
  <2>2. b = Tip
    BY <1>1, <1>2
  <2> QED BY <2>1, <2>2 DEF canReclaim
<1> QED BY <1>2, <1>5, <1>6, <1>7, <1>8

(* The table of stakes follows the chain, for any number of stakes, of     *)
(* callbacks that overlap and of starts beside each other, and any crashes *)
(* and failures: what a row shows happened, what is indexed is shown unless*)
(* its own statement threw, and exactly the stakes that are held are       *)
(* offered for reclaim.                                                    *)
THEOREM StakesFollowChain == IndexerSpec => []RowsFollowChain
<1>1. IndexerSpec => []RowsInv
  BY RowsInitInv, RowsStep, PTL DEF IndexerSpec
<1> QED BY <1>1, RowsShowChain, PTL
================================================================================
