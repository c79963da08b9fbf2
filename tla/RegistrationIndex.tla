--------------------------- MODULE RegistrationIndex ---------------------------
(***************************************************************************)
(* The table of stakes behind the Fillers page:                            *)
(* backend/src/indexer/registrationIndexer.ts follows the five events of   *)
(* FillAuction's stake lifecycle; what the table calls active, the page    *)
(* offers its filler to reclaim.                                           *)
(*                                                                         *)
(* A callback of a block asks for all five streams and handles one after   *)
(* the other, with an await at every row; callbacks overlap.  An error of  *)
(* the provider starts the indexer once more, beside the one that runs on, *)
(* with a counter of its own; all starts share the saved checkpoint.  The  *)
(* checkpoint is resolved as in production, where a gap is backfilled.     *)
(*                                                                         *)
(* A block holds one event at most.  A filler registers for an order once, *)
(* so a stake is known by the two, here as one value.                      *)
(***************************************************************************)
EXTENDS Naturals, Sequences, FiniteSetsExt

CONSTANTS
  Stakes,      \* an order and a filler each
  Polls,       \* bound: how many callbacks may overlap
  Starts,      \* bound: 1..n, the starts of the indexer in one process
  LogLength,   \* bound on blocks
  MaxMishaps   \* bound on failures, crashes and provider errors

ASSUME IndexAssumption == LogLength \in Nat /\ MaxMishaps \in Nat /\ 1 \in Starts

VARIABLES
  stakeLog,    \* the chain: the event of every block
  rows,        \* registrations.status, "none" for no row
  docked,      \* rows with a forfeited_amount
  savedBlock,  \* indexer_state.last_block
  started,     \* the starts that run
  lastBlock,   \* lastBlock, by start
  heardBlock,  \* the last block announced, by start
  poll,        \* the callbacks under way
  mishaps,     \* bound
  lost         \* history: stakes for which a handler's statement threw

tableRows   == <<rows, docked, savedBlock>>
startVars   == <<started, lastBlock, heardBlock>>
historyVars == <<mishaps, lost>>
indexerVars == <<stakeLog, tableRows, startVars, poll, historyVars>>

Resolution == {"returned", "docked", "slashed", "released"}

Poll == [pc : {"idle", "query", "handle", "save"}, start : Starts, at : Nat, todo : SUBSET (Nat \X Nat)]
IdlePoll == [pc |-> "idle", start |-> CHOOSE n \in Starts : TRUE, at |-> 0, todo |-> {}]

(* The first start of all seeds the checkpoint with the current block: a   *)
(* behaviour begins there, and sees every stake registered since.          *)
IndexerInit ==
  /\ stakeLog = << >>
  /\ rows = [k \in Stakes |-> "none"] /\ docked = {} /\ savedBlock = 0
  /\ started = {1} /\ lastBlock = [n \in Starts |-> 0] /\ heardBlock = [n \in Starts |-> 0]
  /\ poll = [c \in Polls |-> IdlePoll]
  /\ mishaps = 0 /\ lost = {}

-----------------------------------------------------------------------------
(* The chain: a stake is registered once and resolved once at most.  One   *)
(* that is returned in part is docked: StakeReturned and StakeForfeited    *)
(* come out of one transaction.                                            *)
Tip == Len(stakeLog)

Happened(k, kinds, b) == \E i \in 1..b : stakeLog[i].stake = k /\ stakeLog[i].kind \in kinds

MineStake ==
  /\ Tip < LogLength
  /\ \E k \in Stakes, kind \in Resolution \cup {"registered"} :
       /\ kind = "registered" => ~Happened(k, {"registered"}, Tip)
       /\ kind \in Resolution => Happened(k, {"registered"}, Tip) /\ ~Happened(k, Resolution, Tip)
       /\ stakeLog' = Append(stakeLog, [kind |-> kind, stake |-> k])
  /\ UNCHANGED <<tableRows, startVars, poll, historyVars>>

-----------------------------------------------------------------------------
(* The five queries, in the order their logs are handled.                  *)
Queried(i) ==
  CASE i = 1 -> {"registered"} [] i = 2 -> {"returned", "docked"} [] i = 3 -> {"docked"}
    [] i = 4 -> {"slashed"}    [] i = 5 -> {"released"}

(* A callback's logs from a range of blocks.                               *)
Found(from, to) == {e \in (1..5) \X (from..to) : stakeLog[e[2]].kind \in Queried(e[1])}

(* Fault: what resolves a stake is handled before what registers it.       *)
FirstLog_Reversed(todo) ==
  CHOOSE e \in todo : \A d \in todo : e[1] > d[1] \/ (e[1] = d[1] /\ e[2] <= d[2])

(* Stream by stream, and by block in each.                                 *)
FirstLog(todo) ==
  CHOOSE e \in todo : \A d \in todo : e[1] < d[1] \/ (e[1] = d[1] /\ e[2] <= d[2])

(* On to the next log; after the last one the counter moves, and the       *)
(* checkpoint is to be written.                                            *)
GoOn(c, todo) ==
  IF todo # {}
    THEN poll' = [poll EXCEPT ![c].pc = "handle", ![c].todo = todo] /\ UNCHANGED lastBlock
    ELSE /\ lastBlock' = [lastBlock EXCEPT ![poll[c].start] = poll[c].at]
         /\ poll' = [poll EXCEPT ![c].pc = "save", ![c].todo = {}]

(* A block is announced to a start.  One its counter has passed is left    *)
(* alone; otherwise the ranges of the queries are fixed here.              *)
OnStakeBlock(n, c) ==
  LET b == heardBlock[n] + 1
  IN  /\ n \in started /\ poll[c].pc = "idle"
      /\ b <= Tip
      /\ heardBlock' = [heardBlock EXCEPT ![n] = b]
      /\ poll' = IF b <= lastBlock[n] THEN poll
                 ELSE [poll EXCEPT ![c] = [pc |-> "query", start |-> n, at |-> b,
                                           todo |-> Found(lastBlock[n] + 1, b)]]
      /\ UNCHANGED <<stakeLog, tableRows, started, lastBlock, historyVars>>

QueriesAnswered(c) ==
  /\ poll[c].pc = "query"
  /\ GoOn(c, poll[c].todo)
  /\ UNCHANGED <<stakeLog, tableRows, started, heardBlock, historyVars>>

(* Each handler is one statement: INSERT ... DO NOTHING, or an UPDATE that *)
(* finds the row or does not.                                              *)
HandleLog(c) ==
  /\ poll[c].pc = "handle"
  /\ LET e == FirstLog(poll[c].todo)
         k == stakeLog[e[2]].stake
     IN  /\ rows' = [rows EXCEPT ![k] =
                       CASE e[1] = 1 -> IF @ = "none" THEN "active" ELSE @
                         [] e[1] = 2 -> IF @ = "none" THEN @ ELSE "filled"
                         [] e[1] = 3 -> @
                         [] e[1] = 4 -> IF @ = "none" THEN @ ELSE "slashed"
                         [] e[1] = 5 -> IF @ = "none" THEN @ ELSE "released"]
         /\ docked' = IF e[1] = 3 /\ rows[k] # "none" THEN docked \cup {k} ELSE docked
         /\ GoOn(c, poll[c].todo \ {e})
  /\ UNCHANGED <<stakeLog, savedBlock, started, heardBlock, historyVars>>

(* A handler swallows what its statement throws.                           *)
StatementThrows(c) ==
  /\ poll[c].pc = "handle" /\ mishaps < MaxMishaps
  /\ mishaps' = mishaps + 1
  /\ LET e == FirstLog(poll[c].todo)
     IN  lost' = lost \cup {stakeLog[e[2]].stake} /\ GoOn(c, poll[c].todo \ {e})
  /\ UNCHANGED <<stakeLog, tableRows, started, heardBlock>>

SaveBlock(c) ==
  /\ poll[c].pc = "save"
  /\ savedBlock' = lastBlock[poll[c].start]
  /\ poll' = [poll EXCEPT ![c] = IdlePoll]
  /\ UNCHANGED <<stakeLog, rows, docked, startVars, historyVars>>

(* A query or the checkpoint's write throws: the callback is over.         *)
PollThrows(c) ==
  /\ poll[c].pc \in {"query", "save"} /\ mishaps < MaxMishaps
  /\ mishaps' = mishaps + 1
  /\ poll' = [poll EXCEPT ![c] = IdlePoll]
  /\ UNCHANGED <<stakeLog, tableRows, startVars, lost>>

-----------------------------------------------------------------------------
BackendDies ==
  /\ started # {} /\ mishaps < MaxMishaps
  /\ mishaps' = mishaps + 1
  /\ started' = {}
  /\ poll' = [c \in Polls |-> IdlePoll]
  /\ UNCHANGED <<stakeLog, tableRows, lastBlock, heardBlock, lost>>

(* Fault: the indexer follows the chain from now on.                       *)
FromCheckpoint_Tip == Tip

FromCheckpoint == savedBlock

(* startRegistrationIndexer: its provider announces the current block      *)
(* first.                                                                  *)
StartIndexer(n) ==
  /\ started' = started \cup {n}
  /\ lastBlock' = [lastBlock EXCEPT ![n] = FromCheckpoint]
  /\ heardBlock' = [heardBlock EXCEPT ![n] = IF Tip = 0 THEN 0 ELSE Tip - 1]

BackendStarts ==
  /\ started = {}
  /\ StartIndexer(1)
  /\ UNCHANGED <<stakeLog, tableRows, poll, historyVars>>

(* The provider reports an error: five seconds later there is one more     *)
(* start, and the provider of the one before goes on announcing blocks.    *)
ProviderError(n) ==
  /\ started # {} /\ n \notin started /\ mishaps < MaxMishaps
  /\ mishaps' = mishaps + 1
  /\ StartIndexer(n)
  /\ UNCHANGED <<stakeLog, tableRows, poll, lost>>

IndexerNext ==
  \/ MineStake
  \/ \E n \in Starts, c \in Polls : OnStakeBlock(n, c)
  \/ \E c \in Polls : \/ QueriesAnswered(c) \/ HandleLog(c) \/ StatementThrows(c)
                      \/ SaveBlock(c) \/ PollThrows(c)
  \/ BackendDies \/ BackendStarts
  \/ \E n \in Starts : ProviderError(n)

IndexerSpec == IndexerInit /\ [][IndexerNext]_indexerVars

-----------------------------------------------------------------------------
(* What a stake's row shows once block b is indexed.                       *)
StatusAt(k, b) ==
  CASE Happened(k, {"returned", "docked"}, b) -> "filled"
    [] Happened(k, {"slashed"}, b)            -> "slashed"
    [] Happened(k, {"released"}, b)           -> "released"
    [] Happened(k, {"registered"}, b) /\ ~Happened(k, Resolution, b) -> "active"
    [] OTHER                                  -> "none"

(* The page's Reclaim button, for the row's filler.                        *)
canReclaim(k) == rows[k] = "active"

(* The blocks that were dealt with: those a checkpoint or a counter covers.*)
Indexed == Max({savedBlock} \cup {lastBlock[n] : n \in started})

(* Whatever overlaps, is handled twice, crashes or is started beside       *)
(* itself: a row never shows what the chain did not do, nothing that a     *)
(* counter or the checkpoint has passed is missing unless its own statement*)
(* threw, and once every block is indexed exactly the stakes that are held *)
(* are offered for reclaim, and those docked are marked.                   *)
RowsFollowChain ==
  \A k \in Stakes :
    /\ \E b \in (IF k \in lost THEN 0 ELSE Indexed)..Tip : rows[k] = StatusAt(k, b)
    /\ k \in docked => Happened(k, {"docked"}, Tip)
    /\ k \notin lost /\ Happened(k, {"docked"}, Indexed) => k \in docked
    /\ k \notin lost /\ Indexed = Tip => (canReclaim(k) <=> StatusAt(k, Tip) = "active")

-----------------------------------------------------------------------------
(* The inductive invariant behind it.                                      *)
Statuses == {"none", "active", "filled", "slashed", "released"}

IndexTypes ==
  /\ stakeLog \in Seq([kind : Resolution \cup {"registered"}, stake : Stakes])
  /\ rows \in [Stakes -> Statuses] /\ docked \subseteq Stakes /\ savedBlock \in 0..Tip
  /\ started \subseteq Starts /\ lastBlock \in [Starts -> Nat] /\ heardBlock \in [Starts -> Nat]
  /\ poll \in [Polls -> Poll] /\ lost \subseteq Stakes

(* Two events of a stake are its registration and then its resolution.     *)
ChainOrder ==
  /\ \A i, j \in 1..Tip : i < j /\ stakeLog[i].stake = stakeLog[j].stake =>
       stakeLog[i].kind = "registered" /\ stakeLog[j].kind \in Resolution
  /\ \A j \in 1..Tip : stakeLog[j].kind \in Resolution =>
       \E i \in 1..(j - 1) : stakeLog[i].stake = stakeLog[j].stake /\ stakeLog[i].kind = "registered"

Final(kind) ==
  IF kind = "slashed" THEN "slashed" ELSE IF kind = "released" THEN "released" ELSE "filled"

RowsSound ==
  \A k \in Stakes :
    /\ rows[k] # "none" => Happened(k, {"registered"}, Tip)
    /\ rows[k] \notin {"none", "active"} =>
         \E i \in 1..Tip : /\ stakeLog[i].stake = k /\ stakeLog[i].kind \in Resolution
                          /\ rows[k] = Final(stakeLog[i].kind)
    /\ k \in docked => Happened(k, {"docked"}, Tip)

(* A log was handled: its row has it, and will keep it, unless a statement *)
(* of its stake threw.                                                     *)
Shown(e) ==
  LET k == stakeLog[e[2]].stake
  IN  \/ k \in lost
      \/ e[1] = 1 /\ rows[k] # "none"
      \/ e[1] = 3 /\ k \in docked
      \/ e[1] \in {2, 4, 5} /\ rows[k] = Final(stakeLog[e[2]].kind)

Covers(b) == b <= Tip /\ \A e \in Found(1, b) : Shown(e)

(* A callback has handled what it does not hold, up to its block, whatever *)
(* range it asked for.                                                     *)
Fits(p) ==
  p.pc # "idle" =>
    /\ p.start \in started /\ p.at <= Tip
    /\ p.pc \in {"query", "handle"} =>
         p.todo \subseteq Found(1, p.at) /\ \A e \in Found(1, p.at) : e \in p.todo \/ Shown(e)
    /\ p.pc = "handle" => p.todo # {}

RowsInv ==
  /\ IndexTypes /\ ChainOrder /\ RowsSound
  /\ Covers(savedBlock)
  /\ \A n \in started : Covers(lastBlock[n])
  /\ \A c \in Polls : Fits(poll[c])
=============================================================================
