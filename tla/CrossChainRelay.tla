---------------------------- MODULE CrossChainRelay ----------------------------
(***************************************************************************)
(* The backend's part in a cross-chain fill: a status board (one row of    *)
(* cc_fills per fill), a watcher per chain that advances it from the logs  *)
(* it reads block by block, and the relayer that claims the destination    *)
(* once the secret is on the board.  The backend process may crash at any  *)
(* point; the rows and the watchers' checkpoints survive.                  *)
(*                                                                         *)
(* The chains appear as far as the backend sees them: the block each event *)
(* is in, who filled the slot, and what became of the destination escrow.  *)
(* What the escrows guarantee of the funds is CrossChainSwap's.  One event *)
(* a block; blocks are final.                                              *)
(*                                                                         *)
(* Two fills the board does not follow to the end: one whose slot another  *)
(* than the row's filler took (foreign), which recordSrcLocked leaves      *)
(* waiting, and one that a sign request begun earlier set back after it    *)
(* was locked (setBack), whose later events no longer find the status they *)
(* expect.  Both happen in the model.                                      *)
(***************************************************************************)
EXTENDS Integers

CONSTANTS
  Fills,
  RESCAN_LAG,      \* blocks a watcher reads again each time
  DEV_REWIND_LAG,  \* lag beyond which a checkpoint is given up, without BACKFILL
  BACKFILL,        \* replay any backlog (production)
  MaxPolls,        \* bound: relayer polls of one fill under way at once
  MaxSigners,      \* bound: sign requests of one fill under way at once
  MaxBlocks,       \* bound: blocks of each chain
  MaxCrashes,      \* bound: crashes of the backend
  MaxFailures      \* bound: calls to the database or a node that fail

Chains == {"src", "dst"}

ASSUME RelayAssumption ==
  /\ RESCAN_LAG \in Nat \ {0} /\ DEV_REWIND_LAG \in Nat /\ BACKFILL \in BOOLEAN
  /\ MaxPolls \in Nat /\ MaxSigners \in Nat /\ MaxBlocks \in [Chains -> Nat]
  /\ MaxCrashes \in Nat /\ MaxFailures \in Nat

Kinds  == {"EscrowCreated", "Filled", "Withdrawn", "Cancelled"}
Events == Fills \X Kinds

ChainOf(e) == IF e[2] = "EscrowCreated" THEN "dst" ELSE "src"

Statuses ==
  {"none", "quoted", "dst_funded", "authorized", "src_locked", "revealed", "claimed", "slashed"}

VARIABLES
  tip,         \* each chain's latest block
  at,          \* the block an event is in, 0 when it has not happened
  dst,         \* none, open, claimed or refunded: a fill's destination escrow
  genuine,     \* the fills whose clone carries the terms they were quoted with
  foreign,     \* the fills whose slot another than the filler of the row took
  passed,      \* how many of a fill's T1 and T2 have passed
  status,      \* cc_fills.status
  known,       \* the fills whose escrow_src_addr is recorded
  checkpoint,  \* indexer_state.last_block
  signing,     \* sign requests that have read dst_funded and not yet written
  setBack,     \* history: the fills such a request found locked, and set back
  last,        \* a watcher's lastBlock, -1 until it has connected
  seen,        \* its latestSeen
  floor,       \* its floorBlock
  draining,    \* whether it is draining,
  upTo,        \*   up to which block,
  todo,        \*   and the logs it has read and not handled
  checked,     \* relayer polls that found the escrow open and not yet claimed
  sent,        \* fills whose relayed claim is in and not yet recorded
  crashes, failures

chainVars   == <<tip, at, dst, genuine, foreign, passed>>
boardVars   == <<status, known, checkpoint>>
watcherVars == <<last, seen, floor, draining, upTo, todo>>
signVars    == <<signing, setBack>>
relayVars   == <<checked, sent>>
faultVars   == <<crashes, failures>>
vars == <<chainVars, boardVars, signVars, watcherVars, relayVars, faultVars>>

Happened(h, kind) == at[<<h, kind>>] # 0

Init ==
  /\ tip = [c \in Chains |-> 0]
  /\ at = [e \in Events |-> 0]
  /\ dst = [h \in Fills |-> "none"]
  /\ genuine = {}
  /\ foreign = {}
  /\ passed = [h \in Fills |-> 0]
  /\ status = [h \in Fills |-> "none"]
  /\ known = {}
  /\ checkpoint = [c \in Chains |-> 0]
  /\ signing = [h \in Fills |-> 0]
  /\ setBack = {}
  /\ last = [c \in Chains |-> -1]
  /\ seen = [c \in Chains |-> -1]
  /\ floor = [c \in Chains |-> -1]
  /\ draining = [c \in Chains |-> FALSE]
  /\ upTo = [c \in Chains |-> 0]
  /\ todo = [c \in Chains |-> {}]
  /\ checked = [h \in Fills |-> 0]
  /\ sent = {}
  /\ crashes = 0
  /\ failures = 0

-----------------------------------------------------------------------------
(* The chains.  A transaction's event goes into a block of its own.        *)
Emit(e) ==
  /\ at[e] = 0
  /\ tip[ChainOf(e)] < MaxBlocks[ChainOf(e)]
  /\ tip' = [tip EXCEPT ![ChainOf(e)] = @ + 1]
  /\ at' = [at EXCEPT ![e] = tip[ChainOf(e)] + 1]

chainOnly == UNCHANGED <<boardVars, signVars, watcherVars, relayVars, faultVars>>

EmptyBlock(c) ==
  /\ tip[c] < MaxBlocks[c]
  /\ tip' = [tip EXCEPT ![c] = @ + 1]
  /\ UNCHANGED <<at, dst, genuine, foreign, passed>> /\ chainOnly

(* A filler quotes before it funds, and may deploy other terms than those. *)
FundDst(h) ==
  /\ status[h] # "none"
  /\ dst[h] = "none" /\ passed[h] < 2
  /\ Emit(<<h, "EscrowCreated">>)
  /\ dst' = [dst EXCEPT ![h] = "open"]
  /\ genuine' \in {genuine, genuine \cup {h}}
  /\ UNCHANGED <<foreign, passed>> /\ chainOnly

(* It needs the swapper's signature, which the board shows once authorized,*)
(* to whoever asks: the filler that quoted is not bound by it.             *)
FillSlot(h) ==
  /\ status[h] \notin {"none", "quoted", "dst_funded"}
  /\ passed[h] = 0
  /\ Emit(<<h, "Filled">>)
  /\ foreign' \in {foreign, foreign \cup {h}}
  /\ UNCHANGED <<dst, genuine, passed>> /\ chainOnly

Withdraw(h) ==
  /\ Happened(h, "Filled") /\ ~Happened(h, "Cancelled")
  /\ passed[h] = 0
  /\ Emit(<<h, "Withdrawn">>)
  /\ UNCHANGED <<dst, genuine, foreign, passed>> /\ chainOnly

Cancel(h) ==
  /\ Happened(h, "Filled") /\ ~Happened(h, "Withdrawn")
  /\ passed[h] >= 1
  /\ Emit(<<h, "Cancelled">>)
  /\ UNCHANGED <<dst, genuine, foreign, passed>> /\ chainOnly

(* The swapper's own claim, with the secret the source chain shows.        *)
ClaimBySwapper(h) ==
  /\ Happened(h, "Withdrawn")
  /\ dst[h] = "open" /\ passed[h] < 2
  /\ dst' = [dst EXCEPT ![h] = "claimed"]
  /\ UNCHANGED <<tip, at, genuine, foreign, passed>> /\ chainOnly

Refund(h) ==
  /\ dst[h] = "open" /\ passed[h] = 2
  /\ dst' = [dst EXCEPT ![h] = "refunded"]
  /\ UNCHANGED <<tip, at, genuine, foreign, passed>> /\ chainOnly

PassTime(h) ==
  /\ status[h] # "none" /\ passed[h] < 2
  /\ passed' = [passed EXCEPT ![h] = @ + 1]
  /\ UNCHANGED <<tip, at, dst, genuine, foreign>> /\ chainOnly

-----------------------------------------------------------------------------
(* The board's clients.                                                    *)
Quote(h) ==
  /\ status[h] = "none"
  /\ status' = [status EXCEPT ![h] = "quoted"]
  /\ UNCHANGED <<chainVars, known, checkpoint, signVars, watcherVars, relayVars, faultVars>>

(* setFillSwapperSig reads the row and checks its status ...               *)
StartSign(h) ==
  /\ status[h] = "dst_funded"
  /\ signing[h] < MaxSigners
  /\ signing' = [signing EXCEPT ![h] = @ + 1]
  /\ UNCHANGED <<chainVars, boardVars, setBack, watcherVars, relayVars, faultVars>>

Locked == {"src_locked", "revealed", "claimed", "slashed"}

(* ... and then writes it, whatever it has become.                         *)
FinishSign(h) ==
  /\ signing[h] > 0
  /\ signing' = [signing EXCEPT ![h] = @ - 1]
  /\ status' = [status EXCEPT ![h] = "authorized"]
  /\ setBack' = IF status[h] \in Locked THEN setBack \cup {h} ELSE setBack
  /\ UNCHANGED <<chainVars, known, checkpoint, watcherVars, relayVars, faultVars>>

-----------------------------------------------------------------------------
(* The UPDATE ... WHERE status = ... of the board.                         *)
Advance(h, from, into) ==
  status' = IF status[h] \in from THEN [status EXCEPT ![h] = into] ELSE status

(* Fault: recordSrcLocked writes whatever the status.                      *)
recordSrcLocked_Unguarded(h) ==
  /\ status' = [status EXCEPT ![h] = "src_locked"]
  /\ known' = known \cup {h}

(* Of the row's own filler only.                                           *)
recordSrcLocked(h) ==
  IF h \in foreign
    THEN UNCHANGED <<status, known>>
    ELSE /\ Advance(h, {"authorized"}, "src_locked")
         /\ known' = IF status[h] = "authorized" THEN known \cup {h} ELSE known

recordDstFunded(h) == Advance(h, {"quoted"}, "dst_funded") /\ UNCHANGED known

recordReveal(h) == Advance(h, {"src_locked"}, "revealed") /\ UNCHANGED known

recordSlashed(h) == Advance(h, {"authorized", "src_locked"}, "slashed") /\ UNCHANGED known

recordClaimed(h) == Advance(h, {"revealed"}, "claimed")

assertGenuineDstClone(h) == h \in genuine

(* Fault: any clone of the factory is taken for the one quoted.            *)
handleEscrowCreated_Trusting(e) ==
  e[2] = "EscrowCreated" /\ recordDstFunded(e[1])

handleEscrowCreated(e) ==
  /\ e[2] = "EscrowCreated"
  /\ \/ assertGenuineDstClone(e[1]) /\ recordDstFunded(e[1])
     \/ ~assertGenuineDstClone(e[1]) /\ UNCHANGED <<status, known>>

(* A clone the factory names is the one it deployed.                       *)
handleFilled(e) == e[2] = "Filled" /\ recordSrcLocked(e[1])

(* Withdrawn and Cancelled come from the clones themselves: those the board*)
(* has recorded count.                                                     *)
handleSrcEscrowLog(e) ==
  \/ e[2] = "Withdrawn" /\ e[1] \in known /\ recordReveal(e[1])
  \/ e[2] = "Cancelled" /\ e[1] \in known /\ recordSlashed(e[1])
  \/ e[2] \in {"Withdrawn", "Cancelled"} /\ e[1] \notin known /\ UNCHANGED <<status, known>>

HandleLog(e) == handleEscrowCreated(e) \/ handleFilled(e) \/ handleSrcEscrowLog(e)

(* Fault: the clones' logs before the factory's.                           *)
Precedes_ClonesFirst(d, e) ==
  \/ d[2] \in {"Withdrawn", "Cancelled"} /\ e[2] = "Filled"
  \/ (d[2] = "Filled" <=> e[2] = "Filled") /\ at[d] < at[e]

(* In which order a drain handles its logs: the factory's first, each kind *)
(* by block.                                                               *)
Precedes(d, e) ==
  \/ d[2] = "Filled" /\ e[2] \in {"Withdrawn", "Cancelled"}
  \/ (d[2] = "Filled" <=> e[2] = "Filled") /\ at[d] < at[e]

MaxOf(a, b) == IF a > b THEN a ELSE b

(* Fault: only the blocks since the last drain that are within the lag.    *)
FromBlock_Capped(c) == MaxOf(MaxOf(0, floor[c]), seen[c] + 1 - RESCAN_LAG)

FromBlock(c) == MaxOf(MaxOf(0, floor[c]), last[c] + 1 - RESCAN_LAG)

(* provider.on('block'): block numbers only go up for a watcher.           *)
SeeBlock(c) ==
  /\ \E b \in (seen[c] + 1)..tip[c] : seen' = [seen EXCEPT ![c] = b]
  /\ UNCHANGED <<chainVars, boardVars, signVars, last, floor, draining, upTo, todo, relayVars, faultVars>>

(* A pass of drain's loop: the logs from the rescan window to latestSeen.  *)
(* Every block event calls drain, so one that finds work to do and is not  *)
(* draining may start at any time; a poll that fails leaves it as it was.  *)
StartDrain(c) ==
  /\ ~draining[c]
  /\ last[c] >= 0 /\ seen[c] > last[c]
  /\ draining' = [draining EXCEPT ![c] = TRUE]
  /\ upTo' = [upTo EXCEPT ![c] = seen[c]]
  /\ todo' = [todo EXCEPT ![c] =
                {e \in Events : ChainOf(e) = c /\ at[e] # 0 /\ at[e] \in FromBlock(c)..seen[c]}]
  /\ UNCHANGED <<chainVars, boardVars, signVars, last, seen, floor, relayVars, faultVars>>

IsNext(c, e) == e \in todo[c] /\ \A d \in todo[c] : ~Precedes(d, e)

HandleNext(c, e) ==
  /\ IsNext(c, e)
  /\ todo' = [todo EXCEPT ![c] = @ \ {e}]
  /\ HandleLog(e)
  /\ UNCHANGED <<chainVars, checkpoint, signVars, last, seen, floor, draining, upTo, relayVars, faultVars>>

(* A handler that throws is logged, and the drain goes on.                 *)
SkipNext(c, e) ==
  /\ IsNext(c, e)
  /\ failures < MaxFailures
  /\ failures' = failures + 1
  /\ todo' = [todo EXCEPT ![c] = @ \ {e}]
  /\ UNCHANGED <<chainVars, boardVars, signVars, last, seen, floor, draining, upTo, relayVars, crashes>>

(* setCheckpoint may fail; lastBlock has moved on by then.                 *)
FinishDrain(c) ==
  /\ draining[c] /\ todo[c] = {}
  /\ draining' = [draining EXCEPT ![c] = FALSE]
  /\ last' = [last EXCEPT ![c] = upTo[c]]
  /\ \/ checkpoint' = [checkpoint EXCEPT ![c] = upTo[c]] /\ UNCHANGED failures
     \/ /\ failures < MaxFailures
        /\ failures' = failures + 1 /\ UNCHANGED checkpoint
  /\ UNCHANGED <<chainVars, status, known, signVars, seen, floor, upTo, todo, relayVars, crashes>>

-----------------------------------------------------------------------------
(* The relayer: a poll finds the secret on the board and the escrow open.  *)
(* Polls overlap, a claim may take longer than the time between two.       *)
RelayPoll(h) ==
  /\ status[h] = "revealed"
  /\ passed[h] < 2
  /\ dst[h] = "open"
  /\ checked[h] < MaxPolls
  /\ checked' = [checked EXCEPT ![h] = @ + 1]
  /\ UNCHANGED <<chainVars, boardVars, signVars, watcherVars, sent, faultVars>>

(* Fault: the claim counts as in before it is.                             *)
RelayClaim_Unawaited(h) ==
  /\ checked[h] > 0
  /\ checked' = [checked EXCEPT ![h] = @ - 1]
  /\ dst' = IF dst[h] = "open" /\ passed[h] < 2 THEN [dst EXCEPT ![h] = "claimed"] ELSE dst
  /\ sent' = sent \cup {h}
  /\ UNCHANGED <<tip, at, genuine, foreign, passed, boardVars, signVars, watcherVars, faultVars>>

(* claim goes in, or reverts on an escrow settled or expired meanwhile, or *)
(* cannot be sent; the last two are logged, and a later poll tries again.  *)
RelayClaim(h) ==
  /\ checked[h] > 0
  /\ checked' = [checked EXCEPT ![h] = @ - 1]
  /\ \/ /\ dst[h] = "open" /\ passed[h] < 2
        /\ dst' = [dst EXCEPT ![h] = "claimed"]
        /\ sent' = sent \cup {h}
        /\ UNCHANGED failures
     \/ /\ dst[h] # "open" \/ passed[h] = 2
        /\ UNCHANGED <<dst, sent, failures>>
     \/ /\ failures < MaxFailures
        /\ failures' = failures + 1
        /\ UNCHANGED <<dst, sent>>
  /\ UNCHANGED <<tip, at, genuine, foreign, passed, boardVars, signVars, watcherVars, crashes>>

(* recordClaimed, or its failure, which is only logged.                    *)
RecordClaimed(h) ==
  /\ h \in sent
  /\ sent' = sent \ {h}
  /\ \/ recordClaimed(h) /\ UNCHANGED failures
     \/ /\ failures < MaxFailures
        /\ failures' = failures + 1 /\ UNCHANGED status
  /\ UNCHANGED <<chainVars, known, checkpoint, signVars, watcherVars, checked, crashes>>

-----------------------------------------------------------------------------
(* The process dies: what it holds in memory is gone.                      *)
Crash ==
  /\ crashes < MaxCrashes
  /\ crashes' = crashes + 1
  /\ signing' = [h \in Fills |-> 0]
  /\ UNCHANGED setBack
  /\ last' = [c \in Chains |-> -1]
  /\ seen' = [c \in Chains |-> -1]
  /\ floor' = [c \in Chains |-> -1]
  /\ draining' = [c \in Chains |-> FALSE]
  /\ upTo' = [c \in Chains |-> 0]
  /\ todo' = [c \in Chains |-> {}]
  /\ checked' = [h \in Fills |-> 0]
  /\ sent' = {}
  /\ UNCHANGED <<chainVars, boardVars, failures>>

(* Fault: the checkpoint is given up for the tip after any outage.         *)
resolveCheckpoint_ToTip(lastBlock, current) == current

(* The row is there since the watcher first ran, and the chain is the same.*)
resolveCheckpoint(lastBlock, current) ==
  IF \/ lastBlock > current
     \/ current - lastBlock > DEV_REWIND_LAG /\ ~BACKFILL
    THEN current ELSE lastBlock

Connect(c) ==
  /\ last[c] = -1
  /\ last' = [last EXCEPT ![c] = resolveCheckpoint(checkpoint[c], tip[c])]
  /\ floor' = [floor EXCEPT ![c] = resolveCheckpoint(checkpoint[c], tip[c])]
  /\ checkpoint' = [checkpoint EXCEPT ![c] = resolveCheckpoint(checkpoint[c], tip[c])]
  /\ UNCHANGED <<chainVars, status, known, signVars, seen, draining, upTo, todo, relayVars, faultVars>>

-----------------------------------------------------------------------------
ChainStep(h) ==
  \/ FundDst(h) \/ FillSlot(h) \/ Withdraw(h) \/ Cancel(h)
  \/ ClaimBySwapper(h) \/ Refund(h) \/ PassTime(h)

ClientStep(h) == Quote(h) \/ StartSign(h) \/ FinishSign(h)

WatcherStep(c) ==
  \/ Connect(c) \/ SeeBlock(c) \/ StartDrain(c) \/ FinishDrain(c)
  \/ \E e \in Events : HandleNext(c, e) \/ SkipNext(c, e)

RelayStep(h) == RelayPoll(h) \/ RelayClaim(h) \/ RecordClaimed(h)

Next ==
  \/ \E h \in Fills : ChainStep(h) \/ ClientStep(h) \/ RelayStep(h)
  \/ \E c \in Chains : EmptyBlock(c) \/ WatcherStep(c)
  \/ Crash

Spec == Init /\ [][Next]_vars

(* The backend's loops and timers run: each watcher connects, sees blocks  *)
(* and drains, the relayer polls.  Nothing is assumed of swapper, filler or*)
(* time.                                                                   *)
Fairness ==
  /\ \A c \in Chains :
       /\ WF_vars(Connect(c)) /\ WF_vars(SeeBlock(c))
       /\ WF_vars(StartDrain(c)) /\ WF_vars(FinishDrain(c))
       /\ WF_vars(\E e \in Events : HandleNext(c, e))
  /\ \A h \in Fills :
       WF_vars(RelayPoll(h)) /\ WF_vars(RelayClaim(h)) /\ WF_vars(RecordClaimed(h))

LiveSpec == Spec /\ Fairness

-----------------------------------------------------------------------------
(* Every variable is in the range of its column, field or counter.         *)
TypeOK ==
  /\ tip \in [Chains -> Nat] /\ at \in [Events -> Nat]
  /\ dst \in [Fills -> {"none", "open", "claimed", "refunded"}]
  /\ genuine \subseteq Fills /\ foreign \subseteq Fills /\ passed \in [Fills -> 0..2]
  /\ status \in [Fills -> Statuses] /\ known \subseteq Fills
  /\ checkpoint \in [Chains -> Nat]
  /\ signing \in [Fills -> Nat] /\ setBack \subseteq Fills
  /\ last \in [Chains -> Int] /\ seen \in [Chains -> Int] /\ floor \in [Chains -> Int]
  /\ draining \in [Chains -> BOOLEAN] /\ upTo \in [Chains -> Nat]
  /\ todo \in [Chains -> SUBSET Events]
  /\ checked \in [Fills -> Nat] /\ sent \subseteq Fills
  /\ crashes \in Nat /\ failures \in Nat

Signed   == {"authorized"} \cup Locked
Verified == {"dst_funded"} \cup Signed

(* The board never runs ahead of the chains, whatever is handled twice,    *)
(* late, out of order or not at all: a fill is shown funded, and can be    *)
(* signed, only if its escrow is there with the quoted terms, shown locked,*)
(* revealed or slashed only if that happened, to the clone of the filler   *)
(* the row names, and claimed only if the output went to the swapper.      *)
BoardNeverAhead ==
  \A h \in Fills :
    /\ status[h] \in Verified => Happened(h, "EscrowCreated") /\ h \in genuine
    /\ status[h] \in Locked => Happened(h, "Filled") /\ h \notin foreign
    /\ status[h] \in {"revealed", "claimed"} => Happened(h, "Withdrawn")
    /\ status[h] = "slashed" => Happened(h, "Cancelled")
    /\ status[h] = "claimed" => dst[h] = "claimed"

(* What the board shows once an event has been handled.  A row whose slot  *)
(* another caller took waits, signed, whatever happens to that clone.      *)
SourceReflected(h, kind) ==
  CASE kind = "Filled"    -> status[h] \in Locked
    [] kind = "Withdrawn" -> status[h] \in {"revealed", "claimed"}
    [] kind = "Cancelled" -> status[h] = "slashed"

Reflected(e) ==
  IF e[2] = "EscrowCreated"
    THEN e[1] \in genuine => status[e[1]] \in Verified
    ELSE IF e[1] \in foreign THEN status[e[1]] = "authorized" ELSE SourceReflected(e[1], e[2])

(* As long as no call has failed, a restart can skip everything up to the  *)
(* checkpoint: the board reflects every event in those blocks, in whatever *)
(* order the two watchers and their crashes came.  Except of a fill that a *)
(* late sign request set back after it was locked.                         *)
CheckpointCovers ==
  BACKFILL /\ failures = 0 =>
    \A e \in Events :
      at[e] \in 1..checkpoint[ChainOf(e)] => Reflected(e) \/ e[1] \in setBack

Diagram ==
  { <<"none", "quoted">>, <<"quoted", "dst_funded">>, <<"dst_funded", "authorized">>,
    <<"authorized", "src_locked">>, <<"src_locked", "revealed">>,
    <<"src_locked", "slashed">>, <<"revealed", "claimed">> }

(* A fill's status takes the steps of the state machine drawn at the head  *)
(* of crosschainService.ts: handling a log again, or late, never sets it   *)
(* back.  Only a sign request that was checked earlier does, whatever the  *)
(* status has become; a fill set back so can also be slashed without       *)
(* being locked again.                                                     *)
LateSignature(h) == signing'[h] < signing[h] /\ status[h] \in Locked /\ status'[h] = "authorized"
SlashedSetBack(h) == h \in setBack /\ status[h] = "authorized" /\ status'[h] = "slashed"

StatusFollowsDiagram ==
  [][\A h \in Fills :
       status'[h] # status[h] =>
         <<status[h], status'[h]>> \in Diagram \/ LateSignature(h) \/ SlashedSetBack(h)]_vars

(* A secret revealed on the source chain reaches the destination: whatever *)
(* crashes in between, and though nobody else claims, the escrow is        *)
(* claimed unless T2 passes first, or a call fails: a log whose handler    *)
(* threw is not read again after a restart.  Not if another caller took    *)
(* the slot, whose clone the board does not know, and not if the fill was  *)
(* set back.                                                               *)
EverySecretRelayed ==
  \A h \in Fills :
    Happened(h, "Withdrawn") ~>
      dst[h] # "open" \/ passed[h] = 2 \/ failures > 0 \/ h \in foreign \/ h \in setBack

(* The board catches up with every event, also with those that came while  *)
(* the backend was down, unless a call fails or the fill is set back.      *)
BoardCatchesUp ==
  \A e \in Events : at[e] # 0 ~> (Reflected(e) \/ failures > 0 \/ e[1] \in setBack)

-----------------------------------------------------------------------------
(* A fill's events happen in the order its escrows allow.                  *)
EventOrder ==
  /\ \A e \in Events : at[e] <= tip[ChainOf(e)]
  /\ \A h \in Fills :
       /\ dst[h] = "none" <=> ~Happened(h, "EscrowCreated")
       /\ Happened(h, "EscrowCreated") => status[h] # "none"
       /\ Happened(h, "Filled") => status[h] \in Signed
       /\ Happened(h, "Withdrawn") => at[<<h, "Filled">>] \in 1..(at[<<h, "Withdrawn">>] - 1)
       /\ Happened(h, "Cancelled") => at[<<h, "Filled">>] \in 1..(at[<<h, "Cancelled">>] - 1)
       /\ ~(Happened(h, "Withdrawn") /\ Happened(h, "Cancelled"))

(* The row knows only clones that were filled, by its own filler, a sign   *)
(* request was started on a funded fill, and a relayed claim is in.        *)
RowsConsistent ==
  \A h \in Fills :
    /\ h \in known => Happened(h, "Filled") /\ h \notin foreign
    /\ h \in foreign => Happened(h, "Filled")
    /\ signing[h] > 0 => status[h] \in Verified
    /\ h \in sent => dst[h] = "claimed"
    /\ checked[h] > 0 => Happened(h, "EscrowCreated")

(* The row of a fill never set back knows its clone exactly as long as it  *)
(* is locked.                                                              *)
KnownIfLocked ==
  \A h \in Fills : h \in setBack \/ (h \in known <=> status[h] \in Locked)

(* A watcher reads blocks there are, and logs of its own chain.            *)
WatcherConsistent ==
  \A c \in Chains :
    /\ checkpoint[c] <= tip[c] /\ last[c] \in -1..tip[c] /\ seen[c] \in -1..tip[c]
    /\ floor[c] <= last[c]
    /\ draining[c] => last[c] \in 0..upTo[c] /\ upTo[c] <= tip[c]
    /\ \A e \in todo[c] : ChainOf(e) = c /\ at[e] \in 1..upTo[c]

(* Each event a watcher has gone past, of a fill never set back, is on the *)
(* board or still to do.                                                   *)
WatcherCovers ==
  BACKFILL /\ failures = 0 =>
    \A e \in Events :
      \/ e[1] \in setBack
      \/ /\ at[e] \in 1..last[ChainOf(e)] => Reflected(e)
         /\ draining[ChainOf(e)] /\ at[e] \in 1..upTo[ChainOf(e)] =>
              Reflected(e) \/ e \in todo[ChainOf(e)]

(* The inductive invariant behind all of this.                             *)
IInv ==
  /\ TypeOK
  /\ BoardNeverAhead
  /\ EventOrder
  /\ RowsConsistent
  /\ WatcherConsistent
  /\ KnownIfLocked
  /\ WatcherCovers
  /\ CheckpointCovers
=============================================================================
