---------------------------- MODULE CrossChainFiller ----------------------------
(***************************************************************************)
(* The filler's side of CrossChainSwap in the detail of its program:       *)
(* filler/*/src/fill/crossChainFill.ts and secretStore.ts, the same in both*)
(* bots.  A process runs crossChainFill or crossChainResume step by step,  *)
(* with an await between any two steps, and may die at each; commands      *)
(* typed at the prompt and one-shot commands of the shell run side by side *)
(* and share the file of secrets.  The wall clock is srcTime.              *)
(*                                                                         *)
(* The board (the backend's fills table) enters as what the two waits of   *)
(* driveToCompletion learn from it: that the destination was verified and  *)
(* that the swapper signed.  --force is not used.                          *)
(***************************************************************************)
EXTENDS CrossChainSwap

CONSTANTS
  Processes,    \* bound: the commands that may be under way at a time
  MaxTransfers  \* bound: how often one fill is funded

ASSUME FillerAssumption == MaxTransfers \in Nat

VARIABLES
  proc,         \* the commands under way
  stored,       \* the fills in .cc-secrets.json
  damaged,      \* history: a write of the file dropped other fills' secrets
  transferred   \* how often the output was sent to a fill's escrow address

storeVars  == <<stored, damaged>>
fillerVars == <<proc, storeVars, transferred>>
fillerSystemVars == <<vars, fillerVars>>

NoFill == "none"

(* A command: the fill it drives, the file as it read it, and the T1 of    *)
(* the fill as fetched from the board.                                     *)
Process ==
  [pc : {"idle", "load", "write", "exists", "transfer", "deploy", "wait",
         "isFilled", "fillSlot", "reveal"},
   fill : Fills \cup {NoFill}, store : SUBSET Fills, t1 : Nat]

IdleProcess == [pc |-> "idle", fill |-> NoFill, store |-> {}, t1 |-> 0]

FillerInit ==
  /\ Init
  /\ proc = [p \in Processes |-> IdleProcess]
  /\ stored = {}
  /\ damaged = FALSE
  /\ transferred = [h \in Fills |-> 0]

-----------------------------------------------------------------------------
At(p, pc)    == proc[p].pc = pc
FillOf(p)    == proc[p].fill
Goto(p, pc)  == proc' = [proc EXCEPT ![p].pc = pc]

(* crossChainFill: the quote is posted, the secret is in memory only.      *)
StartFill(p, h) ==
  /\ At(p, "idle")
  /\ Quote(h)
  /\ proc' = [proc EXCEPT ![p].pc = "load", ![p].fill = h]
  /\ UNCHANGED <<storeVars, transferred>>

(* crossChainResume: of a fill whose secret the file has.  A fill the board*)
(* shows as claimed is left alone, which changes nothing.                  *)
StartResume(p, h) ==
  /\ At(p, "idle")
  /\ h \in stored
  /\ proc' = [proc EXCEPT ![p].pc = "exists", ![p].fill = h]
  /\ UNCHANGED <<vars, storeVars, transferred>>

(* saveSecret reads the whole file and writes it back.  Nothing happens    *)
(* between the two in one process; another may write in between.           *)
LoadStore(p) ==
  /\ At(p, "load")
  /\ proc' = [proc EXCEPT ![p].pc = "write", ![p].store = stored]
  /\ UNCHANGED <<vars, storeVars, transferred>>

(* Fault: the file is replaced by the one new entry.                       *)
SaveSecret_Alone(p) ==
  /\ At(p, "write")
  /\ stored' = {FillOf(p)}
  /\ UNCHANGED damaged
  /\ proc' = [proc EXCEPT ![p].pc = "exists", ![p].store = {}]
  /\ UNCHANGED <<vars, transferred>>

(* Fault: the entry is made under an id the response did not have.         *)
SaveSecret_NoId(p) ==
  /\ At(p, "write")
  /\ stored' = proc[p].store \cup {NoFill}
  /\ UNCHANGED damaged
  /\ proc' = [proc EXCEPT ![p].pc = "exists", ![p].store = {}]
  /\ UNCHANGED <<vars, transferred>>

SaveSecret(p) ==
  /\ At(p, "write")
  /\ stored' = proc[p].store \cup {FillOf(p)}
  /\ damaged' = (damaged \/ ~(stored \subseteq stored'))
  /\ proc' = [proc EXCEPT ![p].pc = "exists", ![p].store = {}]
  /\ UNCHANGED <<vars, transferred>>

(* A process that dies while it writes leaves a file that does not parse,  *)
(* which load takes for an empty one.                                      *)
TearStore(p) ==
  /\ At(p, "write")
  /\ stored' = {}
  /\ damaged' = (damaged \/ stored # {})
  /\ proc' = [proc EXCEPT ![p] = IdleProcess]
  /\ UNCHANGED <<vars, transferred>>

-----------------------------------------------------------------------------
(* ensureDstEscrowDeployed: only code at the escrow's address, not the     *)
(* output that may already be there, ends it early.                        *)
DstExists(p) ==
  /\ At(p, "exists")
  /\ Goto(p, IF dst[FillOf(p)].state # "none" THEN "wait" ELSE "transfer")
  /\ UNCHANGED <<vars, storeVars, transferred>>

Transfer(p) ==
  /\ At(p, "transfer")
  /\ transferred[FillOf(p)] < MaxTransfers
  /\ transferred' = [transferred EXCEPT ![FillOf(p)] = @ + 1]
  /\ Goto(p, "deploy")
  /\ UNCHANGED <<vars, storeVars>>

(* The factory refuses an escrow that does not hold its output yet.        *)
Deploy(p) ==
  /\ At(p, "deploy")
  /\ transferred[FillOf(p)] > 0
  /\ FundDst(FillOf(p))
  /\ Goto(p, "wait")
  /\ UNCHANGED <<storeVars, transferred>>

(* Fault: the T1 kept is the one this filler once quoted.                  *)
WaitAuthorized_QuotedT1(p) ==
  /\ At(p, "wait")
  /\ auth[FillOf(p)] # {}
  /\ proc' = [proc EXCEPT ![p].pc = "isFilled", ![p].t1 = quote[FillOf(p)].t1]
  /\ UNCHANGED <<vars, storeVars, transferred>>

(* The two waits: the escrow was verified, then the fill was signed.  The  *)
(* T1 to keep is one the swapper signed, the last on record.               *)
WaitAuthorized(p) ==
  /\ At(p, "wait")
  /\ \E terms \in auth[FillOf(p)] :
       proc' = [proc EXCEPT ![p].pc = "isFilled", ![p].t1 = terms.t1]
  /\ UNCHANGED <<vars, storeVars, transferred>>

(* assertTimeMargin.                                                       *)
TimeMargin(p) == srcTime + DEFAULT_MIN_MARGIN_SECONDS <= proc[p].t1

(* Before the source escrow: the margin, and whether it is there already,  *)
(* be it this filler's or another's.                                       *)
IsFilled(p) ==
  /\ At(p, "isFilled")
  /\ TimeMargin(p)
  /\ Goto(p, IF src[FillOf(p)].state # "none" THEN "reveal" ELSE "fillSlot")
  /\ UNCHANGED <<vars, storeVars, transferred>>

FillSlotMined(p) ==
  /\ At(p, "fillSlot")
  /\ \E terms \in auth[FillOf(p)] :
       terms.t1 = proc[p].t1 /\ FillSlotOn(FillOf(p), "filler", terms)
  /\ Goto(p, "reveal")
  /\ UNCHANGED <<storeVars, transferred>>

(* The margin again, and withdraw is sent: nothing is asked of the source  *)
(* escrow itself.  A second command may send what a first one has sent.    *)
RevealSecret(p) ==
  LET h == FillOf(p)
  IN  /\ At(p, "reveal")
      /\ TimeMargin(p)
      /\ revealed' = revealed \cup {h}
      /\ sentAt' = [sentAt EXCEPT ![h] = IF h \in revealed THEN @ ELSE srcTime]
      /\ proc' = [proc EXCEPT ![p] = IdleProcess]
      /\ UNCHANGED <<srcTime, dstTime, srcVars, dst, quote, auth, takenAt,
                     storeVars, transferred>>

(* The command ends early: the process dies, a wait times out, a margin is *)
(* gone, a transaction or a request fails.  A transaction that is mined    *)
(* after its command died is the command's own step, taken late, and this. *)
Abort(p) ==
  /\ ~At(p, "idle")
  /\ proc' = [proc EXCEPT ![p] = IdleProcess]
  /\ UNCHANGED <<vars, storeVars, transferred>>

-----------------------------------------------------------------------------
ProcessNext(p) ==
  \/ \E h \in Fills : StartFill(p, h) \/ StartResume(p, h)
  \/ LoadStore(p) \/ SaveSecret(p) \/ TearStore(p)
  \/ DstExists(p) \/ Transfer(p) \/ Deploy(p)
  \/ WaitAuthorized(p) \/ IsFilled(p) \/ FillSlotMined(p) \/ RevealSecret(p)
  \/ Abort(p)

(* The clocks, the swapper, the relayer, other callers, and what the chains*)
(* include.                                                                *)
OthersNext ==
  \/ TickSrc
  \/ TickDst
  \/ \E h \in Fills :
       \/ SignFill(h) \/ FillSlot(h, "other") \/ Withdraw(h) \/ Claim(h) \/ Cancel(h) \/ Refund(h)
       \/ \E role \in Roles : ClaimEth(h, role)

FillerNext ==
  \/ \E p \in Processes : ProcessNext(p)
  \/ OthersNext /\ UNCHANGED fillerVars

FillerSpec == FillerInit /\ [][FillerNext]_fillerSystemVars

-----------------------------------------------------------------------------
FillerTypeOK ==
  /\ proc \in [Processes -> Process]
  /\ stored \subseteq Fills
  /\ damaged \in BOOLEAN
  /\ transferred \in [Fills -> 0..MaxTransfers]

(* However its commands die, resume or overlap, and although it never asks *)
(* whether the source escrow is open before it gives its secret away, the  *)
(* filler keeps to the swap protocol.                                      *)
FollowsSwap == Spec

(* No output is sent to an escrow whose secret could be lost: by the time  *)
(* it is funded, the secret is in the file, unless a write of the file     *)
(* itself dropped it.                                                      *)
SecretsSurvive ==
  \A h \in Fills : transferred[h] > 0 => h \in stored \/ damaged

(* crossChainFill.ts:172 calls the funding of the destination idempotent:  *)
(* however often a fill is resumed, its output is sent once.               *)
FundedOnce == \A h \in Fills : transferred[h] <= 1

-----------------------------------------------------------------------------
(* The inductive invariant behind FollowsSwap and SecretsSurvive, beside   *)
(* that of the swap itself: what a command knows of the fill it drives.    *)
Secured(h) == h \in stored \/ damaged

Driven(p) ==
  /\ FillOf(p) \in Fills
  /\ ~At(p, "load") /\ ~At(p, "write") => Secured(FillOf(p))
  /\ proc[p].pc \in {"isFilled", "fillSlot", "reveal"} =>
       \E terms \in auth[FillOf(p)] : proc[p].t1 = terms.t1
  /\ At(p, "reveal") => src[FillOf(p)].state # "none"

FillerInv ==
  /\ FillerTypeOK
  /\ SecretsSurvive
  /\ \A p \in Processes : At(p, "idle") \/ Driven(p)
=============================================================================
