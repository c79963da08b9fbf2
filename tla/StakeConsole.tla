----------------------------- MODULE StakeConsole -----------------------------
(***************************************************************************)
(* What PARAM_ADMIN and GUARDIAN see and type, around StakeGovernance: the *)
(* editor and the history of frontend/src/pages/StakeConfig.tsx, the dry   *)
(* run of backend/src/routes/stakeConfig.ts, and the indexer behind the    *)
(* history, backend/src/indexer/stakeConfigIndexer.ts.                     *)
(*                                                                         *)
(* The three share nothing but the contract, so a run looks at one of them *)
(* (its scene) or at the contract alone.  A timestamp is a block, which    *)
(* may hold several transactions; it is announced once it is over.  Typed  *)
(* numbers are whole and not negative, blank fields are Blank; the page's  *)
(* conversion between ETH and wei is exact and left out.                   *)
(***************************************************************************)
EXTENDS StakeGovernance, SequencesExt

CONSTANTS
  Watched,         \* what is submitted while the indexer is looked at
  MaxSceneTime,    \* bound: the last timestamp of the other scenes
  Polls,           \* bound: how many block callbacks may overlap
  MaxEvents,       \* bound
  MaxFaults,       \* bound: crashes, and calls of the indexer that throw
  Typed,           \* what may be typed into a field
  MaxEdits         \* bound

Blank == -1

ASSUME ConsoleAssumption ==
  /\ Watched \subseteq StakeConfig
  /\ MIN_COLLATERAL_RATE \in Nat /\ MAX_COLLATERAL_RATE \in Nat
  /\ MAX_BUCKETS \in 0..16                 \* the page has a 16 of its own,
  /\ MIN_WORST_CASE_KAPPA_BPS >= 1000      \* the dry run a 1000
  /\ MaxSceneTime \in Nat /\ MaxEvents \in Nat /\ MaxFaults \in Nat /\ MaxEdits \in Nat
  /\ Typed \subseteq Nat \cup {Blank}

VARIABLES
  scene,       \* "contract", "history" or "editor"
  log,         \* the events of the configuration, oldest first
  rows,        \* stake_config_history
  checkpoint,  \* indexer_state.last_block
  up,          \* the backend is alive
  announced,   \* the last block the provider announced to it
  lastBlock,   \* the indexer's counter
  poll,        \* the block callbacks under way
  faults,      \* bound
  lost,        \* history: the events whose INSERT threw
  form,        \* what stands in the editor
  consts,      \* the page has the contract's constants
  edits        \* bound

indexVars   == <<rows, checkpoint, up, announced, lastBlock, poll, faults, lost>>
editorVars  == <<form, consts, edits>>
consoleVars == <<vars, scene, log, indexVars, editorVars>>

-----------------------------------------------------------------------------
(* The editor.  A form keeps the refund table as rows.  minCollateral,     *)
(* which neither the form nor the contract bounds, is left as it is.       *)
toForm(cfg) ==
  [cfg EXCEPT !.refundTable = [s \in 1..Len(cfg.collateralRate) |-> RefundRow(cfg, s)]]

(* What submit sends: rows joined, a blank read as zero.                   *)
Number(v) == IF v = Blank THEN 0 ELSE v
Numbers(s) == [i \in 1..Len(s) |-> Number(s[i])]

toTuple(fm) ==
  [fm EXCEPT !.sizeThresholds  = Numbers(@), !.collateralRate = Numbers(@),
             !.timeThresholds  = Numbers(@), !.timeMult       = Numbers(@),
             !.ratioThresholds = Numbers(@), !.refundTable    = Numbers(FlattenSeq(@))]

Lists == {"sizeThresholds", "collateralRate", "timeThresholds", "timeMult", "ratioThresholds"}

(* worstCaseKappaForm, of a table without blanks.                          *)
LastNotWhole(row) == Max({k \in 1..(Len(row) - 1) : row[k] < BPS} \cup {0})

worstCaseKappaForm(fm) ==
  LET Edge(s)  == fm.ratioThresholds[LastNotWhole(fm.refundTable[s])]
      Kappa(s, t) ==
        mulDiv(mulDiv(fm.collateralRate[s], fm.timeMult[t], BPS),
               BPS - fm.refundTable[s][LastNotWhole(fm.refundTable[s])], Edge(s))
      S == 1..Len(fm.collateralRate)
  IN  IF \E s \in S : LastNotWhole(fm.refundTable[s]) = 0 \/ Edge(s) = 0 THEN 0
      ELSE Min({Kappa(k[1], k[2]) : k \in S \X (1..Len(fm.timeMult))})

HasBlank(fm) ==
  \/ \E key \in Lists : Blank \in Range(fm[key])
  \/ \E s \in DOMAIN fm.refundTable : Blank \in Range(fm.refundTable[s])

Aligned(fm) ==
  /\ Len(fm.sizeThresholds) = Len(fm.collateralRate) - 1
  /\ Len(fm.timeThresholds) = Len(fm.timeMult) - 1
  /\ Len(fm.refundTable) = Len(fm.collateralRate)
  /\ \A s \in DOMAIN fm.refundTable : Len(fm.refundTable[s]) = Len(fm.ratioThresholds) + 1

FormShape(fm) ==
  LET maxB == IF consts THEN MAX_BUCKETS ELSE 16
  IN  /\ Aligned(fm)
      /\ {Len(fm.collateralRate), Len(fm.timeMult), Len(fm.ratioThresholds) + 1} \subseteq 1..maxB

(* Fault: a row has to reach the whole stake, and may fall on the way.     *)
FormRow_LastOnly(row) == row[Len(row)] = BPS

FormRow(row) ==
  /\ \A r \in DOMAIN row : row[r] <= BPS /\ (r > 1 => row[r] >= row[r - 1])
  /\ row[Len(row)] = BPS

(* validateForm finds no error.  The bounds on the rates and the economic  *)
(* floor wait for the contract's constants.                                *)
validateForm(fm) ==
  /\ ~HasBlank(fm)
  /\ FormShape(fm)
  /\ Increasing(fm.sizeThresholds) /\ Increasing(fm.ratioThresholds)
  /\ Decreasing(fm.timeThresholds)
  /\ \A s \in DOMAIN fm.refundTable : FormRow(fm.refundTable[s])
  /\ consts =>
       /\ \A s \in DOMAIN fm.collateralRate :
            fm.collateralRate[s] \in MIN_COLLATERAL_RATE..MAX_COLLATERAL_RATE
       /\ worstCaseKappaForm(fm) >= MIN_WORST_CASE_KAPPA_BPS

Edit(fm) ==
  /\ scene = "editor" /\ edits < MaxEdits
  /\ edits' = edits + 1
  /\ form' = fm
  /\ UNCHANGED <<vars, scene, log, indexVars, consts>>

addSizeBucket ==
  Edit([form EXCEPT !.sizeThresholds = Append(@, Blank),
                    !.collateralRate = Append(@, Last(@)),
                    !.refundTable    = Append(@, Last(@))])

removeSizeBucket ==
  /\ Len(form.collateralRate) > 1
  /\ Edit([form EXCEPT !.sizeThresholds = Front(@), !.collateralRate = Front(@),
                       !.refundTable = Front(@)])

addTimeBucket ==
  Edit([form EXCEPT !.timeThresholds = Append(@, Blank), !.timeMult = Append(@, Last(@))])

removeTimeBucket ==
  /\ Len(form.timeMult) > 1
  /\ Edit([form EXCEPT !.timeThresholds = Front(@), !.timeMult = Front(@)])

addRatioBucket ==
  Edit([form EXCEPT !.ratioThresholds = Append(@, Blank),
                    !.refundTable = [s \in DOMAIN @ |-> Append(@[s], Last(@[s]))]])

removeRatioBucket ==
  /\ Len(form.ratioThresholds) > 0
  /\ Edit([form EXCEPT !.ratioThresholds = Front(@),
                       !.refundTable = [s \in DOMAIN @ |-> Front(@[s])]])

set1D(key, i, v) == Edit([form EXCEPT ![key][i] = v])
setCell(s, r, v) == Edit([form EXCEPT !.refundTable[s][r] = v])

Reset == Edit(toForm(config))

(* The constants arrive after the configuration the form is made from.     *)
LoadConsts ==
  /\ scene = "editor" /\ ~consts
  /\ consts' = TRUE
  /\ UNCHANGED <<vars, scene, log, indexVars, form, edits>>

(* The first layer of the dry run, the same computation over the flat      *)
(* table; its second layer calls the contract itself.                      *)
DryRunAccepts(cfg) ==
  /\ Len(cfg.refundTable) = Len(cfg.collateralRate) * NumRatioBuckets(cfg)
  /\ worstCaseKappaForm(toForm(cfg)) >= 1000

(* submit: only a form without errors.  The dry run comes first unless the *)
(* backend cannot be reached, so the contract has the last word.           *)
Submit ==
  /\ scene = "editor"
  /\ validateForm(form)
  /\ setStakeConfig(toTuple(form))
  /\ UNCHANGED <<scene, log, indexVars, editorVars>>

-----------------------------------------------------------------------------
(* The contract's transactions, with the event each emits: kind, block, and*)
(* the configuration it installs or that its call data hold.               *)
InScene == scene = "contract" \/ (scene = "history" /\ Len(log) < MaxEvents)

Record(kind, cfgs) ==
  /\ log' = IF scene = "history"
             THEN Append(log, [kind |-> kind, at |-> time, config |-> cfgs])
             ELSE log
  /\ UNCHANGED <<scene, indexVars, editorVars>>

Set(c) ==
  /\ InScene
  /\ scene = "history" => c \in Watched
  /\ setStakeConfig(c)
  /\ Record(IF pending' = pending THEN "applied" ELSE "pending_queued", {c})

Commit   == InScene /\ commitPending /\ Record("applied", {config'})
Veto     == InScene /\ cancelPendingConfig /\ Record("pending_cancelled", {})
RollBack == InScene /\ rollback /\ Record("rollback", {config'})

Pass ==
  /\ scene = "contract" \/ (scene = "history" /\ time < MaxSceneTime)
  /\ Tick
  /\ UNCHANGED <<scene, log, indexVars, editorVars>>

-----------------------------------------------------------------------------
(* The indexer.                                                            *)
IdlePoll == [pc |-> "idle", at |-> 0, todo |-> {}]

At(p, pc) == scene = "history" /\ up /\ poll[p].pc = pc

(* A callback for the next block asks for all that happened since the      *)
(* counter; what it gets is fixed by the two blocks.                       *)
OnBlock(p) ==
  /\ At(p, "idle")
  /\ announced < time - 1
  /\ announced' = announced + 1
  /\ poll' = IF announced + 1 <= lastBlock THEN poll
             ELSE [poll EXCEPT ![p] =
                     [pc |-> "rows", at |-> announced + 1,
                      todo |-> {i \in DOMAIN log : log[i].at \in (lastBlock + 1)..(announced + 1)}]]
  /\ UNCHANGED <<vars, scene, log, rows, checkpoint, up, lastBlock, faults, lost, editorVars>>

(* The four kinds are handled one after the other, each in order.          *)
Rank == [applied |-> 1, pending_queued |-> 2, pending_cancelled |-> 3, rollback |-> 4]

Before(i, j) ==
  \/ Rank[log[i].kind] < Rank[log[j].kind]
  \/ log[i].kind = log[j].kind /\ i <= j

FirstOf(todo) == CHOOSE i \in todo : \A j \in todo : Before(i, j)

Installs(i) == log[i].kind \in {"applied", "rollback"}

(* What was live at the end of block b: {} if nothing was installed by then.*)
LiveAfter(b) ==
  LET installed == {i \in DOMAIN log : Installs(i) /\ log[i].at <= b}
  IN  IF installed = {} THEN {} ELSE log[Max(installed)].config

(* Fault: the configuration is read as it is when the event is handled.    *)
SnapshotOf_Latest(i) == IF Installs(i) THEN {config} ELSE log[i].config

(* An installed configuration is read from the chain as of the event's     *)
(* block, a queued one from the call data of its transaction.              *)
SnapshotOf(i) == IF Installs(i) THEN LiveAfter(log[i].at) ELSE log[i].config

(* A row is keyed by its event, and stays as it was first written.         *)
Insert(i, snapshot) ==
  rows' = IF \E r \in rows : r.id = i THEN rows
          ELSE rows \cup {[id |-> i, snapshot |-> snapshot]}

Handled(p, i) == poll' = [poll EXCEPT ![p].todo = @ \ {i}]

InsertRow(p) ==
  LET i == FirstOf(poll[p].todo)
  IN  /\ At(p, "rows") /\ poll[p].todo # {}
      /\ Insert(i, SnapshotOf(i))
      /\ Handled(p, i)
      /\ UNCHANGED <<vars, scene, log, checkpoint, up, announced, lastBlock, faults, lost,
                     editorVars>>

Fails == faults < MaxFaults /\ faults' = faults + 1

(* Its transaction could not be had: the row is written without a snapshot.*)
InsertBare(p) ==
  LET i == FirstOf(poll[p].todo)
  IN  /\ At(p, "rows") /\ poll[p].todo # {}
      /\ log[i].kind = "pending_queued"
      /\ Insert(i, {})
      /\ Handled(p, i)
      /\ Fails
      /\ UNCHANGED <<vars, scene, log, checkpoint, up, announced, lastBlock, lost, editorVars>>

(* insertHistoryRow swallows what its statement throws.                    *)
InsertFails(p) ==
  LET i == FirstOf(poll[p].todo)
  IN  /\ At(p, "rows") /\ poll[p].todo # {}
      /\ lost' = lost \cup {i}
      /\ Handled(p, i)
      /\ Fails
      /\ UNCHANGED <<vars, scene, log, rows, checkpoint, up, announced, lastBlock, editorVars>>

(* A request to the chain or the write of the checkpoint throws.           *)
PollFails(p) ==
  /\ At(p, "rows") \/ At(p, "save")
  /\ poll' = [poll EXCEPT ![p] = IdlePoll]
  /\ Fails
  /\ UNCHANGED <<vars, scene, log, rows, checkpoint, up, announced, lastBlock, lost, editorVars>>

(* Fault: the counter moves before the rows are written.                   *)
FinishRows_Early(p) ==
  /\ At(p, "rows")
  /\ lastBlock' = poll[p].at
  /\ poll' = [poll EXCEPT ![p].pc = "save"]
  /\ UNCHANGED <<vars, scene, log, rows, checkpoint, up, announced, faults, lost, editorVars>>

FinishRows(p) ==
  /\ At(p, "rows") /\ poll[p].todo = {}
  /\ lastBlock' = poll[p].at
  /\ poll' = [poll EXCEPT ![p].pc = "save"]
  /\ UNCHANGED <<vars, scene, log, rows, checkpoint, up, announced, faults, lost, editorVars>>

SaveCheckpoint(p) ==
  /\ At(p, "save")
  /\ checkpoint' = poll[p].at
  /\ poll' = [poll EXCEPT ![p] = IdlePoll]
  /\ UNCHANGED <<vars, scene, log, rows, up, announced, lastBlock, faults, lost, editorVars>>

Crash ==
  /\ scene = "history" /\ up
  /\ up' = FALSE
  /\ poll' = [p \in Polls |-> IdlePoll]
  /\ Fails
  /\ UNCHANGED <<vars, scene, log, rows, checkpoint, announced, lastBlock, lost, editorVars>>

(* The counter starts from the checkpoint; the first block announced is    *)
(* the current one.                                                        *)
Restart ==
  /\ ~up
  /\ up' = TRUE
  /\ lastBlock' = checkpoint
  /\ announced' = Max({0, time - 2})
  /\ UNCHANGED <<vars, scene, log, rows, checkpoint, poll, faults, lost, editorVars>>

-----------------------------------------------------------------------------
ConsoleInit ==
  /\ Init
  /\ scene \in {"contract", "history", "editor"}
  /\ log = << >> /\ rows = {} /\ checkpoint = 0
  /\ up = TRUE /\ announced = 0 /\ lastBlock = 0
  /\ poll = [p \in Polls |-> IdlePoll]
  /\ faults = 0 /\ lost = {}
  /\ form = toForm(config) /\ consts = FALSE /\ edits = 0

ContractNext == (\E c \in Submissions : Set(c)) \/ Commit \/ Veto \/ RollBack \/ Pass

IndexerNext ==
  \/ \E p \in Polls :
       \/ OnBlock(p) \/ InsertRow(p) \/ InsertBare(p) \/ InsertFails(p)
       \/ PollFails(p) \/ FinishRows(p) \/ SaveCheckpoint(p)
  \/ Crash \/ Restart

EditorNext ==
  \/ addSizeBucket \/ removeSizeBucket \/ addTimeBucket \/ removeTimeBucket
  \/ addRatioBucket \/ removeRatioBucket
  \/ \E key \in Lists, v \in Typed : \E i \in DOMAIN form[key] : set1D(key, i, v)
  \/ \E v \in Typed : \E s \in DOMAIN form.refundTable :
       \E r \in DOMAIN form.refundTable[s] : setCell(s, r, v)
  \/ Reset \/ LoadConsts \/ Submit

ConsoleNext == ContractNext \/ IndexerNext \/ EditorNext

ConsoleSpec == ConsoleInit /\ [][ConsoleNext]_consoleVars

-----------------------------------------------------------------------------
(* The form mirrors the contract's validation: it refuses nothing the      *)
(* contract would take, and once it has the constants it lets nothing      *)
(* through that the contract is bound to revert, whatever was added,       *)
(* removed and typed.  The dry run refuses nothing sound either.           *)
FormMirrorsContract ==
  LET cfg == toTuple(form)
  IN  scene = "editor" =>
        /\ ~HasBlank(form) /\ Sound(cfg) => validateForm(form) /\ DryRunAccepts(cfg)
        /\ consts /\ validateForm(form) => Sound(cfg)

(* The inductive invariant behind it: what is live is sound, and whatever  *)
(* stands in its fields, the form keeps its shape.                         *)
Cell == Nat \cup {Blank}

Forms ==
  [ sizeThresholds  : Seq(Cell), collateralRate : Seq(Cell),
    timeThresholds  : Seq(Cell), timeMult       : Seq(Cell),
    ratioThresholds : Seq(Cell), refundTable    : Seq(Seq(Cell)),
    minCollateral   : Nat ]

EditorInv ==
  scene = "editor" =>
    /\ config \in StakeConfig /\ Sound(config)
    /\ form \in Forms /\ Aligned(form)

(* findPrevSnapshot, for the rows of other blocks: the list comes newest   *)
(* block first, and rows of one block in no particular order.              *)
(* Fault: any row with a snapshot will do.                                 *)
findPrevSnapshot_AnyRow(r) ==
  LET older == {q \in rows : q.snapshot # {} /\ log[q.id].at < log[r.id].at}
  IN  IF older = {} THEN {}
      ELSE (CHOOSE q \in older : \A o \in older : log[o.id].at <= log[q.id].at).snapshot

findPrevSnapshot(r) ==
  LET older == {q \in rows : /\ Installs(q.id) /\ q.snapshot # {}
                             /\ log[q.id].at < log[r.id].at}
  IN  IF older = {} THEN {}
      ELSE (CHOOSE q \in older : \A o \in older : log[o.id].at <= log[q.id].at).snapshot

(* What the history page shows is what happened: a row has the snapshot    *)
(* that was live after its block, or that was queued, and the changes it   *)
(* lists are against the configuration that was live before its block.  The*)
(* latter is meant for blocks the checkpoint has passed, unless a row could*)
(* not be written.                                                         *)
HistoryMatchesChain ==
  \A r \in rows :
    r.snapshot # {} =>
      /\ r.snapshot = IF Installs(r.id) THEN LiveAfter(log[r.id].at) ELSE log[r.id].config
      /\ log[r.id].at <= checkpoint /\ lost = {} =>
           findPrevSnapshot(r) = LiveAfter(log[r.id].at - 1)

-----------------------------------------------------------------------------
(* The inductive invariant behind it.  A callback reads blocks that are    *)
(* over, so what was live after them stays what it was.                    *)
Entry  == [kind : DOMAIN Rank, at : Nat, config : SUBSET StakeConfig]
Within == [pc : {"idle", "rows", "save"}, at : Nat, todo : SUBSET Nat]

HistoryTypes ==
  /\ scene # "editor" => IInv
  /\ time \in Nat \ {0} /\ announced \in Nat /\ announced < time
  /\ log \in Seq(Entry)
  /\ \A i \in DOMAIN log : log[i].at <= time /\ (Installs(i) => log[i].config # {})
  /\ lastBlock \in Nat /\ checkpoint \in Nat
  /\ poll \in [Polls -> Within]

(* A row shows what was installed or queued, of a block that is over.      *)
RowsTrue ==
  \A r \in rows :
    /\ r.id \in DOMAIN log /\ log[r.id].at < time
    /\ r.snapshot # {} => r.snapshot = SnapshotOf(r.id)
    /\ Installs(r.id) => r.snapshot # {}

HasRow(i) == i \in lost \/ \E r \in rows : r.id = i

Passed(b) == b < time /\ \A i \in DOMAIN log : log[i].at <= b => HasRow(i)

(* Up to its block, what a callback does not hold any more has its row.    *)
PollFits(p) ==
  /\ p.pc # "idle" => p.at < time
  /\ p.pc = "rows" =>
       /\ \A i \in p.todo : i \in DOMAIN log /\ log[i].at <= p.at
       /\ \A i \in DOMAIN log : log[i].at <= p.at => i \in p.todo \/ HasRow(i)
  /\ p.pc = "save" => Passed(p.at)

HistoryInv ==
  /\ HistoryTypes /\ RowsTrue
  /\ Passed(lastBlock) /\ Passed(checkpoint)
  /\ \A p \in Polls : PollFits(poll[p])
=============================================================================
