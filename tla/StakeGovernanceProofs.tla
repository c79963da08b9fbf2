------------------------ MODULE StakeGovernanceProofs ------------------------
(***************************************************************************)
(* The safety properties of StakeGovernance and the history and the editor *)
(* of StakeConsole around it, for any cooldown and delay, any bounds and   *)
(* any set of submissions.  IInv is inductive over the contract, and       *)
(* together with a step it yields the action properties; HistoryInv is     *)
(* inductive over the indexer as well, whatever of it overlaps, throws or  *)
(* crashes; EditorInv over the editor, whatever is added and typed.        *)
(***************************************************************************)
EXTENDS StakeConsole, StakeScheduleProofs

LEMMA InitInv == Init => IInv
<1> SUFFICES ASSUME Init PROVE IInv
  OBVIOUS
<1>1. TypeOK
  BY GovernanceAssumption DEF Init, TypeOK
<1>2. \A c \in {config} \cup previousConfig \cup pending : Sound(c)
  BY GovernanceAssumption DEF Init
<1>3. PendingStaysMeasured /\ ClocksAgree
  BY DEF Init, PendingStaysMeasured, ClocksAgree
<1> QED BY <1>1, <1>2, <1>3 DEF IInv

(* A submission passes the cooldown and both checks.                       *)
LEMMA SubmitInv ==
  ASSUME IInv, NEW c \in Submissions, setStakeConfig(c)
  PROVE  IInv'
<1>0. c \in StakeConfig /\ CHANGE_COOLDOWN \in Nat /\ LOOSEN_DELAY \in Nat
  BY GovernanceAssumption
<1>1. Sound(c) /\ Guarded(config, c) /\ pending = {} /\ time' = time
  BY Zenon DEF setStakeConfig
<1>2. movedAt = 0 \/ time >= movedAt + CHANGE_COOLDOWN
  BY <1>0 DEF IInv, TypeOK, ClocksAgree, setStakeConfig
<1>3. CASE /\ queue(c)
           /\ UNCHANGED <<config, previousConfig, movedAt>>
  <2>1. TypeOK'
    BY <1>0, <1>1, <1>3 DEF IInv, TypeOK, queue
  <2>2. \A x \in {config'} \cup previousConfig' \cup pending' : Sound(x)
    BY <1>1, <1>3, Zenon DEF IInv, queue
  <2>3. PendingStaysMeasured'
    BY <1>1, <1>3, Zenon DEF PendingStaysMeasured, queue
  <2>4. ClocksAgree'
    BY <1>0, <1>1, <1>2, <1>3 DEF IInv, TypeOK, ClocksAgree, queue
  <2> QED BY <2>1, <2>2, <2>3, <2>4, Zenon DEF IInv, Sound
<1>4. CASE /\ _apply(c)
           /\ UNCHANGED <<pending, pendingEffective, queuedAt>>
  <2>1. TypeOK'
    BY <1>0, <1>1, <1>4 DEF IInv, TypeOK, _apply
  <2>2. \A x \in {config'} \cup previousConfig' \cup pending' : Sound(x)
    BY <1>1, <1>4, Zenon DEF IInv, _apply
  <2>3. PendingStaysMeasured'
    BY <1>1, <1>4, Zenon DEF PendingStaysMeasured
  <2>4. ClocksAgree'
    BY <1>0, <1>1, <1>4 DEF IInv, TypeOK, ClocksAgree, _apply
  <2> QED BY <2>1, <2>2, <2>3, <2>4, Zenon DEF IInv, Sound
<1> QED BY <1>3, <1>4, Zenon DEF setStakeConfig

LEMMA CommitInv ==
  ASSUME IInv, commitPending
  PROVE  IInv'
<1>0. CHANGE_COOLDOWN \in Nat /\ LOOSEN_DELAY \in Nat
  BY GovernanceAssumption
<1>1. PICK c \in pending : _apply(c)
  BY Zenon DEF commitPending
<1>2. pending' = {} /\ time' = time /\ pendingEffective' = pendingEffective /\ queuedAt' = queuedAt
  BY Zenon DEF commitPending
<1>3. TypeOK'
  BY <1>1, <1>2 DEF IInv, TypeOK, _apply
<1>4. \A x \in {config'} \cup previousConfig' \cup pending' : Sound(x)
  BY <1>1, <1>2, Zenon DEF IInv, _apply
<1>5. PendingStaysMeasured'
  BY <1>2, Zenon DEF PendingStaysMeasured
<1>6. ClocksAgree'
  BY <1>1, <1>2 DEF IInv, TypeOK, ClocksAgree, _apply
<1> QED BY <1>3, <1>4, <1>5, <1>6, Zenon DEF IInv, Sound

(* Vetoes and rollbacks leave nothing pending; a tick moves only the clock.*)
LEMMA GuardianInv ==
  ASSUME IInv, cancelPendingConfig \/ rollback
  PROVE  IInv'
<1>1. /\ pending' = {}
      /\ UNCHANGED <<time, previousConfig, pendingEffective, lastChange, queuedAt, movedAt>>
      /\ config' \in {config} \cup previousConfig
  BY Zenon DEF cancelPendingConfig, rollback
<1>2. TypeOK'
  BY <1>1 DEF IInv, TypeOK
<1>3. \A x \in {config'} \cup previousConfig' \cup pending' : Sound(x)
  BY <1>1, Zenon DEF IInv
<1>4. PendingStaysMeasured' /\ ClocksAgree'
  <2>1. PendingStaysMeasured'
    BY <1>1, Zenon DEF PendingStaysMeasured
  <2>2. ClocksAgree'
    BY <1>1 DEF IInv, ClocksAgree
  <2> QED BY <2>1, <2>2
<1> QED BY <1>2, <1>3, <1>4, Zenon DEF IInv, Sound

LEMMA TickInv ==
  ASSUME IInv, Tick
  PROVE  IInv'
<1>0. CHANGE_COOLDOWN \in Nat /\ LOOSEN_DELAY \in Nat
  BY GovernanceAssumption
<1>1. /\ time' = time + 1
      /\ UNCHANGED <<config, previousConfig, pending, pendingEffective, lastChange, queuedAt, movedAt>>
  BY Zenon DEF Tick
<1>2. TypeOK'
  BY <1>1 DEF IInv, TypeOK
<1>3. \A x \in {config'} \cup previousConfig' \cup pending' : Sound(x)
  BY <1>1, Zenon DEF IInv
<1>4. PendingStaysMeasured'
  BY <1>1, Zenon DEF IInv, PendingStaysMeasured, Guarded
<1>5. ClocksAgree'
  BY <1>0, <1>1 DEF IInv, TypeOK, ClocksAgree
<1> QED BY <1>2, <1>3, <1>4, <1>5, Zenon DEF IInv, Sound

LEMMA StutterInv ==
  ASSUME IInv, UNCHANGED vars
  PROVE  IInv'
<1>1. UNCHANGED <<time, config, previousConfig, pending, pendingEffective, lastChange,
                  queuedAt, movedAt>>
  BY DEF vars
<1>2. TypeOK' /\ ClocksAgree'
  BY <1>1 DEF IInv, TypeOK, ClocksAgree
<1>3. \A x \in {config'} \cup previousConfig' \cup pending' : Sound(x)
  BY <1>1, Zenon DEF IInv
<1>4. PendingStaysMeasured'
  BY <1>1, Zenon DEF IInv, PendingStaysMeasured, Guarded
<1> QED BY <1>2, <1>3, <1>4, Zenon DEF IInv, Sound

(* The inductive invariant holds in every reachable state.                 *)
THEOREM GovernanceInvariant == Spec => []IInv
<1>1. IInv /\ [Next]_vars => IInv'
  BY SubmitInv, CommitInv, GuardianInv, TickInv, StutterInv, Zenon DEF Next
<1> QED BY <1>1, InitInv, PTL DEF Spec

(* Whatever goes live has terms that settlement can use (it is checked     *)
(* before it is installed or queued, and stays checked).                   *)
THEOREM LiveSettles == Spec => []LiveConfigSettles
<1>1. IInv => LiveConfigSettles
  BY Zenon DEF IInv, LiveConfigSettles, Settles, Sound, validate
<1> QED BY <1>1, GovernanceInvariant, PTL

(* What is pending was measured against what is live.                      *)
THEOREM PendingMeasured == Spec => []PendingStaysMeasured
<1>1. IInv => PendingStaysMeasured
  BY DEF IInv
<1> QED BY <1>1, GovernanceInvariant, PTL

(* A loosening goes live only by a rollback or after its whole delay.      *)
LEMMA StepWaits ==
  ASSUME IInv, Next, config' # config, Loosening(config, config')
  PROVE  \/ config' \in previousConfig
         \/ config' \in pending /\ time >= queuedAt + LOOSEN_DELAY
<1>1. CASE \E c \in Submissions : setStakeConfig(c)
  BY <1>1, Zenon DEF setStakeConfig, _apply
<1>2. CASE commitPending
  <2>1. PICK c \in pending : config' = c
    BY <1>2, Zenon DEF commitPending, _apply
  <2>2. time >= pendingEffective /\ pendingEffective = queuedAt + LOOSEN_DELAY
    BY <1>2, <2>1 DEF commitPending, IInv, ClocksAgree
  <2> QED BY <2>1, <2>2
<1>3. CASE cancelPendingConfig \/ Tick
  BY <1>3, Zenon DEF cancelPendingConfig, Tick
<1>4. CASE rollback
  BY <1>4, Zenon DEF rollback
<1> QED BY <1>1, <1>2, <1>3, <1>4, Zenon DEF Next

THEOREM LooseningsWait == Spec => LooseningWaits
<1>1. IInv /\ [Next]_vars =>
        [config' # config /\ Loosening(config, config') =>
           \/ config' \in previousConfig
           \/ config' \in pending /\ time >= queuedAt + LOOSEN_DELAY]_vars
  BY StepWaits, Zenon
<1> QED BY <1>1, GovernanceInvariant, PTL DEF Spec, LooseningWaits

(* Submissions go live at least a cooldown apart.                          *)
LEMMA StepSpaced ==
  ASSUME IInv, Next, WentLive
  PROVE  movedAt = 0 \/ time >= movedAt + CHANGE_COOLDOWN
<1>0. CHANGE_COOLDOWN \in Nat /\ LOOSEN_DELAY \in Nat
  BY GovernanceAssumption
<1>1. CASE \E c \in Submissions : setStakeConfig(c)
  <2>1. lastChange = 0 \/ time >= lastChange + CHANGE_COOLDOWN
    BY <1>1, Zenon DEF setStakeConfig
  <2> QED BY <1>0, <2>1 DEF IInv, TypeOK, ClocksAgree
<1>2. CASE commitPending
  <2>1. pending # {} /\ time >= pendingEffective
    BY <1>2, Zenon DEF commitPending
  <2> QED BY <1>0, <2>1 DEF IInv, TypeOK, ClocksAgree
<1>3. CASE cancelPendingConfig \/ rollback \/ Tick
  BY <1>3, Zenon DEF cancelPendingConfig, rollback, Tick, WentLive
<1> QED BY <1>1, <1>2, <1>3, Zenon DEF Next

THEOREM LiveMovesAreSpaced == Spec => LiveMovesSpaced
<1>1. IInv /\ [Next]_vars =>
        [WentLive => movedAt = 0 \/ time >= movedAt + CHANGE_COOLDOWN]_vars
  BY StepSpaced, Zenon
<1> QED BY <1>1, GovernanceInvariant, PTL DEF Spec, LiveMovesSpaced

(* Under whatever is live, stopping short of a commitment costs at least   *)
(* the minimum price edge, at every fraction and not only at the edges.    *)
THEOREM AbandoningAlwaysCosts == Spec => []AbandoningCosts
<1>1. IInv => AbandoningCosts
  <2> SUFFICES ASSUME IInv,
                      NEW s \in 1..Len(config.collateralRate),
                      NEW t \in 1..Len(config.timeMult),
                      NEW fill \in Fractions,
                      RefundRow(config, s)[getFillRatioBucket(fill, BPS, config.ratioThresholds)] < BPS
               PROVE  mulDiv(config.collateralRate[s], config.timeMult[t], BPS)
                        * (BPS - RefundRow(config, s)[getFillRatioBucket(fill, BPS, config.ratioThresholds)])
                        >= MIN_WORST_CASE_KAPPA_BPS * fill
    BY Zenon DEF AbandoningCosts
  <2>1. config \in StakeConfig /\ Sound(config)
    BY Zenon DEF IInv, TypeOK
  <2>2. /\ WellShaped(config) /\ WellOrdered(config) /\ RefundsWellFormed(config)
        /\ worstCaseKappaBps(config) >= MIN_WORST_CASE_KAPPA_BPS
    BY <2>1, Zenon DEF Sound, validate
  <2>3. fill \in 0..(BPS - 1) /\ MIN_WORST_CASE_KAPPA_BPS \in Nat
    BY GovernanceAssumption
  <2> QED BY <2>1, <2>2, <2>3, AbandoningIsDeterred, Zenon
<1> QED BY <1>1, GovernanceInvariant, PTL
-----------------------------------------------------------------------------
(* The history of configurations, around the same contract: HistoryInv is  *)
(* preserved by every step of StakeConsole.                                *)

(* What the log may do in a step: events are appended, of the block that   *)
(* is under way.                                                           *)
Grown ==
  /\ log' \in Seq(Entry) /\ time' \in Nat /\ time <= time'
  /\ DOMAIN log \subseteq DOMAIN log'
  /\ \A i \in DOMAIN log : log'[i] = log[i]
  /\ \A i \in DOMAIN log' : i \in DOMAIN log \/ log'[i].at = time

LEMMA EventIn ==
  ASSUME log \in Seq(Entry), NEW i \in DOMAIN log
  PROVE  /\ log[i] \in Entry
         /\ log[i].at \in Nat /\ log[i].kind \in DOMAIN Rank /\ log[i].config \subseteq StakeConfig
         /\ i \in Nat /\ i \in 1..Len(log) /\ Len(log) \in Nat
<1>1. log[i] \in Entry /\ i \in 1..Len(log) /\ Len(log) \in Nat
  <2> DEFINE T == Entry
  <2>1. log \in Seq(T)
    OBVIOUS
  <2> HIDE DEF T
  <2>2. log[i] \in T /\ i \in 1..Len(log) /\ Len(log) \in Nat
    BY <2>1
  <2> QED BY <2>2 DEF T
<1>2. PICK e \in Entry : e = log[i]
  BY <1>1
<1>3. e.at \in Nat /\ e.kind \in DOMAIN Rank /\ e.config \subseteq StakeConfig
  BY DEF Entry
<1> QED BY <1>1, <1>2, <1>3

(* What was live is what the last installing event by then installed.      *)
LEMMA LiveIs ==
  ASSUME log \in Seq(Entry), NEW b, NEW i \in DOMAIN log, Installs(i), log[i].at <= b
  PROVE  \E m \in DOMAIN log : /\ Installs(m) /\ log[m].at <= b
                               /\ LiveAfter(b) = log[m].config
<1> DEFINE S == {k \in DOMAIN log : Installs(k) /\ log[k].at <= b}
<1>1. i \in S /\ S \subseteq 1..Len(log) /\ Len(log) \in Nat
  BY EventIn
<1>2. \E m \in S : \A j \in S : j <= m
  <2> HIDE DEF S
  <2> QED BY <1>1, GreatestExists, Zenon
<1>3. Max(S) \in S
  <2>1. \E m \in S : \A j \in S : m >= j
    BY <1>1, <1>2
  <2> HIDE DEF S
  <2> QED BY <2>1, Zenon DEF Max
<1>4. LiveAfter(b) = log[Max(S)].config
  BY <1>1, Zenon DEF LiveAfter
<1> QED BY <1>3, <1>4

LEMMA LiveSame ==
  ASSUME NEW b, NEW c,
         \A i \in DOMAIN log : Installs(i) => (log[i].at <= b <=> log[i].at <= c)
  PROVE  LiveAfter(b) = LiveAfter(c)
<1>1. {i \in DOMAIN log : Installs(i) /\ log[i].at <= b}
        = {i \in DOMAIN log : Installs(i) /\ log[i].at <= c}
  OBVIOUS
<1> QED BY <1>1, Zenon DEF LiveAfter

(* What was live after a block that is over stays what it was.             *)
LEMMA LiveStays ==
  ASSUME HistoryTypes, Grown, NEW b \in Nat, b < time
  PROVE  LiveAfter(b)' = LiveAfter(b)
<1> DEFINE S == {k \in DOMAIN log : Installs(k) /\ log[k].at <= b}
           T == {k \in DOMAIN log' : Installs(k)' /\ log'[k].at <= b}
<1>0. log \in Seq(Entry) /\ time \in Nat
  BY DEF HistoryTypes
<1>1. S = T
  <2>1. ASSUME NEW k \in DOMAIN log'
        PROVE  k \in DOMAIN log \/ ~(log'[k].at <= b)
    BY <1>0 DEF Grown
  <2>2. ASSUME NEW k \in DOMAIN log
        PROVE  k \in DOMAIN log' /\ log'[k] = log[k] /\ (Installs(k) <=> Installs(k)')
    BY DEF Grown, Installs
  <2> QED BY <2>1, <2>2
<1>2. CASE S = {}
  BY <1>1, <1>2, Zenon DEF LiveAfter
<1>3. CASE S # {}
  <2>1. S \subseteq 1..Len(log) /\ Len(log) \in Nat
    BY <1>0, EventIn
  <2>2. \E m \in S : \A j \in S : j <= m
    <3> HIDE DEF S
    <3> QED BY <1>3, <2>1, GreatestExists, Zenon
  <2>3. Max(S) \in S
    <3>1. \E m \in S : \A j \in S : m >= j
      BY <2>1, <2>2
    <3> HIDE DEF S
    <3> QED BY <3>1, Zenon DEF Max
  <2>4. LiveAfter(b) = log[Max(S)].config
    BY <1>3, Zenon DEF LiveAfter
  <2>5. LiveAfter(b)' = log'[Max(T)].config
    BY <1>1, <1>3, Zenon DEF LiveAfter
  <2>6. log'[Max(S)] = log[Max(S)]
    <3> DEFINE m == Max(S)
    <3>1. m \in DOMAIN log
      BY <2>3
    <3> HIDE DEF m, S
    <3>2. log'[m] = log[m]
      BY <3>1 DEF Grown
    <3> QED BY <3>2 DEF m
  <2> QED BY <1>1, <2>4, <2>5, <2>6, Zenon
<1> QED BY <1>2, <1>3

(* What a callback reads is fixed: rows stay true, blocks stay passed and  *)
(* callbacks stay fitting while the log grows.                             *)
RowTrue(r) ==
  /\ r.id \in DOMAIN log /\ log[r.id].at < time
  /\ r.snapshot # {} => r.snapshot = SnapshotOf(r.id)
  /\ Installs(r.id) => r.snapshot # {}

LEMMA EventStays ==
  ASSUME HistoryTypes, Grown, NEW i \in DOMAIN log
  PROVE  /\ i \in DOMAIN log' /\ log'[i] = log[i] /\ (Installs(i)' <=> Installs(i))
         /\ log[i].at < time => SnapshotOf(i)' = SnapshotOf(i)
<1>1. i \in DOMAIN log' /\ log'[i] = log[i] /\ (Installs(i)' <=> Installs(i))
  BY DEF Grown, Installs
<1>2. ASSUME log[i].at < time
      PROVE  SnapshotOf(i)' = SnapshotOf(i)
  <2>1. PICK b \in Nat : b = log[i].at
    BY EventIn DEF HistoryTypes
  <2>2. LiveAfter(b)' = LiveAfter(b)
    BY <1>2, <2>1, LiveStays
  <2>3. LiveAfter(log[i].at) = LiveAfter(b)
    BY <2>1
  <2>4. LiveAfter(log[i].at)' = LiveAfter(b)'
    BY <1>1, <2>1
  <2>5. CASE Installs(i)
    BY <1>1, <2>2, <2>3, <2>4, <2>5, Zenon DEF SnapshotOf
  <2>6. CASE ~Installs(i)
    BY <1>1, <2>6, Zenon DEF SnapshotOf
  <2> QED BY <2>5, <2>6
<1> QED BY <1>1, <1>2

LEMMA RowStays ==
  ASSUME HistoryTypes, Grown
  PROVE  \A r : RowTrue(r) => RowTrue(r)'
<1> SUFFICES ASSUME NEW r, RowTrue(r)
             PROVE  RowTrue(r)'
  OBVIOUS
<1>1. PICK i \in DOMAIN log : i = r.id
  BY DEF RowTrue
<1>2. /\ i \in DOMAIN log' /\ log'[i] = log[i] /\ (Installs(i)' <=> Installs(i))
      /\ SnapshotOf(i)' = SnapshotOf(i)
  BY <1>1, EventStays DEF RowTrue
<1>3. log[i].at \in Nat /\ time \in Nat /\ time' \in Nat /\ time <= time'
  BY EventIn DEF HistoryTypes, Grown
<1>4. log'[i].at < time'
  BY <1>1, <1>2, <1>3 DEF RowTrue
<1>5. r.snapshot # {} => r.snapshot = SnapshotOf(i)'
  BY <1>1, <1>2, Zenon DEF RowTrue
<1>6. Installs(i)' => r.snapshot # {}
  BY <1>1, <1>2, Zenon DEF RowTrue
<1> QED BY <1>1, <1>2, <1>4, <1>5, <1>6, Zenon DEF RowTrue

LEMMA PassedStays ==
  ASSUME HistoryTypes, Grown, rows \subseteq rows', lost \subseteq lost'
  PROVE  /\ \A i : HasRow(i) => HasRow(i)'
         /\ \A b \in Nat : Passed(b) => Passed(b)'
         /\ \A p \in Within : PollFits(p) => PollFits(p)'
<1>1. \A i : HasRow(i) => HasRow(i)'
  BY DEF HasRow
<1>2. time \in Nat /\ time' \in Nat /\ time <= time' /\ log \in Seq(Entry)
  BY DEF HistoryTypes, Grown
<1>3. ASSUME NEW b \in Nat, b < time, NEW i \in DOMAIN log', log'[i].at <= b
      PROVE  i \in DOMAIN log /\ log[i].at <= b
  BY <1>2, <1>3 DEF Grown
<1>4. ASSUME NEW b \in Nat, Passed(b)
      PROVE  Passed(b)'
  <2>1. b < time /\ b < time'
    BY <1>2, <1>4 DEF Passed
  <2>2. \A i \in DOMAIN log' : log'[i].at <= b => HasRow(i)'
    BY <1>1, <1>3, <1>4, <2>1 DEF Passed
  <2> QED BY <2>1, <2>2 DEF Passed
<1>5. ASSUME NEW p \in Within, PollFits(p)
      PROVE  PollFits(p)'
  <2>1. p.at \in Nat
    BY DEF Within
  <2>2. p.pc # "idle" => p.at < time /\ p.at < time'
    BY <1>2, <1>5, <2>1 DEF PollFits
  <2>3. p.pc = "save" => Passed(p.at)'
    BY <1>4, <1>5, <2>1 DEF PollFits
  <2>4. ASSUME p.pc = "rows"
        PROVE  /\ \A i \in p.todo : i \in DOMAIN log' /\ log'[i].at <= p.at
               /\ \A i \in DOMAIN log' : log'[i].at <= p.at => i \in p.todo \/ HasRow(i)'
    <3>1. \A i \in p.todo : i \in DOMAIN log' /\ log'[i].at <= p.at
      BY <1>5, <2>4 DEF PollFits, Grown
    <3>2. \A i \in DOMAIN log' : log'[i].at <= p.at => i \in p.todo \/ HasRow(i)'
      BY <1>1, <1>3, <1>5, <2>1, <2>2, <2>4 DEF PollFits
    <3> QED BY <3>1, <3>2
  <2> QED BY <2>2, <2>3, <2>4 DEF PollFits
<1> QED BY <1>1, <1>4, <1>5

(* A step that adds at most true rows, and whose callbacks and counters    *)
(* fit, preserves the invariant.                                           *)
LEMMA Preserved ==
  ASSUME HistoryInv, Grown, rows \subseteq rows', lost \subseteq lost',
         scene' # "editor" => IInv',
         time' # 0, announced' \in Nat, announced' < time',
         \A i \in DOMAIN log' : log'[i].at <= time' /\ (Installs(i)' => log'[i].config # {}),
         \A r \in rows' : r \in rows \/ RowTrue(r)',
         lastBlock' \in Nat, Passed(lastBlock)' , checkpoint' \in Nat, Passed(checkpoint)',
         poll' \in [Polls -> Within], \A p \in Polls : PollFits(poll[p])'
  PROVE  HistoryInv'
<1>1. HistoryTypes'
  BY DEF HistoryTypes, Grown
<1>2. RowsTrue'
  <2>1. \A r \in rows : RowTrue(r)
    BY Zenon DEF HistoryInv, RowsTrue, RowTrue
  <2>2. \A r : RowTrue(r) => RowTrue(r)'
    BY RowStays, Zenon DEF HistoryInv
  <2>3. \A r \in rows' : RowTrue(r)'
    BY <2>1, <2>2, Zenon
  <2> QED BY <2>3, Zenon DEF RowsTrue, RowTrue
<1> QED BY <1>1, <1>2, Zenon DEF HistoryInv

(* The transactions of the contract, and the clock: what the indexer keeps *)
(* is left alone, and at most an event of this block is appended.          *)
LEMMA LogStep ==
  ASSUME HistoryInv, UNCHANGED indexVars, scene' # "editor" => IInv',
         time' \in Nat, time <= time',
         \/ log' = log
         \/ \E e \in Entry : /\ log' = Append(log, e) /\ e.at = time
                             /\ (e.kind \in {"applied", "rollback"} => e.config # {})
  PROVE  HistoryInv'
<1>0. /\ HistoryTypes /\ time \in Nat \ {0} /\ announced \in Nat /\ announced < time
      /\ log \in Seq(Entry) /\ poll \in [Polls -> Within]
      /\ lastBlock \in Nat /\ checkpoint \in Nat /\ Passed(lastBlock) /\ Passed(checkpoint)
      /\ \A p \in Polls : PollFits(poll[p])
      /\ \A i \in DOMAIN log : log[i].at <= time /\ (Installs(i) => log[i].config # {})
  BY DEF HistoryInv, HistoryTypes
<1>1. UNCHANGED <<rows, checkpoint, announced, lastBlock, poll, lost>>
  BY DEF indexVars
<1>2. Grown /\ \A i \in DOMAIN log' : log'[i].at <= time' /\ (Installs(i)' => log'[i].config # {})
  <2>1. CASE log' = log
    <3>1. Grown
      BY <1>0, <2>1 DEF Grown
    <3>2. ASSUME NEW i \in DOMAIN log
          PROVE  log[i].at <= time'
      <4>1. PICK b \in Nat : b = log[i].at
        BY <1>0, EventIn
      <4>2. b <= time
        BY <1>0, <4>1
      <4>3. b <= time'
        BY <1>0, <4>2
      <4> QED BY <4>1, <4>3
    <3>3. \A i \in DOMAIN log : Installs(i)' => log[i].config # {}
      BY <1>0, <2>1, Zenon DEF Installs
    <3> QED BY <2>1, <3>1, <3>2, <3>3, Zenon
  <2>2. ASSUME NEW e \in Entry, log' = Append(log, e), e.at = time,
               e.kind \in {"applied", "rollback"} => e.config # {}
        PROVE  Grown /\ \A i \in DOMAIN log' : log'[i].at <= time'
                                               /\ (Installs(i)' => log'[i].config # {})
    <3>1. /\ log' \in Seq(Entry) /\ DOMAIN log \subseteq DOMAIN log'
          /\ \A i \in DOMAIN log : log'[i] = log[i]
          /\ \A i \in DOMAIN log' : i \in DOMAIN log \/ log'[i] = e
      <4> DEFINE T == Entry
      <4>1. log \in Seq(T) /\ e \in T
        BY <1>0
      <4> HIDE DEF T
      <4>2. /\ log' \in Seq(T) /\ DOMAIN log \subseteq DOMAIN log'
            /\ \A i \in DOMAIN log : log'[i] = log[i]
            /\ \A i \in DOMAIN log' : i \in DOMAIN log \/ log'[i] = e
        BY <2>2, <4>1
      <4> QED BY <4>2 DEF T
    <3>2. Grown
      BY <1>0, <2>2, <3>1 DEF Grown
    <3>3. \A i \in DOMAIN log : log[i].at \in Nat
      BY <1>0, EventIn
    <3>4. ASSUME NEW i \in DOMAIN log'
          PROVE  log'[i].at <= time' /\ (Installs(i)' => log'[i].config # {})
      <4>1. CASE i \in DOMAIN log
        <5>1. PICK b \in Nat : b = log[i].at
          BY <3>3, <4>1
        <5>2. b <= time
          BY <1>0, <4>1, <5>1
        <5>3. b <= time'
          BY <1>0, <5>2
        <5>4. log'[i] = log[i]
          BY <3>1, <4>1, Zenon
        <5>5. Installs(i)' => log'[i].config # {}
          BY <1>0, <4>1, <5>4, Zenon DEF Installs
        <5>6. log'[i].at <= time'
          BY <5>1, <5>3, <5>4
        <5> QED BY <5>5, <5>6
      <4>2. CASE log'[i] = e
        BY <1>0, <2>2, <4>2 DEF Installs
      <4> QED BY <3>1, <4>1, <4>2
    <3> QED BY <3>2, <3>4
  <2> QED BY <2>1, <2>2
<1>3. rows \subseteq rows' /\ lost \subseteq lost'
  BY <1>1
<1>4. /\ \A b \in Nat : Passed(b) => Passed(b)'
      /\ \A p \in Within : PollFits(p) => PollFits(p)'
  BY <1>0, <1>2, <1>3, PassedStays
<1>5. Passed(lastBlock)' /\ Passed(checkpoint)'
  <2>1. PICK b \in Nat, c \in Nat : b = lastBlock /\ c = checkpoint
    BY <1>0
  <2>2. Passed(b)' /\ Passed(c)' /\ b = lastBlock' /\ c = checkpoint'
    BY <1>0, <1>1, <1>4, <2>1
  <2> QED BY <2>2, Zenon DEF Passed
<1>6. ASSUME NEW p \in Polls
      PROVE  PollFits(poll[p])'
  <2>1. PICK q \in Within : q = poll[p]
    BY <1>0
  <2>2. PollFits(q)' /\ q = poll'[p]
    BY <1>0, <1>1, <1>4, <2>1
  <2> QED BY <2>2
<1>7. \A r \in rows' : r \in rows \/ RowTrue(r)'
  BY <1>1
<1>8. announced' < time'
  BY <1>0, <1>1
<1>9. time' # 0 /\ announced' \in Nat /\ lastBlock' \in Nat /\ checkpoint' \in Nat
      /\ poll' \in [Polls -> Within]
  BY <1>0, <1>1
<1> QED BY <1>2, <1>3, <1>5, <1>6, <1>7, <1>8, <1>9, Preserved

LEMMA ContractStep ==
  ASSUME HistoryInv, ContractNext
  PROVE  HistoryInv'
<1>0. /\ HistoryTypes /\ time \in Nat \ {0} /\ log \in Seq(Entry)
      /\ scene # "editor" => IInv
  BY DEF HistoryInv, HistoryTypes
<1>1. ASSUME NEW c \in Submissions, Set(c)
      PROVE  HistoryInv'
  <2>1. /\ scene # "editor" /\ setStakeConfig(c) /\ time' = time
        /\ Record(IF pending' = pending THEN "applied" ELSE "pending_queued", {c})
    BY <1>1, Zenon DEF Set, InScene, setStakeConfig
  <2>2. IInv' /\ c \in StakeConfig
    BY <1>0, <2>1, SubmitInv, GovernanceAssumption
  <2>3. PICK kind \in {"applied", "pending_queued"} : Record(kind, {c})
    BY <2>1, Zenon
  <2>4. \/ log' = log
        \/ \E e \in Entry : /\ log' = Append(log, e) /\ e.at = time
                            /\ (e.kind \in {"applied", "rollback"} => e.config # {})
    <3> DEFINE e == [kind |-> kind, at |-> time, config |-> {c}]
    <3>1. e \in Entry /\ e.at = time /\ e.config # {}
      BY <1>0, <2>2 DEF Entry, Rank
    <3>2. log' = log \/ log' = Append(log, e)
      BY <2>3, Zenon DEF Record
    <3> QED BY <3>1, <3>2, Zenon
  <2>5. UNCHANGED indexVars
    BY <2>3, Zenon DEF Record
  <2>6. time' \in Nat /\ time <= time'
    BY <1>0, <2>1
  <2> QED BY <2>2, <2>4, <2>5, <2>6, LogStep
<1>2. ASSUME NEW kind \in DOMAIN Rank, NEW cfgs \in SUBSET StakeConfig,
             Record(kind, cfgs), scene # "editor" => IInv', time' = time,
             kind \in {"applied", "rollback"} => cfgs # {}
      PROVE  HistoryInv'
  <2>1. \/ log' = log
        \/ \E e \in Entry : /\ log' = Append(log, e) /\ e.at = time
                            /\ (e.kind \in {"applied", "rollback"} => e.config # {})
    <3> DEFINE e == [kind |-> kind, at |-> time, config |-> cfgs]
    <3>1. /\ e \in Entry /\ e.at = time
          /\ e.kind \in {"applied", "rollback"} => e.config # {}
      BY <1>0, <1>2 DEF Entry
    <3>2. log' = log \/ log' = Append(log, e)
      BY <1>2, Zenon DEF Record
    <3> QED BY <3>1, <3>2, Zenon
  <2>2. UNCHANGED indexVars /\ scene' = scene
    BY <1>2, Zenon DEF Record
  <2>3. time' \in Nat /\ time <= time'
    BY <1>0, <1>2
  <2> QED BY <1>2, <2>1, <2>2, <2>3, LogStep
<1>3. ASSUME Commit \/ RollBack
      PROVE  HistoryInv'
  <2>1. /\ scene # "editor" /\ (commitPending \/ rollback) /\ time' = time
        /\ \E kind \in {"applied", "rollback"} : Record(kind, {config'})
    BY <1>3, Zenon DEF Commit, RollBack, InScene, commitPending, rollback
  <2>2. IInv' /\ config' \in StakeConfig
    <3>1. IInv'
      BY <1>0, <2>1, CommitInv, GuardianInv
    <3> QED BY <3>1, Zenon DEF IInv, TypeOK
  <2>3. PICK kind \in {"applied", "rollback"} : Record(kind, {config'})
    BY <2>1
  <2>4. kind \in DOMAIN Rank /\ {config'} \in SUBSET StakeConfig /\ {config'} # {}
    BY <2>2 DEF Rank
  <2> QED BY <1>2, <2>1, <2>2, <2>3, <2>4
<1>4. ASSUME Veto
      PROVE  HistoryInv'
  <2>1. scene # "editor" /\ cancelPendingConfig /\ time' = time /\ Record("pending_cancelled", {})
    BY <1>4, Zenon DEF Veto, InScene, cancelPendingConfig
  <2>2. IInv'
    BY <1>0, <2>1, GuardianInv
  <2>3. "pending_cancelled" \in DOMAIN Rank /\ {} \in SUBSET StakeConfig
    BY DEF Rank
  <2> QED BY <1>2, <2>1, <2>2, <2>3
<1>5. ASSUME Pass
      PROVE  HistoryInv'
  <2>1. scene # "editor" /\ scene' = scene /\ log' = log /\ UNCHANGED indexVars /\ Tick
    BY <1>5, Zenon DEF Pass
  <2>2. IInv'
    BY <1>0, <2>1, TickInv
  <2>3. time' \in Nat /\ time <= time'
    BY <1>0, <2>1 DEF Tick
  <2> QED BY <2>1, <2>2, <2>3, LogStep
<1> QED BY <1>1, <1>3, <1>4, <1>5, Zenon DEF ContractNext, Commit, RollBack

(* The editor, and a step that changes nothing.                            *)
LEMMA EditorStep ==
  ASSUME HistoryInv, EditorNext
  PROVE  HistoryInv'
<1>1. /\ scene = "editor" /\ scene' = scene
      /\ log' = log /\ time' = time /\ UNCHANGED indexVars
  <2>1. CASE \E fm : Edit(fm)
    BY <2>1, Zenon DEF Edit, vars
  <2>2. CASE LoadConsts
    BY <2>2, Zenon DEF LoadConsts, vars
  <2>3. CASE Submit
    BY <2>3, Zenon DEF Submit, setStakeConfig
  <2> QED BY <2>1, <2>2, <2>3, Zenon
          DEF EditorNext, addSizeBucket, removeSizeBucket, addTimeBucket, removeTimeBucket,
              addRatioBucket, removeRatioBucket, set1D, setCell, Reset
<1>2. time' \in Nat /\ time <= time'
  BY <1>1 DEF HistoryInv, HistoryTypes
<1> QED BY <1>1, <1>2, LogStep

LEMMA ConsoleStutter ==
  ASSUME HistoryInv, UNCHANGED consoleVars
  PROVE  HistoryInv'
<1>1. UNCHANGED vars /\ scene' = scene /\ log' = log /\ UNCHANGED indexVars
  BY DEF consoleVars
<1>2. time' = time
  BY <1>1 DEF vars
<1>3. time' \in Nat /\ time <= time'
  BY <1>2 DEF HistoryInv, HistoryTypes
<1>4. scene' # "editor" => IInv'
  BY <1>1, StutterInv, Zenon DEF HistoryInv, HistoryTypes
<1> QED BY <1>1, <1>3, <1>4, LogStep

(* The steps of the indexer: the chain stands still.                       *)
LEMMA Quiet ==
  ASSUME HistoryInv, UNCHANGED <<vars, scene, log>>
  PROVE  /\ Grown /\ time' = time /\ log' = log /\ time \in Nat \ {0}
         /\ scene' # "editor" => IInv'
         /\ \A i \in DOMAIN log' : log'[i].at <= time' /\ (Installs(i)' => log'[i].config # {})
         /\ \A i : Installs(i)' = Installs(i)
<1>1. time' = time /\ log' = log /\ scene' = scene /\ UNCHANGED vars
  BY DEF vars
<1>2. HistoryTypes
  BY DEF HistoryInv
<1>3. Grown /\ time \in Nat \ {0}
  BY <1>1, <1>2 DEF Grown, HistoryTypes
<1>4. scene' # "editor" => IInv'
  BY <1>1, <1>2, StutterInv, Zenon DEF HistoryTypes
<1>5. \A i \in DOMAIN log' : log'[i].at <= time' /\ (Installs(i)' => log'[i].config # {})
  BY <1>1, <1>2, Zenon DEF HistoryTypes, Installs
<1>6. \A i : Installs(i)' = Installs(i)
  BY <1>1, Zenon DEF Installs
<1> QED BY <1>1, <1>3, <1>4, <1>5, <1>6

(* What stays with a step that adds rows or lost events, and moves the     *)
(* callback p only.                                                        *)
LEMMA CallbackStep ==
  ASSUME HistoryInv, UNCHANGED <<vars, scene, log>>,
         rows \subseteq rows', lost \subseteq lost',
         announced' \in Nat, announced' < time,
         \A r \in rows' : r \in rows \/ RowTrue(r)',
         lastBlock' \in Nat, lastBlock' = lastBlock \/ Passed(lastBlock)',
         checkpoint' \in Nat, checkpoint' = checkpoint \/ Passed(checkpoint)',
         \A c \in Polls : \E q \in Within :
            poll'[c] = q /\ (q = poll[c] \/ PollFits(q)'),
         poll' \in [Polls -> Within]
  PROVE  HistoryInv'
<1>0. /\ HistoryTypes /\ poll \in [Polls -> Within]
      /\ lastBlock \in Nat /\ checkpoint \in Nat /\ Passed(lastBlock) /\ Passed(checkpoint)
      /\ \A p \in Polls : PollFits(poll[p])
  BY DEF HistoryInv, HistoryTypes
<1>1. /\ Grown /\ time' = time /\ time \in Nat \ {0}
      /\ scene' # "editor" => IInv'
      /\ \A i \in DOMAIN log' : log'[i].at <= time' /\ (Installs(i)' => log'[i].config # {})
  BY Quiet
<1>2. /\ \A b \in Nat : Passed(b) => Passed(b)'
      /\ \A p \in Within : PollFits(p) => PollFits(p)'
  BY <1>0, <1>1, PassedStays
<1>3. Passed(lastBlock)' /\ Passed(checkpoint)'
  <2>1. PICK b \in Nat, c \in Nat : b = lastBlock /\ c = checkpoint
    BY <1>0
  <2>2. Passed(b)' /\ Passed(c)'
    BY <1>0, <1>2, <2>1
  <2>3. lastBlock' = lastBlock => Passed(lastBlock)'
    BY <2>1, <2>2, Zenon DEF Passed
  <2>4. checkpoint' = checkpoint => Passed(checkpoint)'
    BY <2>1, <2>2, Zenon DEF Passed
  <2> QED BY <2>3, <2>4
<1>4. ASSUME NEW c \in Polls
      PROVE  PollFits(poll[c])'
  <2>1. PICK q \in Within : poll'[c] = q /\ (q = poll[c] \/ PollFits(q)')
    OBVIOUS
  <2>2. PollFits(q)'
    BY <1>0, <1>2, <2>1
  <2> QED BY <2>1, <2>2
<1>5. announced' < time' /\ time' # 0
  BY <1>1
<1> QED BY <1>1, <1>3, <1>4, <1>5, Preserved

(* The event a callback takes next is one it holds.                        *)
LEMMA FirstIsHeld ==
  ASSUME log \in Seq(Entry), NEW todo, todo \subseteq DOMAIN log, todo # {}
  PROVE  FirstOf(todo) \in todo
<1> DEFINE rank(i) == Rank[log[i].kind]
           R == {rank(i) : i \in todo}
<1>1. \A i \in todo : rank(i) \in Nat /\ i \in Nat
                      /\ \A j \in todo : rank(i) = rank(j) => log[i].kind = log[j].kind
  <2>1. \A k \in DOMAIN Rank : Rank[k] \in Nat /\ \A l \in DOMAIN Rank : Rank[k] = Rank[l] => k = l
    BY DEF Rank
  <2>2. \A i \in todo : log[i].kind \in DOMAIN Rank /\ i \in Nat
    BY EventIn
  <2> QED BY <2>1, <2>2
<1>2. R \subseteq Nat /\ R # {}
  <2> HIDE DEF rank
  <2> QED BY <1>1
<1>3. PICK least \in R : \A k \in R : least <= k
  <2> HIDE DEF R
  <2> QED BY <1>2, LeastExists, Zenon
<1> DEFINE T == {i \in todo : rank(i) = least}
<1>4. T \subseteq Nat /\ T # {}
  <2> HIDE DEF rank
  <2> QED BY <1>1
<1>5. PICK i \in T : \A j \in T : i <= j
  <2> HIDE DEF T
  <2> QED BY <1>4, LeastExists, Zenon
<1>6. ASSUME NEW j \in todo PROVE Before(i, j)
  <2>1. rank(i) = least /\ i \in todo
    OBVIOUS
  <2>2. least <= rank(j)
    BY <1>3
  <2>3. CASE rank(j) = least
    <3>1. i <= j
      BY <1>5, <2>3
    <3>2. log[i].kind = log[j].kind
      BY <1>1, <2>1, <2>3
    <3> QED BY <3>1, <3>2 DEF Before
  <2>4. CASE rank(j) # least
    <3>1. rank(i) < rank(j)
      <4>1. rank(i) \in Nat /\ rank(j) \in Nat
        BY <1>1, <2>1
      <4> HIDE DEF rank
      <4> QED BY <2>1, <2>2, <2>4, <4>1
    <3> QED BY <3>1 DEF Before
  <2> QED BY <2>3, <2>4
<1>7. i \in todo
  OBVIOUS
<1> QED BY <1>6, <1>7, Zenon DEF FirstOf

(* A callback that hands over to another of its own kind, or to none.      *)
LEMMA OneMoves ==
  ASSUME poll \in [Polls -> Within], NEW p \in Polls, NEW q \in Within,
         poll' = [poll EXCEPT ![p] = q], PollFits(q)'
  PROVE  /\ poll' \in [Polls -> Within]
         /\ \A c \in Polls : \E r \in Within :
               poll'[c] = r /\ (r = poll[c] \/ PollFits(r)')
<1>1. poll' \in [Polls -> Within] /\ poll'[p] = q /\ \A c \in Polls : c # p => poll'[c] = poll[c]
  OBVIOUS
<1>2. ASSUME NEW c \in Polls
      PROVE  \E r \in Within : poll'[c] = r /\ (r = poll[c] \/ PollFits(r)')
  <2>1. CASE c = p
    BY <1>1, <2>1, Zenon
  <2>2. CASE c # p
    BY <1>1, <2>2
  <2> QED BY <2>1, <2>2
<1> QED BY <1>1, <1>2

LEMMA NoneMoves ==
  ASSUME poll \in [Polls -> Within], poll' = poll
  PROVE  /\ poll' \in [Polls -> Within]
         /\ \A c \in Polls : \E r \in Within :
               poll'[c] = r /\ (r = poll[c] \/ PollFits(r)')
OBVIOUS

LEMMA IdleWithin == IdlePoll \in Within /\ PollFits(IdlePoll)'
<1>1. IdlePoll \in Within /\ IdlePoll.pc = "idle"
  BY DEF IdlePoll, Within
<1> QED BY <1>1 DEF PollFits

(* A new block: what happened before the counter has its row.              *)
LEMMA OnBlockStep ==
  ASSUME HistoryInv, NEW p \in Polls, OnBlock(p)
  PROVE  HistoryInv'
<1>0. /\ HistoryTypes /\ poll \in [Polls -> Within] /\ log \in Seq(Entry)
      /\ lastBlock \in Nat /\ checkpoint \in Nat /\ announced \in Nat /\ time \in Nat \ {0}
      /\ Passed(lastBlock)
  BY DEF HistoryInv, HistoryTypes
<1>1. /\ UNCHANGED <<vars, scene, log, rows, checkpoint, lastBlock, lost>>
      /\ announced < time - 1 /\ announced' = announced + 1
  BY Zenon DEF OnBlock
<1>2. announced' \in Nat /\ announced' < time
  BY <1>0, <1>1
<1>3. /\ poll' \in [Polls -> Within]
      /\ \A c \in Polls : \E r \in Within :
            poll'[c] = r /\ (r = poll[c] \/ PollFits(r)')
  <2>1. CASE announced + 1 <= lastBlock
    <3>1. poll' = poll
      BY <2>1, Zenon DEF OnBlock
    <3> QED BY <1>0, <3>1, NoneMoves
  <2>2. CASE ~(announced + 1 <= lastBlock)
    <3> DEFINE todo == {i \in DOMAIN log : log[i].at \in (lastBlock + 1)..(announced + 1)}
               q == [pc |-> "rows", at |-> announced + 1, todo |-> todo]
    <3>1. poll' = [poll EXCEPT ![p] = q]
      BY <2>2, Zenon DEF OnBlock
    <3>2. \A i \in DOMAIN log : i \in Nat /\ log[i].at \in Nat
      BY <1>0, EventIn
    <3>3. q \in Within /\ q.pc = "rows" /\ q.at = announced + 1 /\ q.todo = todo
      BY <1>0, <3>2 DEF Within
    <3>4. \A i \in todo : i \in DOMAIN log /\ log[i].at <= announced + 1
      BY <1>0, <3>2
    <3>5. ASSUME NEW i \in DOMAIN log, log[i].at <= announced + 1
          PROVE  i \in todo \/ HasRow(i)
      <4>1. CASE log[i].at <= lastBlock
        BY <1>0, <4>1 DEF Passed
      <4>2. CASE ~(log[i].at <= lastBlock)
        <5>1. log[i].at \in (lastBlock + 1)..(announced + 1)
          BY <1>0, <3>2, <3>5, <4>2
        <5> QED BY <5>1
      <4> QED BY <4>1, <4>2
    <3>6. announced + 1 < time
      BY <1>0, <1>1
    <3>7. PollFits(q)
      <4> HIDE DEF q, todo
      <4> QED BY <3>3, <3>4, <3>5, <3>6 DEF PollFits
    <3>8. PICK r \in Within : r = q
      BY <3>3
    <3>9. PollFits(r) /\ poll' = [poll EXCEPT ![p] = r]
      BY <3>1, <3>7, <3>8
    <3>10. PollFits(r)'
      <4>1. Grown
        BY <1>1, Quiet
      <4> QED BY <1>0, <1>1, <3>9, <4>1, PassedStays
    <3> QED BY <1>0, <3>9, <3>10, OneMoves
  <2> QED BY <2>1, <2>2
<1> QED BY <1>0, <1>1, <1>2, <1>3, CallbackStep

(* An event is taken off a callback's hands: it has its row, or was lost.  *)
LEMMA HandledStep ==
  ASSUME HistoryInv, UNCHANGED <<vars, scene, log, checkpoint, announced, lastBlock>>,
         NEW p \in Polls, poll[p].pc = "rows", NEW i, i = FirstOf(poll[p].todo), Handled(p, i),
         rows \subseteq rows', lost \subseteq lost', HasRow(i)',
         \A r \in rows' : r \in rows \/ RowTrue(r)'
  PROVE  HistoryInv'
<1>0. /\ HistoryTypes /\ poll \in [Polls -> Within] /\ log \in Seq(Entry)
      /\ lastBlock \in Nat /\ checkpoint \in Nat /\ announced \in Nat /\ announced < time
      /\ PollFits(poll[p])
  BY DEF HistoryInv, HistoryTypes
<1>1. PICK q \in Within : q = poll[p]
  BY <1>0
<1>2. PollFits(q) /\ q.pc = "rows"
  BY <1>0, <1>1
<1>3. PollFits(q)' /\ \A b \in Nat : Passed(b) => Passed(b)'
  <2>1. Grown
    BY Quiet
  <2> QED BY <1>0, <1>2, <2>1, PassedStays
<1> DEFINE s == [q EXCEPT !.todo = @ \ {i}]
<1>4. PICK r \in Within : r = s
  BY DEF Within
<1>5. r.pc = q.pc /\ r.at = q.at /\ r.todo = q.todo \ {i}
  BY <1>4 DEF Within
<1>6. PollFits(r)'
  <2>1. q.at < time'
    BY <1>2, <1>3 DEF PollFits
  <2>2. \A j \in q.todo : j \in DOMAIN log' /\ log'[j].at <= q.at
    BY <1>2, <1>3 DEF PollFits
  <2>3. \A j \in DOMAIN log' : log'[j].at <= q.at => j \in q.todo \/ HasRow(j)'
    BY <1>2, <1>3 DEF PollFits
  <2>4. r.pc # "idle" => r.at < time'
    BY <1>5, <2>1
  <2>5. /\ \A j \in r.todo : j \in DOMAIN log' /\ log'[j].at <= r.at
        /\ \A j \in DOMAIN log' : log'[j].at <= r.at => j \in r.todo \/ HasRow(j)'
    BY <1>5, <2>2, <2>3
  <2>6. r.pc = "rows"
    BY <1>2, <1>5
  <2> QED BY <2>4, <2>5, <2>6 DEF PollFits
<1>7. poll' = [poll EXCEPT ![p] = r]
  <2>1. poll' = [poll EXCEPT ![p].todo = @ \ {i}]
    BY DEF Handled
  <2>2. poll' = [poll EXCEPT ![p] = s]
    BY <1>0, <1>1, <2>1
  <2> QED BY <1>4, <2>2
<1>8. /\ poll' \in [Polls -> Within]
      /\ \A c \in Polls : \E d \in Within :
            poll'[c] = d /\ (d = poll[c] \/ PollFits(d)')
  BY <1>0, <1>6, <1>7, OneMoves
<1> QED BY <1>0, <1>8, CallbackStep

(* What the callback that handles events holds next.                       *)
LEMMA Held ==
  ASSUME HistoryInv, NEW p \in Polls, poll[p].pc = "rows", poll[p].todo # {},
         NEW i, i = FirstOf(poll[p].todo)
  PROVE  i \in DOMAIN log /\ log[i].at < time
<1>1. /\ log \in Seq(Entry) /\ poll[p] \in Within /\ PollFits(poll[p]) /\ time \in Nat
  BY DEF HistoryInv, HistoryTypes
<1>2. PICK q \in Within : q = poll[p]
  BY <1>1
<1>3. q.todo \subseteq DOMAIN log /\ q.todo # {} /\ q.at < time /\ q.at \in Nat
      /\ \A j \in q.todo : log[j].at <= q.at
  BY <1>1, <1>2 DEF PollFits, Within
<1>4. i \in q.todo
  BY <1>1, <1>2, <1>3, FirstIsHeld
<1>5. i \in DOMAIN log /\ log[i].at <= q.at /\ log[i].at \in Nat
  BY <1>1, <1>3, <1>4, EventIn
<1> QED BY <1>1, <1>3, <1>5

(* A row that is written for it is there from then on, and true.           *)
LEMMA InsertedRow ==
  ASSUME HistoryInv, UNCHANGED <<vars, scene, log>>,
         NEW i \in DOMAIN log, log[i].at < time, NEW snapshot, Insert(i, snapshot),
         snapshot # {} => snapshot = SnapshotOf(i),
         Installs(i) => snapshot # {}
  PROVE  /\ rows \subseteq rows' /\ HasRow(i)'
         /\ \A r \in rows' : r \in rows \/ RowTrue(r)'
<1>1. CASE \E r \in rows : r.id = i
  <2>1. rows' = rows
    BY <1>1, Zenon DEF Insert
  <2> QED BY <1>1, <2>1, Zenon DEF HasRow
<1>2. CASE ~\E r \in rows : r.id = i
  <2> DEFINE row == [id |-> i, snapshot |-> snapshot]
  <2>1. rows' = rows \cup {row}
    BY <1>2, Zenon DEF Insert
  <2>2. row.id = i /\ row.snapshot = snapshot
    OBVIOUS
  <2>3. RowTrue(row)
    <3> HIDE DEF row
    <3> QED BY <2>2, Zenon DEF RowTrue
  <2>4. RowTrue(row)'
    <3>1. Grown /\ HistoryTypes
      BY Quiet DEF HistoryInv
    <3>2. PICK r : r = row
      OBVIOUS
    <3>3. RowTrue(r) => RowTrue(r)'
      BY <3>1, RowStays, Zenon
    <3>4. row' = row
      OBVIOUS
    <3> HIDE DEF row
    <3> QED BY <2>3, <3>2, <3>3, <3>4
  <2>5. HasRow(i)'
    BY <2>1, <2>2, Zenon DEF HasRow
  <2>6. rows \subseteq rows' /\ \A r \in rows' : r \in rows \/ r = row
    <3> HIDE DEF row
    <3> QED BY <2>1
  <2>7. \A r \in rows' : r \in rows \/ RowTrue(r)'
    BY <2>4, <2>6
  <2> QED BY <2>5, <2>6, <2>7
<1> QED BY <1>1, <1>2

LEMMA InsertRowStep ==
  ASSUME HistoryInv, NEW p \in Polls, InsertRow(p)
  PROVE  HistoryInv'
<1>1. PICK i : i = FirstOf(poll[p].todo)
  OBVIOUS
<1>2. /\ poll[p].pc = "rows" /\ poll[p].todo # {} /\ Insert(i, SnapshotOf(i)) /\ Handled(p, i)
      /\ UNCHANGED <<vars, scene, log, checkpoint, announced, lastBlock, lost>>
  BY <1>1, Zenon DEF InsertRow, At
<1>3. i \in DOMAIN log /\ log[i].at < time
  BY <1>1, <1>2, Held
<1>4. Installs(i) => SnapshotOf(i) # {}
  <2> SUFFICES ASSUME Installs(i) PROVE SnapshotOf(i) # {}
    OBVIOUS
  <2>1. log \in Seq(Entry) /\ \A k \in DOMAIN log : Installs(k) => log[k].config # {}
    BY Zenon DEF HistoryInv, HistoryTypes
  <2>2. log[i].at <= log[i].at
    BY <1>3, <2>1, EventIn
  <2>3. PICK m \in DOMAIN log : Installs(m) /\ LiveAfter(log[i].at) = log[m].config
    BY <1>3, <2>1, <2>2, LiveIs
  <2> QED BY <2>1, <2>3, Zenon DEF SnapshotOf
<1>5. PICK snapshot : snapshot = SnapshotOf(i)
  OBVIOUS
<1>6. /\ rows \subseteq rows' /\ HasRow(i)'
      /\ \A r \in rows' : r \in rows \/ RowTrue(r)'
  BY <1>2, <1>3, <1>4, <1>5, InsertedRow
<1>7. lost \subseteq lost'
  BY <1>2
<1> QED BY <1>1, <1>2, <1>6, <1>7, HandledStep

LEMMA InsertBareStep ==
  ASSUME HistoryInv, NEW p \in Polls, InsertBare(p)
  PROVE  HistoryInv'
<1>1. PICK i : i = FirstOf(poll[p].todo)
  OBVIOUS
<1>2. /\ poll[p].pc = "rows" /\ poll[p].todo # {} /\ Insert(i, {}) /\ Handled(p, i)
      /\ log[i].kind = "pending_queued"
      /\ UNCHANGED <<vars, scene, log, checkpoint, announced, lastBlock, lost>>
  BY <1>1, Zenon DEF InsertBare, At
<1>3. i \in DOMAIN log /\ log[i].at < time
  BY <1>1, <1>2, Held
<1>4. ~Installs(i)
  BY <1>2 DEF Installs
<1>5. /\ rows \subseteq rows' /\ HasRow(i)'
      /\ \A r \in rows' : r \in rows \/ RowTrue(r)'
  BY <1>2, <1>3, <1>4, InsertedRow
<1>6. lost \subseteq lost'
  BY <1>2
<1> QED BY <1>1, <1>2, <1>5, <1>6, HandledStep

LEMMA InsertFailsStep ==
  ASSUME HistoryInv, NEW p \in Polls, InsertFails(p)
  PROVE  HistoryInv'
<1>1. PICK i : i = FirstOf(poll[p].todo)
  OBVIOUS
<1>2. /\ poll[p].pc = "rows" /\ Handled(p, i) /\ lost' = lost \cup {i}
      /\ UNCHANGED <<vars, scene, log, rows, checkpoint, announced, lastBlock>>
  BY <1>1, Zenon DEF InsertFails, At
<1>3. HasRow(i)' /\ lost \subseteq lost'
  BY <1>2 DEF HasRow
<1>4. rows \subseteq rows' /\ \A r \in rows' : r \in rows \/ RowTrue(r)'
  BY <1>2
<1>5. UNCHANGED <<vars, scene, log, checkpoint, announced, lastBlock>>
  BY <1>2
<1> QED BY <1>1, <1>2, <1>3, <1>4, <1>5, HandledStep

(* A callback that has held every event up to its block has passed it.     *)
LEMMA FinishRowsStep ==
  ASSUME HistoryInv, NEW p \in Polls, FinishRows(p)
  PROVE  HistoryInv'
<1>0. /\ HistoryTypes /\ poll \in [Polls -> Within] /\ checkpoint \in Nat
      /\ announced \in Nat /\ announced < time /\ PollFits(poll[p])
  BY DEF HistoryInv, HistoryTypes
<1>1. /\ poll[p].pc = "rows" /\ poll[p].todo = {} /\ lastBlock' = poll[p].at
      /\ poll' = [poll EXCEPT ![p].pc = "save"]
      /\ UNCHANGED <<vars, scene, log, rows, checkpoint, announced, lost>>
  BY Zenon DEF FinishRows, At
<1>2. PICK q \in Within : q = poll[p]
  BY <1>0
<1>3. PollFits(q) /\ q.pc = "rows" /\ q.todo = {} /\ q.at \in Nat
  BY <1>0, <1>1, <1>2 DEF Within
<1>4. Passed(q.at)
  BY <1>3 DEF PollFits, Passed
<1>5. Passed(q.at)' /\ q.at < time'
  <2>1. Grown /\ time' = time
    BY <1>1, Quiet
  <2>2. rows \subseteq rows' /\ lost \subseteq lost'
    BY <1>1
  <2>3. \A b \in Nat : Passed(b) => Passed(b)'
    BY <1>0, <2>1, <2>2, PassedStays
  <2> QED BY <1>3, <1>4, <2>1, <2>3 DEF Passed
<1>6. PICK r \in Within : r = [q EXCEPT !.pc = "save"]
  BY DEF Within
<1>7. r.pc = "save" /\ r.at = q.at
  BY <1>6 DEF Within
<1>8. PollFits(r)'
  BY <1>5, <1>7 DEF PollFits
<1>9. poll' = [poll EXCEPT ![p] = r]
  BY <1>0, <1>1, <1>2, <1>6
<1>10. /\ poll' \in [Polls -> Within]
       /\ \A c \in Polls : \E d \in Within :
             poll'[c] = d /\ (d = poll[c] \/ PollFits(d)')
  BY <1>0, <1>8, <1>9, OneMoves
<1>11. lastBlock' \in Nat /\ Passed(lastBlock)'
  <2>1. lastBlock' = q.at
    BY <1>1, <1>2
  <2> QED BY <1>3, <1>5, <2>1, Zenon DEF Passed
<1>12. rows \subseteq rows' /\ lost \subseteq lost' /\ (\A r0 \in rows' : r0 \in rows \/ RowTrue(r0)')
       /\ announced' \in Nat /\ announced' < time /\ checkpoint' = checkpoint
  BY <1>0, <1>1
<1> QED BY <1>0, <1>1, <1>10, <1>11, <1>12, CallbackStep

(* The checkpoint is written after the rows.                               *)
LEMMA SaveCheckpointStep ==
  ASSUME HistoryInv, NEW p \in Polls, SaveCheckpoint(p)
  PROVE  HistoryInv'
<1>0. /\ HistoryTypes /\ poll \in [Polls -> Within] /\ lastBlock \in Nat
      /\ announced \in Nat /\ announced < time /\ PollFits(poll[p])
  BY DEF HistoryInv, HistoryTypes
<1>1. /\ poll[p].pc = "save" /\ checkpoint' = poll[p].at
      /\ poll' = [poll EXCEPT ![p] = IdlePoll]
      /\ UNCHANGED <<vars, scene, log, rows, announced, lastBlock, lost>>
  BY Zenon DEF SaveCheckpoint, At
<1>2. PICK q \in Within : q = poll[p]
  BY <1>0
<1>3. Passed(q.at) /\ q.at \in Nat
  BY <1>0, <1>1, <1>2 DEF PollFits, Within
<1>4. Passed(q.at)'
  <2>1. Grown
    BY <1>1, Quiet
  <2>2. rows \subseteq rows' /\ lost \subseteq lost'
    BY <1>1
  <2>3. \A b \in Nat : Passed(b) => Passed(b)'
    BY <1>0, <2>1, <2>2, PassedStays
  <2> QED BY <1>3, <2>3
<1>5. checkpoint' \in Nat /\ Passed(checkpoint)'
  <2>1. checkpoint' = q.at
    BY <1>1, <1>2
  <2> QED BY <1>3, <1>4, <2>1, Zenon DEF Passed
<1>6. /\ poll' \in [Polls -> Within]
      /\ \A c \in Polls : \E d \in Within :
            poll'[c] = d /\ (d = poll[c] \/ PollFits(d)')
  <2>1. PICK q0 \in Within : q0 = IdlePoll /\ PollFits(q0)'
    BY IdleWithin
  <2> QED BY <1>0, <1>1, <2>1, OneMoves
<1>7. rows \subseteq rows' /\ lost \subseteq lost' /\ (\A r0 \in rows' : r0 \in rows \/ RowTrue(r0)')
      /\ announced' \in Nat /\ announced' < time /\ lastBlock' = lastBlock /\ lastBlock' \in Nat
  BY <1>0, <1>1
<1> QED BY <1>0, <1>1, <1>5, <1>6, <1>7, CallbackStep

(* A callback that throws, a crash and a restart lose no row.              *)
LEMMA FallsStep ==
  ASSUME HistoryInv, (\E p \in Polls : PollFails(p)) \/ Crash \/ Restart
  PROVE  HistoryInv'
<1>0. /\ HistoryTypes /\ poll \in [Polls -> Within] /\ lastBlock \in Nat /\ checkpoint \in Nat
      /\ announced \in Nat /\ announced < time /\ time \in Nat \ {0}
      /\ Passed(checkpoint)
  BY DEF HistoryInv, HistoryTypes
<1>1. UNCHANGED <<vars, scene, log, rows, checkpoint, lost>>
  BY Zenon DEF PollFails, Crash, Restart
<1>2. /\ poll' \in [Polls -> Within]
      /\ \A c \in Polls : \E d \in Within :
            poll'[c] = d /\ (d = poll[c] \/ PollFits(d)')
  <2>0. PICK q0 \in Within : q0 = IdlePoll /\ PollFits(q0)'
    BY IdleWithin
  <2>1. ASSUME NEW p \in Polls, PollFails(p)
        PROVE  /\ poll' \in [Polls -> Within]
               /\ \A c \in Polls : \E d \in Within :
                     poll'[c] = d /\ (d = poll[c] \/ PollFits(d)')
    <3>1. poll' = [poll EXCEPT ![p] = q0]
      BY <2>0, <2>1, Zenon DEF PollFails
    <3> QED BY <1>0, <2>0, <3>1, OneMoves
  <2>2. CASE Crash
    <3>1. poll' = [c \in Polls |-> q0]
      BY <2>0, <2>2, Zenon DEF Crash
    <3>2. poll' \in [Polls -> Within] /\ \A c \in Polls : poll'[c] = q0
      BY <3>1
    <3> QED BY <2>0, <3>2, Zenon
  <2>3. CASE Restart
    <3>1. poll' = poll
      BY <2>3, Zenon DEF Restart
    <3> QED BY <1>0, <3>1, NoneMoves
  <2> QED BY <2>1, <2>2, <2>3
<1>3. announced' \in Nat /\ announced' < time
  <2>1. CASE Restart
    <3>1. announced' = Max({0, time - 2})
      BY <2>1, Zenon DEF Restart
    <3>2. Max({0, time - 2}) \in {0, time - 2} /\ Max({0, time - 2}) >= 0
      <4>1. \E m \in {0, time - 2} : \A k \in {0, time - 2} : m >= k
        BY <1>0
      <4>2. /\ Max({0, time - 2}) \in {0, time - 2}
            /\ \A k \in {0, time - 2} : Max({0, time - 2}) >= k
        BY <4>1, Zenon DEF Max
      <4> QED BY <4>2
    <3> QED BY <1>0, <3>1, <3>2
  <2>2. CASE ~Restart
    <3>1. announced' = announced
      BY <2>2, Zenon DEF PollFails, Crash
    <3> QED BY <1>0, <3>1
  <2> QED BY <2>1, <2>2
<1>4. lastBlock' \in Nat /\ (lastBlock' = lastBlock \/ Passed(lastBlock)')
  <2>1. CASE Restart
    <3>1. lastBlock' = checkpoint /\ checkpoint' = checkpoint
      BY <2>1, Zenon DEF Restart
    <3>2. Passed(checkpoint)'
      <4>1. PICK b \in Nat : b = checkpoint
        BY <1>0
      <4>2. Grown
        BY <1>1, Quiet
      <4>3. rows \subseteq rows' /\ lost \subseteq lost'
        BY <1>1
      <4>4. Passed(b)'
        BY <1>0, <4>1, <4>2, <4>3, PassedStays
      <4> QED BY <3>1, <4>1, <4>4, Zenon DEF Passed
    <3> QED BY <1>0, <3>1, <3>2, Zenon DEF Passed
  <2>2. CASE ~Restart
    <3>1. lastBlock' = lastBlock
      BY <2>2, Zenon DEF PollFails, Crash
    <3> QED BY <1>0, <3>1
  <2> QED BY <2>1, <2>2
<1>5. rows \subseteq rows' /\ lost \subseteq lost' /\ (\A r0 \in rows' : r0 \in rows \/ RowTrue(r0)')
      /\ checkpoint' = checkpoint /\ checkpoint' \in Nat
  BY <1>0, <1>1
<1>6. UNCHANGED <<vars, scene, log>>
  BY <1>1
<1> QED BY <1>2, <1>3, <1>4, <1>5, <1>6, CallbackStep

LEMMA HistoryInit == ConsoleInit => HistoryInv
<1> SUFFICES ASSUME ConsoleInit PROVE HistoryInv
  OBVIOUS
<1>1. /\ IInv /\ time = 1 /\ announced = 0 /\ lastBlock = 0 /\ checkpoint = 0
      /\ log = << >> /\ rows = {} /\ poll = [p \in Polls |-> IdlePoll]
  BY InitInv, Zenon DEF ConsoleInit, Init
<1>2. IdlePoll \in Within /\ PollFits(IdlePoll)
  <2>1. IdlePoll \in Within /\ IdlePoll.pc = "idle"
    BY DEF IdlePoll, Within
  <2> QED BY <2>1 DEF PollFits
<1>3. poll \in [Polls -> Within] /\ \A p \in Polls : PollFits(poll[p])
  <2>1. PICK q \in Within : q = IdlePoll
    BY <1>2
  <2>2. poll \in [Polls -> Within] /\ \A p \in Polls : poll[p] = q
    BY <1>1, <2>1
  <2>3. PollFits(q)
    BY <1>2, <2>1
  <2> QED BY <2>2, <2>3
<1>4. log \in Seq(Entry) /\ DOMAIN log = {}
  BY <1>1
<1>5. HistoryTypes
  BY <1>1, <1>3, <1>4 DEF HistoryTypes
<1>6. RowsTrue /\ Passed(lastBlock) /\ Passed(checkpoint)
  BY <1>1, <1>4 DEF RowsTrue, Passed
<1> QED BY <1>3, <1>5, <1>6, Zenon DEF HistoryInv

(* The changes a row lists are against what was live before its block: the *)
(* row of the last block that installed something is there to be found.    *)
LEMMA PreviousIsLive ==
  ASSUME HistoryInv, NEW r \in rows, log[r.id].at <= checkpoint, lost = {}
  PROVE  findPrevSnapshot(r) = LiveAfter(log[r.id].at - 1)
<1>0. /\ HistoryTypes /\ log \in Seq(Entry) /\ checkpoint \in Nat
      /\ \A i \in DOMAIN log : log[i].at <= checkpoint => \E q \in rows : q.id = i
      /\ \A q \in rows : RowTrue(q)
  BY DEF HistoryInv, HistoryTypes, RowsTrue, RowTrue, Passed, HasRow
<1>1. PICK a \in Nat : a = log[r.id].at
  BY <1>0, EventIn DEF RowTrue
<1> DEFINE older == {q \in rows : Installs(q.id) /\ q.snapshot # {} /\ log[q.id].at < log[r.id].at}
           Newest == CHOOSE q \in older : \A o \in older : log[o.id].at <= log[q.id].at
<1>2. findPrevSnapshot(r) = IF older = {} THEN {} ELSE Newest.snapshot
  BY Zenon DEF findPrevSnapshot
<1>3. ASSUME NEW i \in DOMAIN log, Installs(i), log[i].at <= a - 1
      PROVE  \E q \in older : q.id = i
  <2>1. log[i].at \in Nat
    BY <1>0, EventIn
  <2>2. log[i].at < log[r.id].at /\ log[i].at <= checkpoint
    BY <1>0, <1>1, <1>3, <2>1
  <2>3. PICK q \in rows : q.id = i
    BY <1>0, <2>2
  <2>4. q.snapshot # {}
    BY <1>0, <1>3, <2>3, Zenon DEF RowTrue
  <2> QED BY <1>3, <2>2, <2>3, <2>4, Zenon
<1>4. ASSUME NEW q \in older
      PROVE  /\ q.id \in DOMAIN log /\ Installs(q.id) /\ log[q.id].at \in Nat
             /\ log[q.id].at <= a - 1
             /\ q.snapshot = LiveAfter(log[q.id].at)
  <2>1. q \in rows /\ Installs(q.id) /\ q.snapshot # {} /\ log[q.id].at < a
    BY <1>1, Zenon
  <2>2. q.id \in DOMAIN log /\ q.snapshot = SnapshotOf(q.id)
    BY <1>0, <2>1, Zenon DEF RowTrue
  <2>3. q.snapshot = LiveAfter(log[q.id].at)
    BY <2>1, <2>2, Zenon DEF SnapshotOf
  <2>4. log[q.id].at \in Nat
    BY <1>0, <2>2, EventIn
  <2>5. log[q.id].at <= a - 1
    BY <2>1, <2>4
  <2> QED BY <2>1, <2>2, <2>3, <2>4, <2>5, Zenon
<1>5. CASE older = {}
  <2>1. {i \in DOMAIN log : Installs(i) /\ log[i].at <= a - 1} = {}
    <3> HIDE DEF older
    <3> QED BY <1>3, <1>5
  <2>2. LiveAfter(a - 1) = {}
    BY <2>1, Zenon DEF LiveAfter
  <2>3. findPrevSnapshot(r) = {}
    BY <1>2, <1>5, Zenon
  <2> QED BY <1>1, <2>2, <2>3
<1>6. CASE older # {}
  <2> DEFINE back(q) == a - log[q.id].at
             B == {back(q) : q \in older}
  <2>1. \A q \in older : back(q) \in Nat
    <3> HIDE DEF older
    <3> QED BY <1>4
  <2>2. B \subseteq Nat /\ B # {}
    <3> HIDE DEF older, back
    <3> QED BY <1>6, <2>1
  <2>3. PICK least \in B : \A k \in B : least <= k
    <3> HIDE DEF B
    <3> QED BY <2>2, LeastExists, Zenon
  <2>4. PICK q \in older : least = back(q)
    <3> HIDE DEF older, back
    <3> QED OBVIOUS
  <2>5. \A o \in older : log[o.id].at <= log[q.id].at
    <3> TAKE o \in older
    <3>1. back(q) <= back(o)
      <4> HIDE DEF older, back
      <4> QED BY <2>3, <2>4
    <3>2. log[o.id].at \in Nat /\ log[q.id].at \in Nat
      BY <1>4
    <3> HIDE DEF older
    <3> QED BY <3>1, <3>2
  <2>6. Newest \in older /\ \A o \in older : log[o.id].at <= log[Newest.id].at
    <3> HIDE DEF older
    <3> QED BY <2>5, Zenon
  <2>7. PICK n \in older : n = Newest
    BY <2>6
  <2>8. /\ log[n.id].at \in Nat /\ log[n.id].at <= a - 1
        /\ n.snapshot = LiveAfter(log[n.id].at)
        /\ \A o \in older : log[o.id].at <= log[n.id].at
    BY <1>4, <2>6, <2>7
  <2>9. LiveAfter(log[n.id].at) = LiveAfter(a - 1)
    <3>1. PICK b \in Nat : b = log[n.id].at
      BY <2>8
    <3>2. ASSUME NEW i \in DOMAIN log, Installs(i)
          PROVE  log[i].at <= b <=> log[i].at <= a - 1
      <4>1. log[i].at \in Nat /\ b <= a - 1
        BY <1>0, <2>8, <3>1, EventIn
      <4>2. log[i].at <= b => log[i].at <= a - 1
        BY <4>1
      <4>3. ASSUME log[i].at <= a - 1 PROVE log[i].at <= b
        <5>1. PICK o \in older : o.id = i
          <6> HIDE DEF older
          <6> QED BY <1>3, <3>2, <4>3
        <5> HIDE DEF older
        <5> QED BY <2>8, <3>1, <5>1
      <4> QED BY <4>2, <4>3
    <3> QED BY <3>1, <3>2, LiveSame
  <2>10. findPrevSnapshot(r) = n.snapshot
    BY <1>2, <1>6, <2>7, Zenon
  <2> QED BY <1>1, <2>8, <2>9, <2>10
<1> QED BY <1>5, <1>6

(* What the history page shows is what happened on the chain, for any      *)
(* submissions, any number of overlapping callbacks, and whichever of them *)
(* throw or are cut off by a crash.                                        *)
THEOREM HistoryIsTrue == ConsoleSpec => []HistoryMatchesChain
<1>1. HistoryInv /\ [ConsoleNext]_consoleVars => HistoryInv'
  <2>1. ASSUME HistoryInv, IndexerNext
        PROVE  HistoryInv'
    BY <2>1, OnBlockStep, InsertRowStep, InsertBareStep, InsertFailsStep, FinishRowsStep,
       SaveCheckpointStep, FallsStep, Zenon DEF IndexerNext
  <2> QED BY <2>1, ContractStep, EditorStep, ConsoleStutter, Zenon DEF ConsoleNext
<1>2. HistoryInv => HistoryMatchesChain
  <2> SUFFICES ASSUME HistoryInv, NEW r \in rows, r.snapshot # {}
               PROVE  /\ r.snapshot = IF Installs(r.id) THEN LiveAfter(log[r.id].at)
                                                        ELSE log[r.id].config
                      /\ log[r.id].at <= checkpoint /\ lost = {} =>
                           findPrevSnapshot(r) = LiveAfter(log[r.id].at - 1)
    BY Zenon DEF HistoryMatchesChain
  <2>1. r.snapshot = SnapshotOf(r.id)
    BY Zenon DEF HistoryInv, RowsTrue
  <2> QED BY <2>1, PreviousIsLive, Zenon DEF SnapshotOf
<1> QED BY <1>1, <1>2, HistoryInit, PTL DEF ConsoleSpec
-----------------------------------------------------------------------------
(* The running concatenations of the rows of a table, up to row n.         *)
Joined(G, table, n) == G = [i \in 1..n |-> IF i = 1 THEN table[i] ELSE G[i-1] \o table[i]]

LEMMA JoinedExists ==
  ASSUME NEW table, NEW n \in Nat
  PROVE  \E G : Joined(G, table, n)
<1> DEFINE Bad == {m \in Nat : ~ \E G : Joined(G, table, m)}
<1>1. SUFFICES ASSUME Bad # {} PROVE FALSE
  OBVIOUS
<1>2. PICK m \in Bad : \A k \in Bad : m <= k
  <2>1. Bad \subseteq Nat
    OBVIOUS
  <2> HIDE DEF Bad
  <2> QED BY <1>1, <2>1, LeastExists, Zenon
<1>3. m \in Nat /\ ~ \E G : Joined(G, table, m)
  BY <1>2, Zenon
<1>4. CASE m = 0 \/ m = 1
  <2> DEFINE G == [i \in 1..m |-> table[i]]
  <2>1. \A i \in 1..m : i = 1
    BY <1>4
  <2>2. G = [i \in 1..m |-> IF i = 1 THEN table[i] ELSE G[i-1] \o table[i]]
    BY <2>1
  <2> HIDE DEF G
  <2> QED BY <1>3, <2>2 DEF Joined
<1>5. CASE m >= 2
  <2>1. m - 1 \in Nat /\ ~(m - 1 \in Bad)
    <3>1. m - 1 \in Nat /\ ~(m <= m - 1)
      BY <1>3, <1>5
    <3> HIDE DEF Bad
    <3> QED BY <1>2, <3>1
  <2>2. PICK F : Joined(F, table, m - 1)
    BY <2>1, Zenon
  <2>r. PICK q : q = F[m-1] \o table[m]
    OBVIOUS
  <2> DEFINE G == [i \in 1..m |-> IF i = m THEN q ELSE F[i]]
  <2>3. ASSUME NEW i \in 1..m
        PROVE  G[i] = IF i = 1 THEN table[i] ELSE G[i-1] \o table[i]
    <3>1. CASE i = m
      <4>1. m # 1 /\ m - 1 \in 1..m /\ m - 1 # m
        BY <1>3, <1>5
      <4>2. G[m] = q /\ G[m-1] = F[m-1]
        BY <1>3, <4>1
      <4> QED BY <2>r, <3>1, <4>1, <4>2, Zenon
    <3>2. CASE i # m
      <4>1. i \in 1..(m - 1) /\ (i # 1 => i - 1 \in 1..m /\ i - 1 # m)
        BY <1>3, <3>2
      <4>2. F[i] = IF i = 1 THEN table[i] ELSE F[i-1] \o table[i]
        BY <2>2, <4>1, Zenon DEF Joined
      <4>3. G[i] = F[i] /\ (i # 1 => G[i-1] = F[i-1])
        BY <3>2, <4>1
      <4> QED BY <4>2, <4>3, Zenon
    <3> QED BY <3>1, <3>2
  <2>4. G = [i \in 1..m |-> G[i]]
    OBVIOUS
  <2> HIDE DEF G
  <2>5. G = [i \in 1..m |-> IF i = 1 THEN table[i] ELSE G[i-1] \o table[i]]
    BY <2>3, <2>4
  <2> QED BY <1>3, <2>5, Zenon DEF Joined
<1> QED BY <1>3, <1>4, <1>5

(* FlattenSeq of a non-empty table is the last of them.                    *)
LEMMA FlattenIs ==
  ASSUME NEW table, Len(table) \in Nat \ {0}
  PROVE  \E G : Joined(G, table, Len(table)) /\ FlattenSeq(table) = G[Len(table)]
<1> DEFINE G == CHOOSE g : g = [i \in 1..Len(table) |-> IF i = 1 THEN table[i] ELSE g[i-1] \o table[i]]
<1>0. PICK F : F = [i \in 1..Len(table) |-> IF i = 1 THEN table[i] ELSE F[i-1] \o table[i]]
  BY JoinedExists, Zenon DEF Joined
<1>1. G = [i \in 1..Len(table) |-> IF i = 1 THEN table[i] ELSE G[i-1] \o table[i]]
  BY <1>0, Zenon
<1>2. FlattenSeq(table) = G[Len(table)]
  BY Zenon DEF FlattenSeq
<1> HIDE DEF G
<1> QED BY <1>1, <1>2, Zenon DEF Joined

IsJoined(c, a, b) ==
  /\ Len(c) = Len(a) + Len(b)
  /\ \A k \in 1..Len(a) : c[k] = a[k]
  /\ \A k \in 1..Len(b) : c[Len(a) + k] = b[k]

LEMMA ConcatEntries ==
  ASSUME NEW X, NEW a \in Seq(X), NEW b \in Seq(X), NEW c, c = a \o b
  PROVE  c \in Seq(X) /\ IsJoined(c, a, b)
BY DEF IsJoined

IsRowMajor(flat, table, R) ==
  /\ Len(flat) = Len(table) * R
  /\ \A s \in 1..Len(table), r \in 1..R : flat[(s - 1) * R + r] = table[s][r]

(* Joining equally long rows gives the table in row-major order.           *)
LEMMA FlattenRows ==
  ASSUME NEW X, NEW table \in Seq(Seq(X)), NEW R \in Nat, Len(table) # 0,
         \A s \in 1..Len(table) : Len(table[s]) = R
  PROVE  FlattenSeq(table) \in Seq(X) /\ IsRowMajor(FlattenSeq(table), table, R)
<1> DEFINE n == Len(table)
<1>1. n \in Nat \ {0}
  OBVIOUS
<1>2. PICK G : Joined(G, table, n) /\ FlattenSeq(table) = G[n]
  BY <1>1, FlattenIs, Zenon
<1> DEFINE Right(i) == /\ G[i] \in Seq(X)
                       /\ Len(G[i]) = i * R
                       /\ \A s \in 1..i, r \in 1..R : G[i][(s - 1) * R + r] = table[s][r]
           Wrong == {i \in 1..n : ~Right(i)}
<1>3. \A i \in 1..n : table[i] \in Seq(X) /\ Len(table[i]) = R
  OBVIOUS
<1> HIDE DEF n
<1>4. ASSUME NEW i \in 1..n, i # 1 => Right(i - 1)
      PROVE  Right(i)
  <2>1. CASE i = 1
    <3>1. G[1] = table[1]
      BY <1>2, <2>1, Zenon DEF Joined
    <3>2. 1 * R = R /\ \A s \in 1..1 : s = 1 /\ \A r \in 1..R : (s - 1) * R + r = r
      OBVIOUS
    <3> QED BY <1>3, <2>1, <3>1, <3>2
  <2>2. CASE i # 1
    <3>0. i \in Nat /\ i - 1 \in Nat
      BY <1>1, <2>2
    <3>1. G[i] = G[i-1] \o table[i]
      BY <1>2, <2>2, Zenon DEF Joined
    <3>2. PICK a, b : a = G[i-1] /\ b = table[i]
      OBVIOUS
    <3>3. /\ a \in Seq(X) /\ b \in Seq(X) /\ Len(b) = R /\ Len(a) = (i - 1) * R
          /\ \A s \in 1..(i - 1), r \in 1..R : a[(s - 1) * R + r] = table[s][r]
      BY <1>3, <1>4, <2>2, <3>2, Zenon
    <3>4. G[i] = a \o b
      BY <3>1, <3>2, Zenon
    <3>5. (i - 1) * R \in Nat /\ i * R = (i - 1) * R + R
      <4>1. i * R = (i - 1) * R + R
        BY <3>0
      <4>2. \A x, y \in Nat : x * y \in Nat
        OBVIOUS
      <4> QED BY <3>0, <4>1, <4>2
    <3>6. PICK m \in Nat : m = (i - 1) * R
      BY <3>5
    <3>7. /\ a \o b \in Seq(X) /\ Len(a \o b) = m + R
          /\ \A k \in 1..m : (a \o b)[k] = a[k]
          /\ \A k \in 1..R : (a \o b)[m + k] = b[k]
      <4>1. Len(a) = m /\ Len(b) = R /\ a \in Seq(X) /\ b \in Seq(X)
        BY <3>3, <3>6
      <4>2. PICK c : c = a \o b
        OBVIOUS
      <4>3. c \in Seq(X) /\ IsJoined(c, a, b)
        BY <4>1, <4>2, ConcatEntries, Zenon
      <4>4. /\ c \in Seq(X) /\ Len(c) = m + R
            /\ \A k \in 1..m : c[k] = a[k]
            /\ \A k \in 1..R : c[m + k] = b[k]
        BY <4>1, <4>3, Zenon DEF IsJoined
      <4> QED BY <4>2, <4>4, Zenon
    <3>8. ASSUME NEW s \in 1..i, NEW r \in 1..R
          PROVE  (a \o b)[(s - 1) * R + r] = table[s][r]
      <4>1. CASE s = i
        BY <3>2, <3>6, <3>7, <4>1, Zenon
      <4>2. CASE s # i
        <5>1. s \in 1..(i - 1)
          BY <3>0, <4>2
        <5>2. (s - 1) * R + r \in 1..m
          BY <3>0, <3>6, <5>1, RowInTable, Zenon
        <5> QED BY <3>3, <3>7, <5>1, <5>2, Zenon
      <4> QED BY <4>1, <4>2
    <3> QED BY <3>4, <3>5, <3>6, <3>7, <3>8, Zenon
  <2> QED BY <2>1, <2>2
<1> HIDE DEF Right
<1>5. Wrong = {}
  <2> SUFFICES ASSUME Wrong # {} PROVE FALSE
    OBVIOUS
  <2>1. PICK i \in Wrong : \A j \in Wrong : i <= j
    <3>1. Wrong \subseteq Nat
      BY <1>1
    <3> HIDE DEF Wrong
    <3> QED BY <3>1, LeastExists, Zenon
  <2>2. i \in 1..n /\ ~Right(i)
    BY <2>1, Zenon
  <2>3. i # 1 => i - 1 \in 1..n /\ ~(i <= i - 1)
    BY <1>1, <2>2
  <2>4. i # 1 => Right(i - 1)
    BY <2>1, <2>3, Zenon
  <2> QED BY <1>4, <2>2, <2>4, Zenon
<1>6. Right(n)
  <2>1. n \in 1..n
    BY <1>1
  <2> QED BY <1>5, <2>1, Zenon
<1> QED BY <1>2, <1>6, Zenon DEF Right, n, IsRowMajor

(* A form made from a configuration holds its rows and, for the rest, its  *)
(* fields.                                                                 *)
LEMMA MirrorFields ==
  ASSUME NEW cfg \in StakeConfig, NEW fm, fm = toForm(cfg)
  PROVE  /\ fm.sizeThresholds = cfg.sizeThresholds /\ fm.collateralRate = cfg.collateralRate
         /\ fm.timeThresholds = cfg.timeThresholds /\ fm.timeMult = cfg.timeMult
         /\ fm.ratioThresholds = cfg.ratioThresholds /\ fm.minCollateral = cfg.minCollateral
         /\ fm.refundTable = [s \in 1..Len(cfg.collateralRate) |-> RefundRow(cfg, s)]
         /\ DOMAIN fm.refundTable = 1..Len(cfg.collateralRate)
         /\ \A s \in 1..Len(cfg.collateralRate) : fm.refundTable[s] = RefundRow(cfg, s)
<1> DEFINE T == [s \in 1..Len(cfg.collateralRate) |-> RefundRow(cfg, s)]
<1>1. PICK t : t = T
  OBVIOUS
<1>2. fm = [cfg EXCEPT !.refundTable = t]
  BY <1>1, Zenon DEF toForm
<1> HIDE DEF T
<1>3. /\ fm.sizeThresholds = cfg.sizeThresholds /\ fm.collateralRate = cfg.collateralRate
      /\ fm.timeThresholds = cfg.timeThresholds /\ fm.timeMult = cfg.timeMult
      /\ fm.ratioThresholds = cfg.ratioThresholds /\ fm.minCollateral = cfg.minCollateral
      /\ fm.refundTable = t
  BY <1>2 DEF StakeConfig
<1>4. /\ T = [s \in 1..Len(cfg.collateralRate) |-> RefundRow(cfg, s)]
      /\ DOMAIN T = 1..Len(cfg.collateralRate)
      /\ \A s \in 1..Len(cfg.collateralRate) : T[s] = RefundRow(cfg, s)
  BY Zenon DEF T
<1> QED BY <1>1, <1>3, <1>4, Zenon

LEMMA RowLength ==
  ASSUME NEW cfg \in StakeConfig, NEW s
  PROVE  /\ Len(RefundRow(cfg, s)) = NumRatioBuckets(cfg)
         /\ NumRatioBuckets(cfg) = Len(cfg.ratioThresholds) + 1
         /\ Len(cfg.ratioThresholds) \in Nat
<1>1. Len(cfg.ratioThresholds) \in Nat
  BY DEF StakeConfig
<1>2. NumRatioBuckets(cfg) \in Nat
  BY <1>1 DEF NumRatioBuckets
<1>3. DOMAIN RefundRow(cfg, s) = 1..NumRatioBuckets(cfg)
  BY DEF RefundRow
<1>4. Len(RefundRow(cfg, s)) = NumRatioBuckets(cfg)
  <2>1. PICK n \in Nat : n = NumRatioBuckets(cfg)
    BY <1>2
  <2>2. ASSUME NEW q, q = [r \in 1..n |-> cfg.refundTable[(s - 1) * n + r]]
        PROVE  Len(q) = n
    BY <2>2
  <2> QED BY <2>1, <2>2, Zenon DEF RefundRow
<1> QED BY <1>1, <1>4 DEF NumRatioBuckets

(* The page looks for the last entry below the whole stake from the end of *)
(* the row, the contract keeps the last it passes.                         *)
LEMMA LastNotWholeIs ==
  ASSUME NEW cfg \in StakeConfig, NEW s, NEW row, row = RefundRow(cfg, s)
  PROVE  /\ Penalised(cfg, s) = {} => LastNotWhole(row) = 0
         /\ Penalised(cfg, s) # {} =>
              LastNotWhole(row) = LastPenalised(cfg, s) /\ LastNotWhole(row) # 0
<1> DEFINE P == Penalised(cfg, s)
<1>1. P = {k \in 1..(Len(row) - 1) : row[k] < BPS}
  BY RowLength, Zenon DEF Penalised
<1>2. P \subseteq Nat \ {0}
  <2>1. Len(row) - 1 \in Nat
    BY RowLength
  <2> HIDE DEF P
  <2> QED BY <1>1, <2>1
<1>3. LastNotWhole(row) = CHOOSE x \in P \cup {0} : \A y \in P \cup {0} : x >= y
  BY <1>1, Zenon DEF LastNotWhole, Max
<1> HIDE DEF P
<1>4. CASE P = {}
  BY <1>3, <1>4 DEF P
<1>5. CASE P # {}
  <2>1. LastPenalised(cfg, s) \in P /\ \A r \in P : r <= LastPenalised(cfg, s)
    BY <1>5, LastPenalisedIn, Zenon DEF P
  <2>2. PICK x \in P : x = LastPenalised(cfg, s) /\ \A r \in P : r <= x
    BY <2>1, Zenon
  <2>3. x \in P \cup {0} /\ x # 0 /\ \A y \in P \cup {0} : x >= y
    BY <1>2, <2>2
  <2>4. \A z \in P \cup {0} : (\A y \in P \cup {0} : z >= y) => z = x
    BY <1>2, <2>3
  <2>5. (CHOOSE z \in P \cup {0} : \A y \in P \cup {0} : z >= y) = x
    BY <2>3, <2>4, Zenon
  <2> QED BY <1>3, <1>5, <2>2, <2>3, <2>5, Zenon DEF P
<1> QED BY <1>4, <1>5

(* So both find the same worst case.                                       *)
LEMMA KappaAgrees ==
  ASSUME NEW cfg \in StakeConfig, NEW fm, fm = toForm(cfg)
  PROVE  worstCaseKappaForm(fm) = worstCaseKappaBps(cfg)
<1> DEFINE S == 1..Len(cfg.collateralRate)
           T == 1..Len(cfg.timeMult)
           L(s) == LastNotWhole(RefundRow(cfg, s))
           E(s) == cfg.ratioThresholds[L(s)]
           K(s, t) == mulDiv(mulDiv(cfg.collateralRate[s], cfg.timeMult[t], BPS),
                             BPS - RefundRow(cfg, s)[L(s)], E(s))
<1>1. /\ fm.collateralRate = cfg.collateralRate /\ fm.timeMult = cfg.timeMult
      /\ fm.ratioThresholds = cfg.ratioThresholds
      /\ \A s \in S : fm.refundTable[s] = RefundRow(cfg, s)
  BY MirrorFields
<1> DEFINE FE(s) == fm.ratioThresholds[LastNotWhole(fm.refundTable[s])]
           FK(s, t) == mulDiv(mulDiv(fm.collateralRate[s], fm.timeMult[t], BPS),
                              BPS - fm.refundTable[s][LastNotWhole(fm.refundTable[s])], FE(s))
           FX == (1..Len(fm.collateralRate)) \X (1..Len(fm.timeMult))
<1>2. worstCaseKappaForm(fm)
        = IF \E s \in 1..Len(fm.collateralRate) : LastNotWhole(fm.refundTable[s]) = 0 \/ FE(s) = 0
            THEN 0
            ELSE Min({FK(k[1], k[2]) : k \in FX})
  BY Zenon DEF worstCaseKappaForm
<1>3. \A s \in S : /\ LastNotWhole(fm.refundTable[s]) = L(s) /\ FE(s) = E(s)
                   /\ \A t \in T : FK(s, t) = K(s, t)
  BY <1>1, Zenon
<1>4. \A s \in S : /\ (L(s) = 0 \/ E(s) = 0) <=> (Penalised(cfg, s) = {} \/ LastEdge(cfg, s) = 0)
                   /\ ~(L(s) = 0 \/ E(s) = 0) => \A t \in T : K(s, t) = KappaAt(cfg, s, t)
  BY LastNotWholeIs, Zenon DEF LastEdge, KappaAt
<1> HIDE DEF FE, FK, L, E, K
<1>5. CASE \E s \in S : Penalised(cfg, s) = {} \/ LastEdge(cfg, s) = 0
  <2>1. worstCaseKappaBps(cfg) = 0
    BY <1>5, Zenon DEF worstCaseKappaBps
  <2>2. \E s \in 1..Len(fm.collateralRate) : LastNotWhole(fm.refundTable[s]) = 0 \/ FE(s) = 0
    BY <1>1, <1>3, <1>4, <1>5, Zenon
  <2> QED BY <1>2, <2>1, <2>2, Zenon
<1>6. CASE ~ \E s \in S : Penalised(cfg, s) = {} \/ LastEdge(cfg, s) = 0
  <2>1. worstCaseKappaBps(cfg) = CHOOSE k \in Kappas(cfg) : \A other \in Kappas(cfg) : k <= other
    BY <1>6, Zenon DEF worstCaseKappaBps
  <2>2. ~ \E s \in 1..Len(fm.collateralRate) : LastNotWhole(fm.refundTable[s]) = 0 \/ FE(s) = 0
    BY <1>1, <1>3, <1>4, <1>6, Zenon
  <2>3. \A s \in S, t \in T : FK(s, t) = KappaAt(cfg, s, t)
    BY <1>3, <1>4, <1>6, Zenon
  <2> DEFINE X == S \X T
  <2>4. FX = X
    BY <1>1, Zenon
  <2>5. \A k \in X : k[1] \in S /\ k[2] \in T
    <3> HIDE DEF S, T
    <3> QED OBVIOUS
  <2>6. Kappas(cfg) = {KappaAt(cfg, k[1], k[2]) : k \in X}
    BY Zenon DEF Kappas
  <2> HIDE DEF S, T, X, FX
  <2>7. \A k \in X : FK(k[1], k[2]) = KappaAt(cfg, k[1], k[2])
    BY <2>3, <2>5, Zenon
  <2>8. Kappas(cfg) = {FK(k[1], k[2]) : k \in FX}
    BY <2>4, <2>6, <2>7
  <2> QED BY <1>2, <2>1, <2>2, <2>8, Zenon DEF Min
<1> QED BY <1>5, <1>6

LEMMA NumbersAre ==
  ASSUME NEW q \in Seq(Cell)
  PROVE  /\ Numbers(q) \in Seq(Nat) /\ Len(Numbers(q)) = Len(q)
         /\ \A i \in 1..Len(q) : Numbers(q)[i] = Number(q[i])
         /\ Blank \notin Range(q) => Numbers(q) = q
<1> DEFINE n == Len(q)
<1>1. n \in Nat /\ q = [i \in 1..n |-> q[i]] /\ \A i \in 1..n : q[i] \in Cell
  OBVIOUS
<1>2. \A v \in Cell : Number(v) \in Nat /\ (v # Blank => Number(v) = v)
  BY DEF Cell, Number
<1>3. Numbers(q) = [i \in 1..n |-> Number(q[i])]
  BY DEF Numbers
<1>4. PICK w : w = [i \in 1..n |-> Number(q[i])]
  OBVIOUS
<1>5. \A i \in 1..n : w[i] = Number(q[i]) /\ w[i] \in Nat
  BY <1>1, <1>2, <1>4
<1>6. w \in Seq(Nat) /\ Len(w) = n
  <2>1. w \in [1..n -> Nat]
    BY <1>4, <1>5
  <2> HIDE DEF n
  <2> QED BY <1>1, <2>1
<1>7. ASSUME Blank \notin Range(q)
      PROVE  w = q
  <2>1. \A i \in 1..n : q[i] # Blank
    BY <1>1, <1>7 DEF Range
  <2>2. \A i \in 1..n : Number(q[i]) = q[i]
    BY <1>1, <1>2, <2>1, Zenon
  <2> HIDE DEF n
  <2> QED BY <1>1, <1>4, <2>2
<1> QED BY <1>3, <1>4, <1>5, <1>6, <1>7, Zenon

LEMMA TupleFields ==
  ASSUME NEW fm \in Forms, NEW cfg, cfg = toTuple(fm)
  PROVE  /\ cfg.sizeThresholds = Numbers(fm.sizeThresholds)
         /\ cfg.collateralRate = Numbers(fm.collateralRate)
         /\ cfg.timeThresholds = Numbers(fm.timeThresholds)
         /\ cfg.timeMult = Numbers(fm.timeMult)
         /\ cfg.ratioThresholds = Numbers(fm.ratioThresholds)
         /\ cfg.refundTable = Numbers(FlattenSeq(fm.refundTable))
         /\ cfg.minCollateral = fm.minCollateral
         /\ cfg = [ sizeThresholds |-> cfg.sizeThresholds, collateralRate |-> cfg.collateralRate,
                    timeThresholds |-> cfg.timeThresholds, timeMult |-> cfg.timeMult,
                    ratioThresholds |-> cfg.ratioThresholds, refundTable |-> cfg.refundTable,
                    minCollateral |-> cfg.minCollateral ]
<1>1. PICK a, b, c, d, e, f :
        /\ a = Numbers(fm.sizeThresholds) /\ b = Numbers(fm.collateralRate)
        /\ c = Numbers(fm.timeThresholds) /\ d = Numbers(fm.timeMult)
        /\ e = Numbers(fm.ratioThresholds) /\ f = Numbers(FlattenSeq(fm.refundTable))
  OBVIOUS
<1>2. cfg = [fm EXCEPT !.sizeThresholds = a, !.collateralRate = b, !.timeThresholds = c,
                       !.timeMult = d, !.ratioThresholds = e, !.refundTable = f]
  BY <1>1, Zenon DEF toTuple
<1>3. /\ cfg.sizeThresholds = a /\ cfg.collateralRate = b /\ cfg.timeThresholds = c
      /\ cfg.timeMult = d /\ cfg.ratioThresholds = e /\ cfg.refundTable = f
      /\ cfg.minCollateral = fm.minCollateral
      /\ cfg = [ sizeThresholds |-> a, collateralRate |-> b, timeThresholds |-> c,
                 timeMult |-> d, ratioThresholds |-> e, refundTable |-> f,
                 minCollateral |-> fm.minCollateral ]
  BY <1>2 DEF Forms
<1> QED BY <1>1, <1>3, Zenon

(* What is sent of a form that kept its shape is a configuration, whose    *)
(* A sequence is the function of its entries.                              *)
LEMMA Entries ==
  ASSUME NEW S, NEW q \in Seq(S)
  PROVE  /\ Len(q) \in Nat /\ DOMAIN q = 1..Len(q)
         /\ q = [i \in 1..Len(q) |-> q[i]]
         /\ \A i \in 1..Len(q) : q[i] \in S
OBVIOUS

(* A form with C size buckets and R ratio buckets.                         *)
Sized(fm, C, R) ==
  /\ Len(fm.sizeThresholds) + 1 = C
  /\ Len(fm.timeThresholds) + 1 = Len(fm.timeMult)
  /\ Len(fm.refundTable) = C /\ C \in Nat \ {0} /\ R \in Nat
  /\ DOMAIN fm.refundTable = 1..C
  /\ \A s \in 1..C : fm.refundTable[s] \in Seq(Cell) /\ Len(fm.refundTable[s]) = R

(* The lists of an aligned form are as long as its tables are.             *)
LEMMA FormSizes ==
  ASSUME NEW fm \in Forms, Aligned(fm)
  PROVE  Sized(fm, Len(fm.collateralRate), Len(fm.ratioThresholds) + 1)
<1> DEFINE C == Len(fm.collateralRate)
           R == Len(fm.ratioThresholds) + 1
<1>1. /\ fm.sizeThresholds \in Seq(Cell) /\ fm.collateralRate \in Seq(Cell)
      /\ fm.timeThresholds \in Seq(Cell) /\ fm.timeMult \in Seq(Cell)
      /\ fm.ratioThresholds \in Seq(Cell) /\ fm.refundTable \in Seq(Seq(Cell))
  BY DEF Forms
<1>2. PICK a, b, c, d, e :
        /\ a = Len(fm.sizeThresholds) /\ b = Len(fm.timeThresholds)
        /\ c = Len(fm.timeMult) /\ d = Len(fm.ratioThresholds)
        /\ e = Len(fm.refundTable)
  BY Zenon
<1>3. a \in Nat /\ b \in Nat /\ c \in Nat /\ d \in Nat /\ C \in Nat
  BY <1>1, <1>2, Entries, Zenon
<1>4. a = C - 1 /\ b = c - 1 /\ e = C /\ R = d + 1
  BY <1>2, Zenon DEF Aligned
<1>5. a + 1 = C /\ b + 1 = c /\ C \in Nat \ {0} /\ R \in Nat
  BY <1>3, <1>4
<1>6. /\ DOMAIN fm.refundTable = 1..C
      /\ \A s \in 1..C : fm.refundTable[s] \in Seq(Cell)
  BY <1>1, <1>2, <1>4, Entries, Zenon
<1>7. \A s \in 1..C : Len(fm.refundTable[s]) = R
  BY <1>6, Zenon DEF Aligned
<1> QED BY <1>2, <1>4, <1>5, <1>6, <1>7, Zenon DEF Sized

(* table holds the rows of the form.                                       *)
LEMMA TupleIs ==
  ASSUME NEW fm \in Forms, Aligned(fm), NEW cfg, cfg = toTuple(fm)
  PROVE  /\ cfg \in StakeConfig /\ WellShaped(cfg)
         /\ Len(cfg.collateralRate) = Len(fm.collateralRate)
         /\ Len(cfg.ratioThresholds) = Len(fm.ratioThresholds)
         /\ \A s \in 1..Len(fm.collateralRate), r \in 1..NumRatioBuckets(cfg) :
              RefundRow(cfg, s)[r] = Number(fm.refundTable[s][r])
<1> DEFINE C == Len(fm.collateralRate)
           R == Len(fm.ratioThresholds) + 1
<1>1. /\ fm.sizeThresholds \in Seq(Cell) /\ fm.collateralRate \in Seq(Cell)
      /\ fm.timeThresholds \in Seq(Cell) /\ fm.timeMult \in Seq(Cell)
      /\ fm.ratioThresholds \in Seq(Cell) /\ fm.refundTable \in Seq(Seq(Cell))
      /\ fm.minCollateral \in Nat
  BY DEF Forms
<1>2. /\ Len(fm.sizeThresholds) + 1 = Len(fm.collateralRate)
      /\ Len(fm.timeThresholds) + 1 = Len(fm.timeMult)
      /\ Len(fm.refundTable) = C /\ C \in Nat \ {0} /\ R \in Nat
      /\ DOMAIN fm.refundTable = 1..C
      /\ \A s \in 1..C : Len(fm.refundTable[s]) = R
  <2>1. Sized(fm, C, R)
    BY FormSizes, Zenon
  <2> HIDE DEF C, R
  <2> QED BY <2>1, Zenon DEF Sized, C
<1>3. PICK flat : flat = FlattenSeq(fm.refundTable)
  OBVIOUS
<1> HIDE DEF C, R
<1>4. /\ flat \in Seq(Cell) /\ Len(flat) = C * R
      /\ \A s \in 1..C, r \in 1..R : flat[(s - 1) * R + r] = fm.refundTable[s][r]
  <2>1. Len(fm.refundTable) # 0
    BY <1>2
  <2>2. PICK table \in Seq(Seq(Cell)) : table = fm.refundTable
    BY <1>1, Zenon
  <2>3. Len(table) # 0 /\ \A s \in 1..Len(table) : Len(table[s]) = R
    BY <1>2, <2>1, <2>2, Zenon
  <2>4. flat \in Seq(Cell) /\ IsRowMajor(flat, table, R)
    BY <1>2, <1>3, <2>2, <2>3, FlattenRows, Zenon
  <2> QED BY <1>2, <2>2, <2>4, Zenon DEF IsRowMajor
<1>5. /\ cfg.sizeThresholds = Numbers(fm.sizeThresholds)
      /\ cfg.collateralRate = Numbers(fm.collateralRate)
      /\ cfg.timeThresholds = Numbers(fm.timeThresholds)
      /\ cfg.timeMult = Numbers(fm.timeMult)
      /\ cfg.ratioThresholds = Numbers(fm.ratioThresholds)
      /\ cfg.refundTable = Numbers(flat)
      /\ cfg.minCollateral = fm.minCollateral
  BY <1>3, TupleFields, Zenon
<1>6. /\ cfg.sizeThresholds \in Seq(Nat) /\ Len(cfg.sizeThresholds) = Len(fm.sizeThresholds)
      /\ cfg.collateralRate \in Seq(Nat) /\ Len(cfg.collateralRate) = C
      /\ cfg.timeThresholds \in Seq(Nat) /\ Len(cfg.timeThresholds) = Len(fm.timeThresholds)
      /\ cfg.timeMult \in Seq(Nat) /\ Len(cfg.timeMult) = Len(fm.timeMult)
      /\ cfg.ratioThresholds \in Seq(Nat)
      /\ Len(cfg.ratioThresholds) = Len(fm.ratioThresholds)
      /\ cfg.refundTable \in Seq(Nat) /\ Len(cfg.refundTable) = C * R
  BY <1>1, <1>4, <1>5, NumbersAre, Zenon DEF C
<1>7. cfg \in StakeConfig
  <2>1. cfg = [ sizeThresholds |-> cfg.sizeThresholds, collateralRate |-> cfg.collateralRate,
                timeThresholds |-> cfg.timeThresholds, timeMult |-> cfg.timeMult,
                ratioThresholds |-> cfg.ratioThresholds, refundTable |-> cfg.refundTable,
                minCollateral |-> cfg.minCollateral ]
    BY TupleFields, Zenon
  <2>2. cfg.minCollateral \in Nat
    BY <1>1, <1>5, Zenon
  <2> QED BY <1>6, <2>1, <2>2, Zenon DEF StakeConfig
<1>8. NumRatioBuckets(cfg) = R
  BY <1>6, Zenon DEF NumRatioBuckets, R
<1>9. WellShaped(cfg)
  BY <1>2, <1>6, <1>8, Zenon DEF WellShaped, C
<1>10. ASSUME NEW s \in 1..C, NEW r \in 1..R
       PROVE  RefundRow(cfg, s)[r] = Number(fm.refundTable[s][r])
  <2>1. RefundRow(cfg, s)[r] = cfg.refundTable[(s - 1) * R + r]
    BY <1>8, Zenon DEF RefundRow
  <2>2. (s - 1) * R + r \in 1..Len(flat)
    <3>1. C \in Nat
      BY <1>2
    <3> QED BY <1>2, <1>4, <3>1, RowInTable, Zenon
  <2>3. cfg.refundTable[(s - 1) * R + r] = Number(flat[(s - 1) * R + r])
    BY <1>4, <1>5, <2>2, NumbersAre, Zenon
  <2> QED BY <1>4, <2>1, <2>3, Zenon
<1> QED BY <1>6, <1>7, <1>8, <1>9, <1>10, Zenon DEF C

(* Read back, it is the form, unless there are blanks.                     *)
LEMMA RoundTrip ==
  ASSUME NEW fm \in Forms, Aligned(fm), ~HasBlank(fm), NEW cfg, cfg = toTuple(fm)
  PROVE  fm = toForm(cfg)
<1> DEFINE C == Len(fm.collateralRate)
           R == Len(fm.ratioThresholds) + 1
<1>1. /\ fm.sizeThresholds \in Seq(Cell) /\ fm.collateralRate \in Seq(Cell)
      /\ fm.timeThresholds \in Seq(Cell) /\ fm.timeMult \in Seq(Cell)
      /\ fm.ratioThresholds \in Seq(Cell) /\ fm.refundTable \in Seq(Seq(Cell))
  BY DEF Forms
<1>2. /\ C \in Nat /\ R \in Nat
      /\ Len(fm.refundTable) = C /\ DOMAIN fm.refundTable = 1..C
      /\ fm.refundTable = [s \in 1..C |-> fm.refundTable[s]]
      /\ \A s \in 1..C : /\ fm.refundTable[s] \in Seq(Cell)
                         /\ Len(fm.refundTable[s]) = R
                         /\ fm.refundTable[s] = [r \in 1..R |-> fm.refundTable[s][r]]
                         /\ \A r \in 1..R : fm.refundTable[s][r] \in Cell
  <2>1. /\ Len(fm.refundTable) = C /\ C \in Nat \ {0} /\ R \in Nat
        /\ DOMAIN fm.refundTable = 1..C
        /\ \A s \in 1..C : fm.refundTable[s] \in Seq(Cell) /\ Len(fm.refundTable[s]) = R
    <3>1. Sized(fm, C, R)
      BY FormSizes, Zenon
    <3> HIDE DEF C, R
    <3> QED BY <3>1, Zenon DEF Sized
  <2> HIDE DEF C, R
  <2>2. C \in Nat
    BY <2>1
  <2>3. fm.refundTable = [s \in 1..C |-> fm.refundTable[s]]
    BY <1>1, <2>1, Entries, Zenon
  <2>4. \A s \in 1..C : /\ fm.refundTable[s] = [r \in 1..R |-> fm.refundTable[s][r]]
                         /\ \A r \in 1..R : fm.refundTable[s][r] \in Cell
    <3> TAKE s \in 1..C
    <3>1. PICK row \in Seq(Cell) : row = fm.refundTable[s] /\ Len(row) = R
      BY <2>1, Zenon
    <3>2. row = [r \in 1..R |-> row[r]] /\ \A r \in 1..R : row[r] \in Cell
      BY <3>1
    <3> QED BY <3>1, <3>2, Zenon
  <2> QED BY <2>1, <2>2, <2>3, <2>4, Zenon
<1>3. /\ cfg.sizeThresholds = fm.sizeThresholds /\ cfg.collateralRate = fm.collateralRate
      /\ cfg.timeThresholds = fm.timeThresholds /\ cfg.timeMult = fm.timeMult
      /\ cfg.ratioThresholds = fm.ratioThresholds
      /\ cfg.minCollateral = fm.minCollateral
  <2>1. /\ Blank \notin Range(fm.sizeThresholds) /\ Blank \notin Range(fm.collateralRate)
        /\ Blank \notin Range(fm.timeThresholds) /\ Blank \notin Range(fm.timeMult)
        /\ Blank \notin Range(fm.ratioThresholds)
    BY Zenon DEF HasBlank, Lists
  <2>2. /\ cfg.sizeThresholds = Numbers(fm.sizeThresholds)
        /\ cfg.collateralRate = Numbers(fm.collateralRate)
        /\ cfg.timeThresholds = Numbers(fm.timeThresholds)
        /\ cfg.timeMult = Numbers(fm.timeMult)
        /\ cfg.ratioThresholds = Numbers(fm.ratioThresholds)
        /\ cfg.minCollateral = fm.minCollateral
    BY TupleFields, Zenon
  <2>3. \A q \in Seq(Cell) : Blank \notin Range(q) => Numbers(q) = q
    BY NumbersAre, Zenon
  <2> QED BY <1>1, <2>1, <2>2, <2>3, Zenon
<1>4. NumRatioBuckets(cfg) = R
  BY <1>3, Zenon DEF NumRatioBuckets
<1>5. ASSUME NEW s \in 1..C
      PROVE  RefundRow(cfg, s) = fm.refundTable[s]
  <2>1. PICK row : row = fm.refundTable[s]
    OBVIOUS
  <2>2. /\ row = [r \in 1..R |-> row[r]] /\ row \in Seq(Cell) /\ Len(row) = R
        /\ \A r \in 1..R : row[r] \in Cell
    BY <1>2, <2>1, Zenon
  <2>3. Blank \notin Range(row)
    BY <1>2, <2>1, Zenon DEF HasBlank
  <2> HIDE DEF R, C
  <2>4. \A r \in 1..R : row[r] # Blank /\ Number(row[r]) = row[r]
    <3>1. DOMAIN row = 1..R
      BY <2>2
    <3> QED BY <2>3, <3>1 DEF Range, Number
  <2>5. \A r \in 1..R : RefundRow(cfg, s)[r] = row[r]
    <3> TAKE r \in 1..R
    <3>1. RefundRow(cfg, s)[r] = Number(fm.refundTable[s][r])
      BY <1>4, TupleIs, Zenon DEF C
    <3> QED BY <2>1, <2>4, <3>1, Zenon
  <2>6. RefundRow(cfg, s) = [r \in 1..R |-> RefundRow(cfg, s)[r]]
    BY <1>4 DEF RefundRow
  <2>7. PICK other : other = RefundRow(cfg, s)
    OBVIOUS
  <2>8. other = [r \in 1..R |-> other[r]] /\ \A r \in 1..R : other[r] = row[r]
    BY <2>5, <2>6, <2>7, Zenon
  <2>9. other = row
    BY <2>2, <2>8
  <2> QED BY <2>1, <2>7, <2>9, Zenon
<1>6. PICK t : t = [s \in 1..Len(cfg.collateralRate) |-> RefundRow(cfg, s)]
  OBVIOUS
<1>7. t = fm.refundTable
  <2>1. t = [s \in 1..C |-> RefundRow(cfg, s)]
    BY <1>3, <1>6, Zenon
  <2> HIDE DEF C
  <2>2. \A s \in 1..C : t[s] = RefundRow(cfg, s)
    BY <2>1, Zenon
  <2>3. t = [s \in 1..C |-> t[s]] /\ \A s \in 1..C : t[s] = fm.refundTable[s]
    BY <2>1, <2>2, <1>5, Zenon
  <2>4. PICK q : q = fm.refundTable
    OBVIOUS
  <2>5. q = [s \in 1..C |-> q[s]] /\ \A s \in 1..C : t[s] = q[s]
    BY <1>2, <2>3, <2>4, Zenon
  <2>6. t = q
    BY <2>3, <2>5, Zenon
  <2> QED BY <2>4, <2>6, Zenon
<1>8. toForm(cfg) = [cfg EXCEPT !.refundTable = fm.refundTable]
  BY <1>6, <1>7, Zenon DEF toForm
<1>9. cfg = [ sizeThresholds |-> cfg.sizeThresholds, collateralRate |-> cfg.collateralRate,
              timeThresholds |-> cfg.timeThresholds, timeMult |-> cfg.timeMult,
              ratioThresholds |-> cfg.ratioThresholds, refundTable |-> cfg.refundTable,
              minCollateral |-> cfg.minCollateral ]
  BY TupleFields, Zenon
<1> HIDE DEF C, R
<1>10. toForm(cfg) = [ sizeThresholds |-> fm.sizeThresholds, collateralRate |-> fm.collateralRate,
              timeThresholds |-> fm.timeThresholds, timeMult |-> fm.timeMult,
              ratioThresholds |-> fm.ratioThresholds, refundTable |-> fm.refundTable,
              minCollateral |-> fm.minCollateral ]
  BY <1>3, <1>8, <1>9
<1> QED BY <1>10 DEF Forms

LEMMA MirrorShape ==
  ASSUME NEW cfg \in StakeConfig, WellShaped(cfg), NEW fm, fm = toForm(cfg)
  PROVE  fm \in Forms /\ Aligned(fm)
<1> DEFINE C == Len(cfg.collateralRate)
           R == NumRatioBuckets(cfg)
<1>1. /\ cfg.sizeThresholds \in Seq(Nat) /\ cfg.collateralRate \in Seq(Nat)
      /\ cfg.timeThresholds \in Seq(Nat) /\ cfg.timeMult \in Seq(Nat)
      /\ cfg.ratioThresholds \in Seq(Nat) /\ cfg.minCollateral \in Nat
      /\ C \in Nat
  BY DEF StakeConfig
<1>2. \A q \in Seq(Nat) : q \in Seq(Cell)
  BY DEF Cell
<1>3. ASSUME NEW s \in 1..C
      PROVE  RefundRow(cfg, s) \in Seq(Cell) /\ Len(RefundRow(cfg, s)) = R
  <2>1. Len(RefundRow(cfg, s)) = R /\ R \in Nat
    BY RowLength
  <2>2. \A r \in 1..R : RefundRow(cfg, s)[r] \in Cell
    BY RowOfConfig DEF Cell
  <2>3. PICK row : row = RefundRow(cfg, s)
    OBVIOUS
  <2>4. row = [r \in 1..R |-> row[r]] /\ \A r \in 1..R : row[r] \in Cell
    BY <2>2, <2>3 DEF RefundRow
  <2> HIDE DEF R
  <2>5. row \in Seq(Cell)
    BY <2>1, <2>4
  <2> QED BY <2>1, <2>3, <2>5, Zenon
<1>4. PICK t : t = fm.refundTable
  OBVIOUS
<1>5. t = [s \in 1..C |-> RefundRow(cfg, s)] /\ \A s \in 1..C : t[s] = RefundRow(cfg, s)
  BY <1>4, MirrorFields, Zenon
<1>6. t \in Seq(Seq(Cell)) /\ Len(t) = C /\ DOMAIN t = 1..C
  <2>1. t = [s \in 1..C |-> t[s]] /\ \A s \in 1..C : t[s] \in Seq(Cell)
    BY <1>3, <1>5, Zenon
  <2> DEFINE X == Seq(Cell)
  <2> HIDE DEF C, X
  <2>2. t \in [1..C -> X]
    BY <2>1 DEF X
  <2> QED BY <1>1, <2>2 DEF X
<1>7. fm \in Forms
  <2>1. fm = [cfg EXCEPT !.refundTable = t]
    BY <1>5, Zenon DEF toForm
  <2> DEFINE T == Seq(Seq(Cell))
             Q == Seq(Cell)
  <2>2. t \in T
    BY <1>6
  <2>3. /\ cfg.sizeThresholds \in Q /\ cfg.collateralRate \in Q
        /\ cfg.timeThresholds \in Q /\ cfg.timeMult \in Q
        /\ cfg.ratioThresholds \in Q
    BY <1>1, <1>2
  <2>4. Forms = [ sizeThresholds  : Q, collateralRate : Q, timeThresholds  : Q, timeMult : Q,
                  ratioThresholds : Q, refundTable : T, minCollateral : Nat ]
    BY Zenon DEF Forms
  <2> HIDE DEF T, Q
  <2> QED BY <1>1, <2>1, <2>2, <2>3, <2>4 DEF StakeConfig
<1>8. Aligned(fm)
  <2>1. /\ fm.sizeThresholds = cfg.sizeThresholds /\ fm.collateralRate = cfg.collateralRate
        /\ fm.timeThresholds = cfg.timeThresholds /\ fm.timeMult = cfg.timeMult
        /\ fm.ratioThresholds = cfg.ratioThresholds
    BY MirrorFields, Zenon
  <2>2. /\ Len(cfg.sizeThresholds) = Len(cfg.collateralRate) - 1
        /\ Len(cfg.timeThresholds) = Len(cfg.timeMult) - 1
    BY <1>1 DEF WellShaped
  <2>3. R = Len(fm.ratioThresholds) + 1
    BY <2>1, Zenon DEF NumRatioBuckets
  <2>4. \A s \in DOMAIN fm.refundTable : Len(fm.refundTable[s]) = Len(fm.ratioThresholds) + 1
    <3>1. \A s \in 1..C : Len(t[s]) = R
      BY <1>3, <1>5, Zenon
    <3> HIDE DEF C, R
    <3> QED BY <1>4, <1>6, <2>3, <3>1
  <2> QED BY <1>4, <1>6, <2>1, <2>2, <2>4, Zenon DEF Aligned
<1> QED BY <1>7, <1>8

(* The rows of the page and of the contract pass the same checks.          *)
LEMMA RowsAgree ==
  ASSUME NEW cfg \in StakeConfig, WellShaped(cfg), NEW fm, fm = toForm(cfg)
  PROVE  RefundsWellFormed(cfg) <=> \A s \in DOMAIN fm.refundTable : FormRow(fm.refundTable[s])
<1> DEFINE C == Len(cfg.collateralRate)
           R == NumRatioBuckets(cfg)
<1>1. DOMAIN fm.refundTable = 1..C /\ \A s \in 1..C : fm.refundTable[s] = RefundRow(cfg, s)
  BY MirrorFields, Zenon
<1>2. ASSUME NEW s \in 1..C
      PROVE  FormRow(RefundRow(cfg, s)) <=>
               /\ \A r \in 1..R : RefundRow(cfg, s)[r] <= BPS
               /\ \A r \in 2..R : RefundRow(cfg, s)[r - 1] <= RefundRow(cfg, s)[r]
               /\ RefundRow(cfg, s)[R] = BPS
  <2>1. PICK row : row = RefundRow(cfg, s)
    OBVIOUS
  <2>2. DOMAIN row = 1..R /\ Len(row) = R /\ R \in Nat \ {0}
    BY <2>1, RowLength DEF RefundRow
  <2> HIDE DEF R
  <2>3. FormRow(row) <=> /\ \A r \in 1..R : row[r] <= BPS
                         /\ \A r \in 2..R : row[r - 1] <= row[r]
                         /\ row[R] = BPS
    <3>1. \A r \in 2..R : r \in 1..R /\ r > 1
      BY <2>2
    <3>2. \A r \in 1..R : r > 1 => r \in 2..R
      BY <2>2
    <3>3. \A a, b : a >= b <=> b <= a
      OBVIOUS
    <3> QED BY <2>2, <3>1, <3>2, <3>3, Zenon DEF FormRow
  <2> QED BY <2>1, <2>3, Zenon
<1> QED BY <1>1, <1>2, Zenon DEF RefundsWellFormed

(* What the page checks of a form made from a configuration is what the    *)
(* contract checks of the configuration.                                   *)
LEMMA ChecksAgree ==
  ASSUME NEW cfg \in StakeConfig, WellShaped(cfg), NEW fm, fm = toForm(cfg), ~HasBlank(fm)
  PROVE  /\ Sound(cfg) => validateForm(fm) /\ DryRunAccepts(cfg)
         /\ consts /\ validateForm(fm) => Sound(cfg)
<1>0. /\ MIN_COLLATERAL_RATE \in Nat /\ MAX_COLLATERAL_RATE \in Nat /\ MAX_BUCKETS \in 0..16
      /\ MIN_WORST_CASE_KAPPA_BPS \in Nat /\ MIN_WORST_CASE_KAPPA_BPS >= 1000
  BY GovernanceAssumption, ConsoleAssumption
<1>1. /\ fm.sizeThresholds = cfg.sizeThresholds /\ fm.collateralRate = cfg.collateralRate
      /\ fm.timeThresholds = cfg.timeThresholds /\ fm.timeMult = cfg.timeMult
      /\ fm.ratioThresholds = cfg.ratioThresholds
  BY MirrorFields, Zenon
<1>2. /\ cfg.sizeThresholds \in Seq(Nat) /\ cfg.collateralRate \in Seq(Nat)
      /\ cfg.timeThresholds \in Seq(Nat) /\ cfg.timeMult \in Seq(Nat)
      /\ cfg.ratioThresholds \in Seq(Nat)
  BY DEF StakeConfig
<1>3. /\ Len(cfg.collateralRate) \in Nat \ {0} /\ Len(cfg.timeMult) \in Nat \ {0}
      /\ NumRatioBuckets(cfg) \in Nat \ {0}
  <2>1. PICK c, t, a, b, r : /\ c = Len(cfg.collateralRate) /\ t = Len(cfg.timeMult)
                             /\ a = Len(cfg.sizeThresholds) /\ b = Len(cfg.timeThresholds)
                             /\ r = Len(cfg.ratioThresholds)
    BY Zenon
  <2>2. c = a + 1 /\ t = b + 1 /\ NumRatioBuckets(cfg) = r + 1
    BY <2>1, Zenon DEF WellShaped, NumRatioBuckets
  <2>3. a \in Nat /\ b \in Nat /\ r \in Nat
    BY <1>2, <2>1, Entries, Zenon
  <2>4. c \in Nat \ {0} /\ t \in Nat \ {0} /\ r + 1 \in Nat \ {0}
    BY <2>2, <2>3
  <2> QED BY <2>1, <2>2, <2>4, Zenon
<1> DEFINE Bounded == /\ Len(cfg.collateralRate) <= MAX_BUCKETS
                        /\ Len(cfg.timeMult) <= MAX_BUCKETS
                        /\ NumRatioBuckets(cfg) <= MAX_BUCKETS
<1>4. (Bounded => FormShape(fm)) /\ (consts /\ FormShape(fm) => Bounded)
  <2>1. Aligned(fm) /\ Len(fm.ratioThresholds) + 1 = NumRatioBuckets(cfg)
    BY <1>1, MirrorShape, Zenon DEF NumRatioBuckets
  <2>2. PICK maxB : maxB = IF consts THEN MAX_BUCKETS ELSE 16
    OBVIOUS
  <2>3. FormShape(fm) <=> /\ Len(cfg.collateralRate) \in 1..maxB
                          /\ Len(cfg.timeMult) \in 1..maxB
                          /\ NumRatioBuckets(cfg) \in 1..maxB
    BY <1>1, <2>1, <2>2 DEF FormShape
  <2>4. maxB \in Nat /\ MAX_BUCKETS <= maxB /\ (consts => maxB = MAX_BUCKETS)
    BY <1>0, <2>2
  <2> QED BY <1>0, <1>3, <2>3, <2>4
<1>5. WellOrdered(cfg) <=> /\ Increasing(fm.sizeThresholds) /\ Increasing(fm.ratioThresholds)
                           /\ Decreasing(fm.timeThresholds)
  BY <1>1, Zenon DEF WellOrdered
<1>6. (\A s \in DOMAIN fm.collateralRate :
         fm.collateralRate[s] \in MIN_COLLATERAL_RATE..MAX_COLLATERAL_RATE)
      <=> \A s \in 1..Len(cfg.collateralRate) :
             /\ cfg.collateralRate[s] >= MIN_COLLATERAL_RATE
             /\ cfg.collateralRate[s] <= MAX_COLLATERAL_RATE
  <2>1. PICK q \in Seq(Nat) : q = cfg.collateralRate
    BY <1>2
  <2>2. (\A s \in DOMAIN q : q[s] \in MIN_COLLATERAL_RATE..MAX_COLLATERAL_RATE)
         <=> \A s \in 1..Len(q) : q[s] >= MIN_COLLATERAL_RATE /\ q[s] <= MAX_COLLATERAL_RATE
    BY <1>0
  <2> QED BY <1>1, <2>1, <2>2, Zenon
<1>7. worstCaseKappaForm(fm) = worstCaseKappaBps(cfg)
  BY KappaAgrees, Zenon
<1>8. RefundsWellFormed(cfg) <=> \A s \in DOMAIN fm.refundTable : FormRow(fm.refundTable[s])
  BY RowsAgree, Zenon
<1>9. ASSUME Sound(cfg)
      PROVE  validateForm(fm) /\ DryRunAccepts(cfg)
  <2>1. /\ Len(cfg.collateralRate) <= MAX_BUCKETS /\ Len(cfg.timeMult) <= MAX_BUCKETS
        /\ NumRatioBuckets(cfg) <= MAX_BUCKETS
        /\ WellOrdered(cfg) /\ RefundsWellFormed(cfg)
        /\ \A s \in 1..Len(cfg.collateralRate) :
             /\ cfg.collateralRate[s] >= MIN_COLLATERAL_RATE
             /\ cfg.collateralRate[s] <= MAX_COLLATERAL_RATE
        /\ worstCaseKappaBps(cfg) >= MIN_WORST_CASE_KAPPA_BPS
    BY <1>9, Zenon DEF Sound, validate
  <2>2. validateForm(fm)
    BY <1>4, <1>5, <1>6, <1>7, <1>8, <2>1, Zenon DEF validateForm
  <2>3. worstCaseKappaBps(cfg) \in Nat
    <3>1. MIN_WORST_CASE_KAPPA_BPS \in Nat \ {0}
      BY <1>0
    <3>2. 1 \in 1..Len(cfg.collateralRate) /\ 1 \in 1..Len(cfg.timeMult)
      BY <1>3
    <3> QED BY <2>1, <3>1, <3>2, WorstCaseBounds, Zenon
  <2>4. worstCaseKappaBps(cfg) >= 1000
    <3>1. worstCaseKappaBps(cfg) >= MIN_WORST_CASE_KAPPA_BPS
      BY <2>1, Zenon
    <3>2. PICK kappa \in Nat : kappa = worstCaseKappaBps(cfg)
      BY <2>3, Zenon
    <3>3. kappa >= MIN_WORST_CASE_KAPPA_BPS
      BY <3>1, <3>2, Zenon
    <3>4. kappa >= 1000
      BY <1>0, <3>3
    <3> QED BY <3>2, <3>4
  <2>5. DryRunAccepts(cfg)
    <3>1. worstCaseKappaForm(toForm(cfg)) >= 1000
      BY <1>7, <2>4
    <3>2. Len(cfg.refundTable) = Len(cfg.collateralRate) * NumRatioBuckets(cfg)
      BY Zenon DEF WellShaped
    <3> QED BY <3>1, <3>2, Zenon DEF DryRunAccepts
  <2> QED BY <2>2, <2>5, Zenon
<1>10. ASSUME consts, validateForm(fm)
       PROVE  Sound(cfg)
  BY <1>4, <1>5, <1>6, <1>7, <1>8, <1>10, Zenon DEF validateForm, Sound, validate
<1> QED BY <1>9, <1>10, Zenon

LEMMA EditorSafe == EditorInv => FormMirrorsContract
<1> SUFFICES ASSUME EditorInv, scene = "editor", NEW cfg, cfg = toTuple(form), ~HasBlank(form)
             PROVE  /\ Sound(cfg) => validateForm(form) /\ DryRunAccepts(cfg)
                    /\ consts /\ validateForm(form) => Sound(cfg)
  BY Zenon DEF FormMirrorsContract, validateForm
<1>1. form \in Forms /\ Aligned(form)
  BY DEF EditorInv
<1>2. cfg \in StakeConfig /\ WellShaped(cfg) /\ form = toForm(cfg)
  BY <1>1, TupleIs, RoundTrip, Zenon
<1> QED BY <1>2, ChecksAgree, Zenon

(* What the buttons do to a list, and where its entries come from.         *)
Longer(w, q)  == Len(w) = Len(q) + 1
Shorter(w, q) == Len(w) = Len(q) - 1
From(w, q)    == \A s \in 1..Len(w) : \E x \in 1..Len(q) : w[s] = q[x]

Patched(w, q, i, v) ==
  Len(w) = Len(q) /\ \A s \in 1..Len(q) : w[s] = IF s = i THEN v ELSE q[s]

LEMMA Appended ==
  ASSUME NEW X, NEW q \in Seq(X), NEW v \in X, NEW w, w = Append(q, v)
  PROVE  w \in Seq(X) /\ Longer(w, q)
BY DEF Longer

LEMMA Copied ==
  ASSUME NEW X, NEW q \in Seq(X), Len(q) # 0, NEW w, w = Append(q, Last(q))
  PROVE  w \in Seq(X) /\ Longer(w, q) /\ From(w, q)
<1>1. PICK n \in Nat \ {0} : n = Len(q)
  OBVIOUS
<1>2. Last(q) = q[n] /\ q[n] \in X
  BY <1>1 DEF Last
<1>3. w = Append(q, q[n])
  BY <1>2, Zenon
<1>4. w \in Seq(X) /\ Len(w) = n + 1 /\ w[n + 1] = q[n] /\ \A s \in 1..n : w[s] = q[s]
  BY <1>1, <1>2, <1>3
<1>5. \A s \in 1..(n + 1) : \E x \in 1..n : w[s] = q[x]
  BY <1>4
<1> QED BY <1>1, <1>4, <1>5, Zenon DEF Longer, From

LEMMA Fronted ==
  ASSUME NEW X, NEW q \in Seq(X), Len(q) # 0, NEW w, w = Front(q)
  PROVE  w \in Seq(X) /\ Shorter(w, q) /\ From(w, q)
<1>1. PICK n \in Nat : Len(q) = n + 1
  <2>1. Len(q) - 1 \in Nat /\ Len(q) = (Len(q) - 1) + 1
    OBVIOUS
  <2> QED BY <2>1
<1>2. w = SubSeq(q, 1, n)
  BY <1>1 DEF Front
<1>3. w \in Seq(X) /\ Len(w) = n /\ \A s \in 1..n : w[s] = q[s]
  BY <1>1, <1>2
<1>4. \A s \in 1..n : s \in 1..(n + 1)
  OBVIOUS
<1>5. Shorter(w, q)
  BY <1>1, <1>3 DEF Shorter
<1> QED BY <1>1, <1>3, <1>4, <1>5, Zenon DEF From

LEMMA Retyped ==
  ASSUME NEW X, NEW q \in Seq(X), NEW i \in DOMAIN q, NEW v \in X, NEW w, w = [q EXCEPT ![i] = v]
  PROVE  w \in Seq(X) /\ Patched(w, q, i, v)
BY DEF Patched

Kept(fm) == fm \in Forms /\ Aligned(fm)

(* A record with the fields of a form is one that kept its shape.          *)
LEMMA Refit ==
  ASSUME NEW a \in Seq(Cell), NEW b \in Seq(Cell), NEW c \in Seq(Cell), NEW d \in Seq(Cell),
         NEW e \in Seq(Cell), NEW t \in Seq(Seq(Cell)), NEW m \in Nat,
         Len(a) = Len(b) - 1, Len(c) = Len(d) - 1, Len(t) = Len(b),
         \A s \in 1..Len(t) : Len(t[s]) = Len(e) + 1,
         NEW fm, fm = [ sizeThresholds |-> a, collateralRate |-> b, timeThresholds |-> c,
                        timeMult |-> d, ratioThresholds |-> e, refundTable |-> t,
                        minCollateral |-> m ]
  PROVE  Kept(fm)
<1>1. fm \in Forms
  BY Zenon DEF Forms
<1>2. DOMAIN t = 1..Len(t)
  OBVIOUS
<1>3. /\ fm.sizeThresholds = a /\ fm.collateralRate = b /\ fm.timeThresholds = c
      /\ fm.timeMult = d /\ fm.ratioThresholds = e /\ fm.refundTable = t
  OBVIOUS
<1>4. Aligned(fm)
  BY <1>2, <1>3, Zenon DEF Aligned
<1> QED BY <1>1, <1>4 DEF Kept

LEMMA EditKeeps ==
  ASSUME Kept(form),
         \/ addSizeBucket \/ removeSizeBucket \/ addTimeBucket \/ removeTimeBucket
         \/ addRatioBucket \/ removeRatioBucket
         \/ \E key \in Lists, v \in Typed : \E i \in DOMAIN form[key] : set1D(key, i, v)
         \/ \E v \in Typed : \E s \in DOMAIN form.refundTable :
              \E r \in DOMAIN form.refundTable[s] : setCell(s, r, v)
  PROVE  Kept(form)'
<1>1. PICK a, b, c, d, e, t, m :
        /\ a = form.sizeThresholds /\ b = form.collateralRate /\ c = form.timeThresholds
        /\ d = form.timeMult /\ e = form.ratioThresholds /\ t = form.refundTable
        /\ m = form.minCollateral
  OBVIOUS
<1>2. /\ a \in Seq(Cell) /\ b \in Seq(Cell) /\ c \in Seq(Cell) /\ d \in Seq(Cell)
      /\ e \in Seq(Cell) /\ t \in Seq(Seq(Cell)) /\ m \in Nat
      /\ form = [ sizeThresholds |-> a, collateralRate |-> b, timeThresholds |-> c,
                  timeMult |-> d, ratioThresholds |-> e, refundTable |-> t,
                  minCollateral |-> m ]
  BY <1>1 DEF Kept, Forms
<1>3. /\ Len(a) = Len(b) - 1 /\ Len(c) = Len(d) - 1 /\ Len(t) = Len(b)
      /\ \A s \in 1..Len(t) : Len(t[s]) = Len(e) + 1
      /\ DOMAIN t = 1..Len(t)
      /\ Len(b) \in Nat \ {0} /\ Len(d) \in Nat \ {0} /\ Len(e) \in Nat
  <2>1. /\ Len(a) = Len(b) - 1 /\ Len(c) = Len(d) - 1 /\ Len(t) = Len(b)
        /\ \A s \in DOMAIN t : Len(t[s]) = Len(e) + 1
    BY <1>1, Zenon DEF Kept, Aligned
  <2> QED BY <1>2, <2>1
<1>4. Blank \in Cell /\ Typed \subseteq Cell
  BY ConsoleAssumption DEF Cell
<1>5. CASE addSizeBucket
  <2>1. PICK a1, b1, t1 : a1 = Append(a, Blank) /\ b1 = Append(b, Last(b)) /\ t1 = Append(t, Last(t))
    OBVIOUS
  <2>2. form' = [form EXCEPT !.sizeThresholds = a1, !.collateralRate = b1, !.refundTable = t1]
    BY <1>1, <1>5, <2>1, Zenon DEF addSizeBucket, Edit
  <2>3. /\ a1 \in Seq(Cell) /\ Longer(a1, a) /\ b1 \in Seq(Cell) /\ Longer(b1, b)
        /\ t1 \in Seq(Seq(Cell)) /\ Longer(t1, t) /\ From(t1, t)
    <3>1. Len(b) # 0 /\ Len(t) # 0
      BY <1>3
    <3> QED BY <1>2, <1>4, <2>1, <3>1, Appended, Copied, Zenon
  <2>4. \A s \in 1..Len(t1) : Len(t1[s]) = Len(e) + 1
    BY <1>3, <2>3, Zenon DEF From
  <2>5. Len(a1) = Len(b1) - 1 /\ Len(t1) = Len(b1)
    BY <1>3, <2>3 DEF Longer
  <2>6. form' = [ sizeThresholds |-> a1, collateralRate |-> b1, timeThresholds |-> c,
                  timeMult |-> d, ratioThresholds |-> e, refundTable |-> t1,
                  minCollateral |-> m ]
    BY <1>2, <2>2
  <2> QED BY <1>2, <1>3, <2>3, <2>4, <2>5, <2>6, Refit, Zenon DEF Kept
<1>6. CASE removeSizeBucket
  <2>1. PICK a1, b1, t1 : a1 = Front(a) /\ b1 = Front(b) /\ t1 = Front(t)
    OBVIOUS
  <2>2. form' = [form EXCEPT !.sizeThresholds = a1, !.collateralRate = b1, !.refundTable = t1]
    BY <1>1, <1>6, <2>1, Zenon DEF removeSizeBucket, Edit
  <2>3. /\ a1 \in Seq(Cell) /\ Shorter(a1, a) /\ b1 \in Seq(Cell) /\ Shorter(b1, b)
        /\ t1 \in Seq(Seq(Cell)) /\ Shorter(t1, t) /\ From(t1, t)
    <3>1. Len(b) > 1
      BY <1>1, <1>6, Zenon DEF removeSizeBucket
    <3>2. Len(a) # 0 /\ Len(b) # 0 /\ Len(t) # 0
      BY <1>3, <3>1
    <3> QED BY <1>2, <2>1, <3>2, Fronted, Zenon
  <2>4. \A s \in 1..Len(t1) : Len(t1[s]) = Len(e) + 1
    BY <1>3, <2>3, Zenon DEF From
  <2>5. Len(a1) = Len(b1) - 1 /\ Len(t1) = Len(b1)
    BY <1>3, <2>3 DEF Shorter
  <2>6. form' = [ sizeThresholds |-> a1, collateralRate |-> b1, timeThresholds |-> c,
                  timeMult |-> d, ratioThresholds |-> e, refundTable |-> t1,
                  minCollateral |-> m ]
    BY <1>2, <2>2
  <2> QED BY <1>2, <1>3, <2>3, <2>4, <2>5, <2>6, Refit, Zenon DEF Kept
<1>7. CASE addTimeBucket
  <2>1. PICK c1, d1 : c1 = Append(c, Blank) /\ d1 = Append(d, Last(d))
    OBVIOUS
  <2>2. form' = [form EXCEPT !.timeThresholds = c1, !.timeMult = d1]
    BY <1>1, <1>7, <2>1, Zenon DEF addTimeBucket, Edit
  <2>3. c1 \in Seq(Cell) /\ Longer(c1, c) /\ d1 \in Seq(Cell) /\ Longer(d1, d)
    <3>1. Len(d) # 0
      BY <1>3
    <3> QED BY <1>2, <1>4, <2>1, <3>1, Appended, Copied, Zenon
  <2>4. Len(c1) = Len(d1) - 1
    BY <1>3, <2>3 DEF Longer
  <2>5. form' = [ sizeThresholds |-> a, collateralRate |-> b, timeThresholds |-> c1,
                  timeMult |-> d1, ratioThresholds |-> e, refundTable |-> t,
                  minCollateral |-> m ]
    BY <1>2, <2>2
  <2> QED BY <1>2, <1>3, <2>3, <2>4, <2>5, Refit, Zenon DEF Kept
<1>8. CASE removeTimeBucket
  <2>1. PICK c1, d1 : c1 = Front(c) /\ d1 = Front(d)
    OBVIOUS
  <2>2. form' = [form EXCEPT !.timeThresholds = c1, !.timeMult = d1]
    BY <1>1, <1>8, <2>1, Zenon DEF removeTimeBucket, Edit
  <2>3. c1 \in Seq(Cell) /\ Shorter(c1, c) /\ d1 \in Seq(Cell) /\ Shorter(d1, d)
    <3>1. Len(d) > 1
      BY <1>1, <1>8, Zenon DEF removeTimeBucket
    <3>2. Len(c) # 0 /\ Len(d) # 0
      <4>1. Len(c) = Len(d) - 1 /\ Len(d) \in Nat
        BY <1>3, Zenon
      <4> QED BY <3>1, <4>1
    <3> QED BY <1>2, <2>1, <3>2, Fronted, Zenon
  <2>4. Len(c1) = Len(d1) - 1
    BY <1>3, <2>3 DEF Shorter
  <2>5. form' = [ sizeThresholds |-> a, collateralRate |-> b, timeThresholds |-> c1,
                  timeMult |-> d1, ratioThresholds |-> e, refundTable |-> t,
                  minCollateral |-> m ]
    BY <1>2, <2>2
  <2> QED BY <1>2, <1>3, <2>3, <2>4, <2>5, Refit, Zenon DEF Kept
<1>9. CASE addRatioBucket
  <2>1. PICK e1, t1 : e1 = Append(e, Blank) /\ t1 = [s \in DOMAIN t |-> Append(t[s], Last(t[s]))]
    OBVIOUS
  <2>2. form' = [form EXCEPT !.ratioThresholds = e1, !.refundTable = t1]
    BY <1>1, <1>9, <2>1, Zenon DEF addRatioBucket, Edit
  <2>3. e1 \in Seq(Cell) /\ Longer(e1, e)
    BY <1>2, <1>4, <2>1, Appended, Zenon
  <2>4. ASSUME NEW s \in 1..Len(t)
        PROVE  t1[s] \in Seq(Cell) /\ Len(t1[s]) = Len(e1) + 1
    <3>1. PICK row \in Seq(Cell) : row = t[s]
      BY <1>2
    <3>2. Len(row) = Len(e) + 1 /\ Len(row) # 0
      BY <1>3, <3>1
    <3>3. t1[s] = Append(row, Last(row))
      BY <1>3, <2>1, <3>1, Zenon
    <3>4. t1[s] \in Seq(Cell) /\ Longer(t1[s], row)
      BY <3>2, <3>3, Copied, Zenon
    <3> QED BY <2>3, <3>2, <3>4, Zenon DEF Longer
  <2>5. t1 \in Seq(Seq(Cell)) /\ Len(t1) = Len(t)
    <3>1. DOMAIN t1 = 1..Len(t) /\ t1 = [s \in 1..Len(t) |-> t1[s]]
      BY <1>3, <2>1
    <3> DEFINE X == Seq(Cell)
    <3>2. \A s \in 1..Len(t) : t1[s] \in X
      BY <2>4
    <3>3. Len(t) \in Nat
      BY <1>3
    <3> HIDE DEF X
    <3>4. t1 \in [1..Len(t) -> X]
      BY <3>1, <3>2
    <3> QED BY <3>3, <3>4 DEF X
  <2>6. form' = [ sizeThresholds |-> a, collateralRate |-> b, timeThresholds |-> c,
                  timeMult |-> d, ratioThresholds |-> e1, refundTable |-> t1,
                  minCollateral |-> m ]
    BY <1>2, <2>2
  <2>7. Len(t1) = Len(b) /\ \A s \in 1..Len(t1) : Len(t1[s]) = Len(e1) + 1
    BY <1>3, <2>4, <2>5, Zenon
  <2> QED BY <1>2, <1>3, <2>3, <2>5, <2>6, <2>7, Refit, Zenon DEF Kept
<1>10. CASE removeRatioBucket
  <2>1. PICK e1, t1 : e1 = Front(e) /\ t1 = [s \in DOMAIN t |-> Front(t[s])]
    OBVIOUS
  <2>2. form' = [form EXCEPT !.ratioThresholds = e1, !.refundTable = t1]
    BY <1>1, <1>10, <2>1, Zenon DEF removeRatioBucket, Edit
  <2>3. e1 \in Seq(Cell) /\ Shorter(e1, e)
    <3>1. Len(e) > 0
      BY <1>1, <1>10, Zenon DEF removeRatioBucket
    <3>2. Len(e) # 0
      BY <1>3, <3>1
    <3> QED BY <1>2, <2>1, <3>2, Fronted, Zenon
  <2>4. ASSUME NEW s \in 1..Len(t)
        PROVE  t1[s] \in Seq(Cell) /\ Len(t1[s]) = Len(e1) + 1
    <3>1. PICK row \in Seq(Cell) : row = t[s]
      BY <1>2
    <3>2. Len(row) = Len(e) + 1 /\ Len(row) # 0
      BY <1>3, <3>1
    <3>3. t1[s] = Front(row)
      BY <1>3, <2>1, <3>1, Zenon
    <3>4. t1[s] \in Seq(Cell) /\ Shorter(t1[s], row)
      BY <3>2, <3>3, Fronted, Zenon
    <3>5. Len(row) - 1 = Len(e1) + 1
      BY <1>3, <2>3, <3>2 DEF Shorter
    <3> QED BY <3>4, <3>5, Zenon DEF Shorter
  <2>5. t1 \in Seq(Seq(Cell)) /\ Len(t1) = Len(t)
    <3>1. DOMAIN t1 = 1..Len(t) /\ t1 = [s \in 1..Len(t) |-> t1[s]]
      BY <1>3, <2>1
    <3> DEFINE X == Seq(Cell)
    <3>2. \A s \in 1..Len(t) : t1[s] \in X
      BY <2>4
    <3>3. Len(t) \in Nat
      BY <1>3
    <3> HIDE DEF X
    <3>4. t1 \in [1..Len(t) -> X]
      BY <3>1, <3>2
    <3> QED BY <3>3, <3>4 DEF X
  <2>6. form' = [ sizeThresholds |-> a, collateralRate |-> b, timeThresholds |-> c,
                  timeMult |-> d, ratioThresholds |-> e1, refundTable |-> t1,
                  minCollateral |-> m ]
    BY <1>2, <2>2
  <2>7. Len(t1) = Len(b) /\ \A s \in 1..Len(t1) : Len(t1[s]) = Len(e1) + 1
    BY <1>3, <2>4, <2>5, Zenon
  <2> QED BY <1>2, <1>3, <2>3, <2>5, <2>6, <2>7, Refit, Zenon DEF Kept
<1>11. ASSUME NEW key \in Lists, NEW v \in Typed, NEW i \in DOMAIN form[key], set1D(key, i, v)
       PROVE  Kept(form')
  <2>1. PICK q : q = [form[key] EXCEPT ![i] = v]
    OBVIOUS
  <2>2. form' = [form EXCEPT ![key] = q]
    BY <1>11, <2>1, Zenon DEF set1D, Edit
  <2>3. key \in {"sizeThresholds", "collateralRate", "timeThresholds", "timeMult", "ratioThresholds"}
    BY DEF Lists
  <2>4. form[key] \in Seq(Cell)
    BY <1>2, <2>3
  <2>5. q \in Seq(Cell) /\ Len(q) = Len(form[key])
    <3>1. q \in Seq(Cell) /\ Patched(q, form[key], i, v)
      BY <1>4, <2>1, <2>4, Retyped, Zenon
    <3> QED BY <3>1, Zenon DEF Patched
  <2>6. CASE key = "sizeThresholds"
    <3>1. form' = [ sizeThresholds |-> q, collateralRate |-> b, timeThresholds |-> c,
                    timeMult |-> d, ratioThresholds |-> e, refundTable |-> t,
                    minCollateral |-> m ] /\ form[key] = a
      BY <1>2, <2>2, <2>6
    <3> QED BY <1>2, <1>3, <2>5, <3>1, Refit, Zenon
  <2>7. CASE key = "collateralRate"
    <3>1. form' = [ sizeThresholds |-> a, collateralRate |-> q, timeThresholds |-> c,
                    timeMult |-> d, ratioThresholds |-> e, refundTable |-> t,
                    minCollateral |-> m ] /\ form[key] = b
      BY <1>2, <2>2, <2>7
    <3> QED BY <1>2, <1>3, <2>5, <3>1, Refit, Zenon
  <2>8. CASE key = "timeThresholds"
    <3>1. form' = [ sizeThresholds |-> a, collateralRate |-> b, timeThresholds |-> q,
                    timeMult |-> d, ratioThresholds |-> e, refundTable |-> t,
                    minCollateral |-> m ] /\ form[key] = c
      BY <1>2, <2>2, <2>8
    <3> QED BY <1>2, <1>3, <2>5, <3>1, Refit, Zenon
  <2>9. CASE key = "timeMult"
    <3>1. form' = [ sizeThresholds |-> a, collateralRate |-> b, timeThresholds |-> c,
                    timeMult |-> q, ratioThresholds |-> e, refundTable |-> t,
                    minCollateral |-> m ] /\ form[key] = d
      BY <1>2, <2>2, <2>9
    <3> QED BY <1>2, <1>3, <2>5, <3>1, Refit, Zenon
  <2>10. CASE key = "ratioThresholds"
    <3>1. form' = [ sizeThresholds |-> a, collateralRate |-> b, timeThresholds |-> c,
                    timeMult |-> d, ratioThresholds |-> q, refundTable |-> t,
                    minCollateral |-> m ] /\ form[key] = e
      BY <1>2, <2>2, <2>10
    <3> QED BY <1>2, <1>3, <2>5, <3>1, Refit, Zenon
  <2> QED BY <2>3, <2>6, <2>7, <2>8, <2>9, <2>10
<1>12. ASSUME NEW v \in Typed, NEW s \in DOMAIN form.refundTable,
              NEW r \in DOMAIN form.refundTable[s], setCell(s, r, v)
       PROVE  Kept(form')
  <2>1. PICK row \in Seq(Cell) : row = t[s]
    BY <1>1, <1>2
  <2>2. PICK q, t1 : q = [row EXCEPT ![r] = v] /\ t1 = [t EXCEPT ![s] = q]
    OBVIOUS
  <2>3. form' = [form EXCEPT !.refundTable = t1]
    BY <1>1, <1>12, <2>1, <2>2, Zenon DEF setCell, Edit
  <2>4. q \in Seq(Cell) /\ Len(q) = Len(row)
    <3>1. r \in DOMAIN row /\ v \in Cell
      BY <1>1, <1>4, <2>1, Zenon
    <3>2. q \in Seq(Cell) /\ Patched(q, row, r, v)
      BY <2>2, <3>1, Retyped, Zenon
    <3> QED BY <3>2, Zenon DEF Patched
  <2>5. t1 \in Seq(Seq(Cell)) /\ Len(t1) = Len(t)
    <3>1. s \in DOMAIN t
      BY <1>1, Zenon
    <3>2. t1 \in Seq(Seq(Cell)) /\ Patched(t1, t, s, q)
      BY <1>2, <2>2, <2>4, <3>1, Retyped, Zenon
    <3> QED BY <3>2, Zenon DEF Patched
  <2>6. \A x \in 1..Len(t) : t1[x] = IF x = s THEN q ELSE t[x]
    BY <1>3, <2>2, Zenon
  <2>7. \A x \in 1..Len(t1) : Len(t1[x]) = Len(e) + 1
    BY <1>3, <2>1, <2>4, <2>5, <2>6, Zenon
  <2>8. form' = [ sizeThresholds |-> a, collateralRate |-> b, timeThresholds |-> c,
                  timeMult |-> d, ratioThresholds |-> e, refundTable |-> t1,
                  minCollateral |-> m ]
    BY <1>2, <2>3
  <2> QED BY <1>2, <1>3, <2>5, <2>7, <2>8, Refit, Zenon
<1> QED BY <1>5, <1>6, <1>7, <1>8, <1>9, <1>10, <1>11, <1>12, Zenon DEF Kept

(* A configuration read into the editor keeps the shape of a form.         *)
LEMMA SoundIsKept ==
  ASSUME NEW cfg \in StakeConfig, Sound(cfg)
  PROVE  Kept(toForm(cfg))
<1>1. WellShaped(cfg)
  BY Zenon DEF Sound, validate
<1> QED BY <1>1, MirrorShape, Zenon DEF Kept

LEMMA EditorInit == ConsoleInit => EditorInv
<1> SUFFICES ASSUME ConsoleInit PROVE EditorInv
  OBVIOUS
<1>1. config \in StakeConfig /\ Sound(config) /\ form = toForm(config)
  BY GovernanceAssumption, Zenon DEF ConsoleInit, Init
<1>2. Kept(form)
  BY <1>1, SoundIsKept, Zenon
<1> QED BY <1>1, <1>2, Zenon DEF EditorInv, Kept

(* Only the editor moves in its scene, and of the contract only what it    *)
(* submits.                                                                *)
LEMMA OthersKeep ==
  ASSUME EditorInv, ContractNext \/ IndexerNext \/ UNCHANGED consoleVars
  PROVE  EditorInv'
<1>1. CASE ContractNext
  <2>1. scene # "editor" /\ scene' = scene
    BY <1>1, Zenon DEF ContractNext, Set, Commit, Veto, RollBack, Pass, InScene, Record
  <2> QED BY <2>1, Zenon DEF EditorInv
<1>2. CASE IndexerNext \/ UNCHANGED consoleVars
  <2>1. config' = config /\ scene' = scene /\ form' = form
    <3>1. CASE UNCHANGED consoleVars
      BY <3>1, Zenon DEF consoleVars, vars, editorVars
    <3>2. CASE IndexerNext
      BY <3>2, Zenon
         DEF IndexerNext, OnBlock, InsertRow, InsertBare, InsertFails, PollFails, FinishRows,
             SaveCheckpoint, Crash, Restart, vars, editorVars
    <3> QED BY <1>2, <3>1, <3>2, Zenon
  <2>2. UNCHANGED <<config, scene, form>>
    BY <2>1
  <2> QED BY <2>1, Zenon DEF EditorInv, Sound
<1> QED BY <1>1, <1>2, Zenon

LEMMA EditorKeeps ==
  ASSUME EditorInv, EditorNext
  PROVE  EditorInv'
<1>1. scene = "editor" /\ config \in StakeConfig /\ Sound(config) /\ Kept(form)
  <2>1. scene = "editor"
    BY Zenon DEF EditorNext, addSizeBucket, removeSizeBucket, addTimeBucket, removeTimeBucket,
                 addRatioBucket, removeRatioBucket, set1D, setCell, Reset, Edit, LoadConsts, Submit
  <2> QED BY <2>1, Zenon DEF EditorInv, Kept
<1>2. ASSUME config' = config, Kept(form')
      PROVE  EditorInv'
  BY <1>1, <1>2, Zenon DEF EditorInv, Kept, Sound
<1>3. CASE \/ addSizeBucket \/ removeSizeBucket \/ addTimeBucket \/ removeTimeBucket
           \/ addRatioBucket \/ removeRatioBucket
           \/ \E key \in Lists, v \in Typed : \E i \in DOMAIN form[key] : set1D(key, i, v)
           \/ \E v \in Typed : \E s \in DOMAIN form.refundTable :
                \E r \in DOMAIN form.refundTable[s] : setCell(s, r, v)
  <2>1. config' = config
    BY <1>3, Zenon DEF addSizeBucket, removeSizeBucket, addTimeBucket, removeTimeBucket,
                       addRatioBucket, removeRatioBucket, set1D, setCell, Edit, vars
  <2>2. Kept(form')
    BY <1>1, <1>3, EditKeeps, Zenon DEF Kept
  <2> QED BY <1>2, <2>1, <2>2
<1>4. CASE Reset
  <2>1. config' = config /\ form' = toForm(config)
    BY <1>4, Zenon DEF Reset, Edit, vars
  <2> QED BY <1>1, <1>2, <2>1, SoundIsKept, Zenon
<1>5. CASE LoadConsts
  <2>1. config' = config /\ form' = form
    BY <1>5, Zenon DEF LoadConsts, vars
  <2> QED BY <1>1, <1>2, <2>1, Zenon
<1>6. CASE Submit
  <2>1. setStakeConfig(toTuple(form)) /\ form' = form
    BY <1>6, Zenon DEF Submit, editorVars
  <2>2. Sound(toTuple(form)) /\ config' \in {config, toTuple(form)}
    BY <2>1, Zenon DEF setStakeConfig, _apply
  <2>3. toTuple(form) \in StakeConfig
    BY <1>1, TupleIs, Zenon DEF Kept
  <2>4. config' \in StakeConfig /\ Sound(config')
    BY <1>1, <2>2, <2>3, Zenon
  <2>5. Kept(form')
    BY <1>1, <2>1, Zenon
  <2> QED BY <2>4, <2>5, Zenon DEF EditorInv, Kept, Sound
<1> QED BY <1>3, <1>4, <1>5, <1>6, Zenon DEF EditorNext

(* The editor and the dry run refuse nothing the contract would take, and  *)
(* with the constants at hand let nothing through that it must revert, for *)
(* any configuration, whatever is added, removed, typed, reset and sent.   *)
THEOREM FormIsFaithful == ConsoleSpec => []FormMirrorsContract
<1>1. EditorInv /\ [ConsoleNext]_consoleVars => EditorInv'
  BY OthersKeep, EditorKeeps, Zenon DEF ConsoleNext
<1> QED BY <1>1, EditorInit, EditorSafe, PTL DEF ConsoleSpec
=============================================================================
