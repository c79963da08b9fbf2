--------------------------- MODULE StakeGovernance ---------------------------
(***************************************************************************)
(* How FillAuction's stake configuration changes: PARAM_ADMIN submits a    *)
(* configuration, which is applied at once when it asks more of fillers    *)
(* and waits LOOSEN_DELAY when it asks less; GUARDIAN vetoes or rolls back;*)
(* anyone commits what has waited.  The three act in any order.            *)
(*                                                                         *)
(* FillAuction.tla keeps of all this that the live configuration may become*)
(* another well-formed one at any time; LiveConfigSettles is that promise. *)
(***************************************************************************)
EXTENDS StakeSchedule

CONSTANTS
  DefaultConfig,            \* defaultStakeConfig, installed by the constructor
  Submissions,              \* what PARAM_ADMIN may submit
  CHANGE_COOLDOWN, LOOSEN_DELAY,
  MAX_DELTA_BPS, MIN_PENALTY_BPS, MIN_WORST_CASE_KAPPA_BPS,
  MIN_COLLATERAL_RATE, MAX_COLLATERAL_RATE, MAX_BUCKETS,
  SampleNotionals,          \* guardCheck's four notionals
  FarLeft,                  \* blocks left at its reference deadline
  Fractions,                \* what fillers may deliver, in bps of what they promised
  MaxTime                   \* bound: the last timestamp of a run

Sound(c) ==
  validate(c, MIN_COLLATERAL_RATE, MAX_COLLATERAL_RATE, MAX_BUCKETS, MIN_WORST_CASE_KAPPA_BPS)

(* lastChange = 0 stands for "never", no block has that timestamp.         *)
ASSUME GovernanceAssumption ==
  /\ DefaultConfig \in StakeConfig /\ Sound(DefaultConfig)
  /\ Submissions \subseteq StakeConfig
  /\ CHANGE_COOLDOWN \in Nat /\ LOOSEN_DELAY \in Nat /\ MaxTime \in Nat
  /\ MIN_WORST_CASE_KAPPA_BPS \in Nat
  /\ Fractions \subseteq 0..(BPS - 1)

VARIABLES
  time,              \* block.timestamp
  config,            \* _config
  previousConfig,    \* _previousConfig: {} or {a configuration}
  pending,           \* _pending: {} or {a configuration}
  pendingEffective,
  lastChange,
  queuedAt,          \* history: when the pending configuration was queued
  movedAt            \* history: when a submission last went live

vars == <<time, config, previousConfig, pending, pendingEffective, lastChange,
          queuedAt, movedAt>>

Init ==
  /\ time = 1
  /\ config = DefaultConfig
  /\ previousConfig = {}
  /\ pending = {}
  /\ pendingEffective = 0
  /\ lastChange = 0
  /\ queuedAt = 0
  /\ movedAt = 0

Guarded(old, new)  == guardCheck(old, new, SampleNotionals, FarLeft, MAX_DELTA_BPS, MIN_PENALTY_BPS)
Loosening(old, new) == isLoosening(old, new, SampleNotionals, FarLeft)

-----------------------------------------------------------------------------
(* Fault: going live does not restart the cooldown.                        *)
_apply_NoCooldown(c) ==
  /\ previousConfig' = {config}
  /\ config' = c
  /\ movedAt' = time
  /\ UNCHANGED lastChange

_apply(c) ==
  /\ previousConfig' = {config}
  /\ config' = c
  /\ lastChange' = time
  /\ movedAt' = time

(* Fault: the delay runs from the last time something was queued.          *)
queue_KeepsDelay(c) ==
  /\ pending' = {c}
  /\ pendingEffective' = IF pendingEffective = 0 THEN time + LOOSEN_DELAY ELSE pendingEffective
  /\ lastChange' = time
  /\ queuedAt' = time

queue(c) ==
  /\ pending' = {c}
  /\ pendingEffective' = time + LOOSEN_DELAY
  /\ lastChange' = time
  /\ queuedAt' = time

setStakeConfig(c) ==
  /\ lastChange = 0 \/ time >= lastChange + CHANGE_COOLDOWN
  /\ pending = {}
  /\ Sound(c)
  /\ Guarded(config, c)
  /\ \/ /\ Loosening(config, c)
        /\ queue(c)
        /\ UNCHANGED <<config, previousConfig, movedAt>>
     \/ /\ ~Loosening(config, c)
        /\ _apply(c)
        /\ UNCHANGED <<pending, pendingEffective, queuedAt>>
  /\ UNCHANGED time

commitPending ==
  /\ \E c \in pending : _apply(c)
  /\ time >= pendingEffective
  /\ pending' = {}
  /\ UNCHANGED <<time, pendingEffective, queuedAt>>

cancelPendingConfig ==
  /\ pending # {}
  /\ pending' = {}
  /\ UNCHANGED <<time, config, previousConfig, pendingEffective, lastChange, queuedAt, movedAt>>

(* Fault: what was queued against the configuration rolled back stays.     *)
rollback_KeepsPending ==
  /\ \E c \in previousConfig : config' = c
  /\ UNCHANGED <<time, previousConfig, pending, pendingEffective, lastChange, queuedAt, movedAt>>

rollback ==
  /\ \E c \in previousConfig : config' = c
  /\ pending' = {}
  /\ UNCHANGED <<time, previousConfig, pendingEffective, lastChange, queuedAt, movedAt>>

Tick ==
  /\ time < MaxTime
  /\ time' = time + 1
  /\ UNCHANGED <<config, previousConfig, pending, pendingEffective, lastChange, queuedAt, movedAt>>

Next ==
  \/ \E c \in Submissions : setStakeConfig(c)
  \/ commitPending
  \/ cancelPendingConfig
  \/ rollback
  \/ Tick

Spec == Init /\ [][Next]_vars

-----------------------------------------------------------------------------
TypeOK ==
  /\ time \in Nat \ {0}
  /\ config \in StakeConfig
  /\ previousConfig \subseteq StakeConfig
  /\ pending \subseteq StakeConfig
  /\ pendingEffective \in Nat
  /\ lastChange \in Nat
  /\ queuedAt \in Nat
  /\ movedAt \in Nat

(* Whatever is live, and whatever a rollback would make live, has terms    *)
(* every registration taken under it can be settled by: this is what       *)
(* settlement assumes of the configurations.                               *)
Settles(c) == WellShaped(c) /\ RefundsWellFormed(c)

LiveConfigSettles == \A c \in {config} \cup previousConfig \cup pending : Settles(c)

(* A queued configuration was measured against the one that is still live, *)
(* so committing it moves the economics no further than one step may.      *)
PendingStaysMeasured == \A c \in pending : Guarded(config, c)

(* Under every configuration that ever goes live, a filler that stops short*)
(* forfeits at least the minimum price edge on what it delivered: taken at *)
(* every delivered fraction of every bucket, not only at the edges that    *)
(* worstCaseKappaBps looks at.                                             *)
AbandoningCosts ==
  \A s \in 1..Len(config.collateralRate), t \in 1..Len(config.timeMult), fill \in Fractions :
    LET refunded == RefundRow(config, s)[getFillRatioBucket(fill, BPS, config.ratioThresholds)]
    IN  refunded < BPS =>
          mulDiv(config.collateralRate[s], config.timeMult[t], BPS) * (BPS - refunded)
            >= MIN_WORST_CASE_KAPPA_BPS * fill

(* A configuration that asks less of fillers goes live only by a rollback, *)
(* or after LOOSEN_DELAY in the open as the pending one.                   *)
LooseningWaits ==
  [][config' # config /\ Loosening(config, config') =>
       \/ config' \in previousConfig
       \/ config' \in pending /\ time >= queuedAt + LOOSEN_DELAY]_vars

(* Two submissions never go live within a cooldown of each other, whichever*)
(* of the two ways they take.                                              *)
WentLive == movedAt' # movedAt \/ previousConfig' # previousConfig

LiveMovesSpaced ==
  [][WentLive => movedAt = 0 \/ time >= movedAt + CHANGE_COOLDOWN]_vars

(* The inductive invariant behind the safety properties.                   *)
ClocksAgree ==
  /\ movedAt <= lastChange
  /\ lastChange <= time
  /\ pending # {} =>
       /\ pendingEffective = queuedAt + LOOSEN_DELAY
       /\ movedAt = 0 \/ queuedAt >= movedAt + CHANGE_COOLDOWN
       /\ queuedAt <= time

IInv ==
  /\ TypeOK
  /\ \A c \in {config} \cup previousConfig \cup pending : Sound(c)
  /\ PendingStaysMeasured
  /\ ClocksAgree
=============================================================================
