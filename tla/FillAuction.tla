----------------------------- MODULE FillAuction -----------------------------
(***************************************************************************)
(* contract/src/FillAuction.sol: the ETH a filler stakes on a promise to   *)
(* deliver part of an order, and the one settlement each stake gets.       *)
(*                                                                         *)
(* The contract never reads the order itself: the reactor passes it what   *)
(* it needs, or answers through the IReactorView interface.  The operators *)
(* below take those answers as parameters, so that PartialFillReactor.tla  *)
(* composes them into whole transactions.  Governance of the configuration *)
(* (roles, cooldown, queued changes) is reduced here to what settlement    *)
(* depends on: the live configuration may change to another valid one at   *)
(* any time.                                                               *)
(***************************************************************************)
EXTENDS StakeSchedule, FiniteSets

CONSTANTS
  Orders,        \* order hashes
  Fillers,       \* addresses that register and fill
  Accounts,      \* every address that may be owed ETH
  Treasury,      \* receives forfeited and slashed stake
  Configs,       \* the stake configurations governance may install
  U128,          \* 2^128, the modulus of the Registration fields
  SlashWindow    \* SLASH_WINDOW, in blocks

(* Order hashes and addresses are words of a fixed width.                  *)
ASSUME AuctionAssumption ==
  /\ IsFiniteSet(Orders) /\ IsFiniteSet(Accounts)
  /\ Fillers \subseteq Accounts
  /\ Treasury \in Accounts
  /\ U128 \in Nat \ {0}
  /\ SlashWindow \in Nat
  /\ Configs # {}
  /\ \A c \in Configs : /\ c \in StakeConfig
                        /\ WellShaped(c)
                        /\ RefundsWellFormed(c)

VARIABLES
  reg,             \* _registrations[orderHash][filler]
  pendingReturns,  \* ETH each account may withdraw
  balance,         \* the ETH the contract holds
  config           \* _config, the live configuration

auctionVars == <<reg, pendingReturns, balance, config>>

(* A Registration struct.  "registered" stands for filler # address(0);    *)
(* the filler itself is the second half of the key, orderTotal and deadline*)
(* are the order's own and registeredAt is only ever reported.             *)
Registration ==
  [ registered : BOOLEAN, fillAmount : Nat, stakeAmount : Nat,
    filled : BOOLEAN, slashed : BOOLEAN, released : BOOLEAN,
    refundRow : Seq(Nat), ratioSnapshot : Seq(Nat) ]

Unregistered ==
  [ registered |-> FALSE, fillAmount |-> 0, stakeAmount |-> 0,
    filled |-> FALSE, slashed |-> FALSE, released |-> FALSE,
    refundRow |-> << >>, ratioSnapshot |-> << >> ]

NewRegistration(fillAmount, terms) ==
  [ registered |-> TRUE, fillAmount |-> fillAmount, stakeAmount |-> terms.required,
    filled |-> FALSE, slashed |-> FALSE, released |-> FALSE,
    refundRow |-> terms.refundRow, ratioSnapshot |-> terms.ratioSnapshot ]

Settled(r) == r.filled \/ r.slashed \/ r.released
Active(r)  == r.registered /\ ~Settled(r)

Credit(ledger, who, amount) == [ledger EXCEPT ![who] = @ + amount]

AuctionInit ==
  /\ reg = [o \in Orders |-> [f \in Fillers |-> Unregistered]]
  /\ pendingReturns = [a \in Accounts |-> 0]
  /\ balance = 0
  /\ config \in Configs

-----------------------------------------------------------------------------
(* Fault: the order total is not checked against the width of its field.   *)
RegisterStake_WideTotal(o, f, fillAmount, orderTotal, left, notionalEth, excess) ==
  LET terms == computeRegistration(config, notionalEth, left)
  IN  /\ left > 0
      /\ fillAmount > 0 /\ fillAmount <= orderTotal /\ fillAmount < U128
      /\ ~reg[o][f].registered
      /\ terms.required < U128
      /\ reg' = [reg EXCEPT ![o][f] = NewRegistration(fillAmount, terms)]
      /\ pendingReturns' = Credit(pendingReturns, f, excess)
      /\ balance' = balance + terms.required + excess
      /\ UNCHANGED config

(* register, called by the reactor with the stake in msg.value.  Whatever  *)
(* was sent above the required stake is owed back at once.                 *)
RegisterStake(o, f, fillAmount, orderTotal, left, notionalEth, excess) ==
  LET terms == computeRegistration(config, notionalEth, left)
  IN  /\ left > 0
      /\ fillAmount > 0
      /\ fillAmount <= orderTotal
      /\ ~reg[o][f].registered
      /\ fillAmount < U128
      /\ orderTotal < U128
      /\ terms.required < U128
      /\ reg' = [reg EXCEPT ![o][f] = NewRegistration(fillAmount, terms)]
      /\ pendingReturns' = Credit(pendingReturns, f, excess)
      /\ balance' = balance + terms.required + excess
      /\ UNCHANGED config

(* hasValidRegistration.  The requested amount is cast to uint128 before   *)
(* it is compared, the reactor checks the uncast one afterwards.           *)
hasValidRegistration(o, f, fillAmount, now, deadline) ==
  /\ Active(reg[o][f])
  /\ reg[o][f].fillAmount >= fillAmount % U128
  /\ now <= deadline

(* Fault: the commitment alone counts, not what was left of the order.     *)
Deliverable_Commitment(o, f, remainingAtFill) == reg[o][f].fillAmount

(* The most the filler could have delivered: its commitment, or what       *)
(* competing fills left of the order.                                      *)
Deliverable(o, f, remainingAtFill) ==
  IF remainingAtFill < reg[o][f].fillAmount
    THEN remainingAtFill ELSE reg[o][f].fillAmount

(* onFillSuccess, called by the reactor at the end of a fill.              *)
onFillSuccess(o, f, actualFillAmount, remainingAtFill) ==
  LET r      == reg[o][f]
      refund == computeRefund(r.stakeAmount, actualFillAmount,
                              Deliverable(o, f, remainingAtFill),
                              r.refundRow, r.ratioSnapshot)
  IN  /\ ~Settled(r)
      /\ reg' = [reg EXCEPT ![o][f].filled = TRUE]
      /\ pendingReturns' = Credit(Credit(pendingReturns, f, refund),
                                  Treasury, r.stakeAmount - refund)
      /\ UNCHANGED <<balance, config>>

(* Fault: only an earlier slash stops a slash.                             *)
MaySlash_Twice(o, f, now, deadline, isCancelled, isInvalidated, remaining) ==
  /\ reg[o][f].registered /\ ~reg[o][f].slashed
  /\ now > deadline + SlashWindow
  /\ ~isCancelled /\ ~isInvalidated /\ remaining > 0

(* slash: a tenth to whoever calls, the rest to the treasury.              *)
MaySlash(o, f, now, deadline, isCancelled, isInvalidated, remaining) ==
  /\ Active(reg[o][f])
  /\ now > deadline + SlashWindow
  /\ ~isCancelled
  /\ ~isInvalidated
  /\ remaining > 0

(* Fault: the reward is paid on top of the stake.                          *)
slashStake_RewardOnTop(o, f, caller) ==
  LET stake == reg[o][f].stakeAmount
  IN  /\ reg' = [reg EXCEPT ![o][f].slashed = TRUE]
      /\ pendingReturns' = Credit(Credit(pendingReturns, caller, stake \div 10),
                                  Treasury, stake)
      /\ UNCHANGED <<balance, config>>

slashStake(o, f, caller) ==
  LET stake  == reg[o][f].stakeAmount
      reward == stake \div 10
  IN  /\ reg' = [reg EXCEPT ![o][f].slashed = TRUE]
      /\ pendingReturns' = Credit(Credit(pendingReturns, caller, reward),
                                  Treasury, stake - reward)
      /\ UNCHANGED <<balance, config>>

(* Faults: a dead nonce, or a cancelled order, does not free the stake.    *)
MayRelease_NonceIgnored(o, f, isCancelled, isInvalidated, remaining) ==
  Active(reg[o][f]) /\ (remaining = 0 \/ isCancelled)

MayRelease_CancelIgnored(o, f, isCancelled, isInvalidated, remaining) ==
  Active(reg[o][f]) /\ (remaining = 0 \/ isInvalidated)

(* releaseRegistration: the full stake back to the registrant, on anyone's *)
(* call.                                                                   *)
MayRelease(o, f, isCancelled, isInvalidated, remaining) ==
  /\ Active(reg[o][f])
  /\ remaining = 0 \/ isCancelled \/ isInvalidated

releaseStake(o, f) ==
  /\ reg' = [reg EXCEPT ![o][f].released = TRUE]
  /\ pendingReturns' = Credit(pendingReturns, f, reg[o][f].stakeAmount)
  /\ UNCHANGED <<balance, config>>

(* withdraw: everything owed to the caller leaves the contract.  The debt  *)
(* is cleared before the transfer and nothing is written after it, so what *)
(* the recipient calls while it holds control is a step of its own.        *)
withdraw(a) ==
  /\ pendingReturns[a] > 0
  /\ balance >= pendingReturns[a]
  /\ balance' = balance - pendingReturns[a]
  /\ pendingReturns' = [pendingReturns EXCEPT ![a] = 0]
  /\ UNCHANGED <<reg, config>>

(* The outcome of setStakeConfig, commitPending or rollback.               *)
reconfigure(c) ==
  /\ c # config
  /\ config' = c
  /\ UNCHANGED <<reg, pendingReturns, balance>>
=============================================================================
