----------------------------- MODULE StakeEscrow -----------------------------
(***************************************************************************)
(* What FillAuction promises about the ETH it is given, whatever orders,   *)
(* prices, callbacks and configurations do: a stake is taken once, closed  *)
(* once, and when it closes all of it is owed to its owner, the treasury   *)
(* or one caller; ETH leaves only to an account it is owed to, in full.    *)
(***************************************************************************)
EXTENDS Integers

CONSTANTS Keys, Owner, Accounts, Treasury

VARIABLES
  phase,   \* "none", "held" or "closed"
  stake,   \* what was taken for a key
  owed,    \* what each account may withdraw
  vault    \* the ETH held

vars == <<phase, stake, owed, vault>>

Add(ledger, who, amount) == [ledger EXCEPT ![who] = @ + amount]

Init ==
  /\ phase = [k \in Keys |-> "none"]
  /\ stake = [k \in Keys |-> 0]
  /\ owed = [a \in Accounts |-> 0]
  /\ vault = 0

(* The amount is any natural number, what is sent above it is owed back.   *)
Deposit(k) ==
  LET excess == vault' - vault - stake'[k]
  IN  /\ phase[k] = "none"
      /\ phase' = [phase EXCEPT ![k] = "held"]
      /\ stake'[k] \in Nat
      /\ stake' = [stake EXCEPT ![k] = stake'[k]]
      /\ excess \in Nat
      /\ owed' = Add(owed, Owner[k], excess)

(* Three whole shares that add up to the stake.                            *)
Close(k) ==
  /\ phase[k] = "held"
  /\ phase' = [phase EXCEPT ![k] = "closed"]
  /\ UNCHANGED <<stake, vault>>
  /\ \E caller \in Accounts, toOwner, toCaller \in 0..stake[k] :
       /\ toOwner + toCaller <= stake[k]
       /\ owed' = Add(Add(Add(owed, Owner[k], toOwner), caller, toCaller),
                      Treasury, stake[k] - toOwner - toCaller)

Payout(a) ==
  /\ owed[a] > 0
  /\ vault' = vault - owed[a]
  /\ vault' >= 0
  /\ owed' = [owed EXCEPT ![a] = 0]
  /\ UNCHANGED <<phase, stake>>

Next ==
  \/ \E k \in Keys : Deposit(k)
  \/ \E k \in Keys : Close(k)
  \/ \E a \in Accounts : Payout(a)

Spec == Init /\ [][Next]_vars
=============================================================================
