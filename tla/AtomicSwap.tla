------------------------------ MODULE AtomicSwap ------------------------------
(***************************************************************************)
(* What a cross-chain fill promises its two parties, clocks, secrets and   *)
(* escrows forgotten: the filler's output and the swapper's input are both *)
(* locked before the fill is decided; a decided fill hands over both legs, *)
(* an undecided one gives both back.                                       *)
(*                                                                         *)
(* A fill may drop out of the agreement (waived): another caller took the  *)
(* filler's place, or the swapper signed on two terms.  Each leg of it can *)
(* then go back on its own, decided or not; it still cannot change hands   *)
(* before the fill is decided.                                             *)
(***************************************************************************)
CONSTANT Fills

VARIABLES
  decided,  \* the fills there is no way back from
  waived,   \* the fills that dropped out of the agreement
  input,    \* the swapper's leg: "none", "locked", "taken" or "returned"
  output    \* the filler's leg: "none", "locked", "paid" or "returned"

vars == <<decided, waived, input, output>>

Bound(h) == h \notin waived

Init ==
  /\ decided = {}
  /\ waived = {}
  /\ input = [h \in Fills |-> "none"]
  /\ output = [h \in Fills |-> "none"]

LockOutput(h) ==
  /\ output[h] = "none"
  /\ output' = [output EXCEPT ![h] = "locked"]
  /\ UNCHANGED <<decided, waived, input>>

LockInput(h) ==
  /\ output[h] = "locked" /\ input[h] = "none" /\ h \notin decided
  /\ input' = [input EXCEPT ![h] = "locked"]
  /\ waived' \in {waived, waived \cup {h}}
  /\ UNCHANGED <<decided, output>>

Waive(h) ==
  /\ output[h] # "none"
  /\ waived' = waived \cup {h}
  /\ UNCHANGED <<decided, input, output>>

Decide(h) ==
  /\ output[h] = "locked"
  /\ input[h] = "locked" \/ (~Bound(h) /\ input[h] = "returned")
  /\ decided' = decided \cup {h}
  /\ UNCHANGED <<waived, input, output>>

Take(h) ==
  /\ h \in decided /\ input[h] = "locked"
  /\ input' = [input EXCEPT ![h] = "taken"]
  /\ UNCHANGED <<decided, waived, output>>

Pay(h) ==
  /\ h \in decided /\ output[h] = "locked"
  /\ output' = [output EXCEPT ![h] = "paid"]
  /\ UNCHANGED <<decided, waived, input>>

ReturnInput(h) ==
  /\ h \notin decided \/ ~Bound(h)
  /\ input[h] = "locked"
  /\ input' = [input EXCEPT ![h] = "returned"]
  /\ UNCHANGED <<decided, waived, output>>

ReturnOutput(h) ==
  /\ h \notin decided \/ ~Bound(h)
  /\ output[h] = "locked"
  /\ output' = [output EXCEPT ![h] = "returned"]
  /\ UNCHANGED <<decided, waived, input>>

Next ==
  \E h \in Fills :
    \/ LockOutput(h) \/ LockInput(h) \/ Waive(h) \/ Decide(h)
    \/ Take(h) \/ Pay(h) \/ ReturnInput(h) \/ ReturnOutput(h)

Spec == Init /\ [][Next]_vars
=============================================================================
