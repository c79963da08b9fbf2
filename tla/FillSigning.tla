------------------------------ MODULE FillSigning ------------------------------
(***************************************************************************)
(* The swapper's list of cross-chain orders                                *)
(* (frontend/src/components/CrossChainOrders.tsx) over the rows of one     *)
(* signed order's fills (crosschainService.ts behind routes/crosschain.ts):*)
(* a list fetched now and then, a form that signs a funded fill with a T1  *)
(* the swapper may bring forward, and one that claims a revealed one.      *)
(*                                                                         *)
(* Fetches overlap and answer in any order; several requests for one fill  *)
(* may be under way; the page draws itself when its state changes, not when*)
(* time passes.  Amounts, the escrow's output and the hashes a panel shows *)
(* decide nothing and are left out; what a claim does is CrossChainSwap's, *)
(* why the watchers move a row CrossChainRelay's.                          *)
(***************************************************************************)
EXTENDS Integers, FiniteSets

CONSTANTS
  FillIds,    \* in the order of their quotes
  MINUTE,     \* in seconds
  Proposals,  \* the T1s that each fill may be quoted with
  Typed,      \* minutes that may be typed
  MaxTime,    \* bound
  MaxFetches, \* bound: fetches of the list under way at once
  MaxMoves,   \* bound: what the watchers do to the rows
  MaxPresses  \* bound: what the swapper does on the page

ASSUME SigningAssumption ==
  /\ FillIds \subseteq Nat /\ MINUTE \in Nat \ {0}
  /\ \A h \in FillIds : Proposals[h] \subseteq Nat \ {0}
  /\ Typed \subseteq Int
  /\ MaxTime \in Nat /\ MaxFetches \in Nat /\ MaxMoves \in Nat /\ MaxPresses \in Nat

NoFill == -1
NoRow  == [status |-> "none", t1 |-> 0, swapperSig |-> 0]
NoRows == [h \in FillIds |-> NoRow]

VARIABLES
  clock,
  proposed,  \* history: the T1 a fill was quoted with, 0 before that
  rows,      \* cc_fills; a signature is known by the T1 it is over, 0 is none
  fetches,   \* the answers on their way, as the backend read the rows
  listed,    \* the page has the order's card,
  shown,     \*   with these fills
  openFill,  \* the fill whose form or detail is open
  minutes,   \* what the sign form says, 0 where there is none
  drawn,     \* when it was drawn
  busy,      \* busyFillId
  requests,  \* the sign requests under way
  claims,    \* the fills whose claim is under way
  moves, presses

pageVars    == <<listed, shown, openFill, minutes, drawn, busy>>
signingVars == <<clock, proposed, rows, fetches, pageVars, requests, claims, moves, presses>>

SigningInit ==
  /\ clock = 0 /\ proposed = [h \in FillIds |-> 0] /\ rows = NoRows
  /\ fetches = {}
  /\ listed = FALSE /\ shown = NoRows /\ openFill = NoFill
  /\ minutes = 0 /\ drawn = 0 /\ busy = NoFill
  /\ requests = {} /\ claims = {} /\ moves = 0 /\ presses = 0

-----------------------------------------------------------------------------
(* The rows.  A filler quotes; the watchers move a row along.              *)
createFillQuote(h, t1) ==
  /\ rows[h].status = "none" /\ \A g \in FillIds : g < h => rows[g].status # "none"
  /\ rows' = [rows EXCEPT ![h] = [@ EXCEPT !.status = "quoted", !.t1 = t1]]
  /\ proposed' = [proposed EXCEPT ![h] = t1]
  /\ UNCHANGED <<clock, fetches, pageVars, requests, claims, presses, moves>>

Moves ==
  { <<"quoted", "dst_funded">>, <<"authorized", "src_locked">>, <<"src_locked", "revealed">>,
    <<"revealed", "claimed">>, <<"authorized", "slashed">>, <<"src_locked", "slashed">> }

Record(h) ==
  /\ moves < MaxMoves /\ moves' = moves + 1
  /\ \E m \in Moves : m[1] = rows[h].status /\ rows' = [rows EXCEPT ![h].status = m[2]]
  /\ UNCHANGED <<clock, proposed, fetches, pageVars, requests, claims, presses>>

Second ==
  /\ clock < MaxTime /\ clock' = clock + 1
  /\ UNCHANGED <<proposed, rows, fetches, pageVars, requests, claims, moves, presses>>

-----------------------------------------------------------------------------
(* The list.                                                               *)
NeedsAction(row) == row.status \in {"dst_funded", "revealed"}

Pending(row) == row.status \notin {"none", "claimed", "slashed"}

(* The first fill that waits for the swapper.                              *)
FirstWaiting(list, h) ==
  NeedsAction(list[h]) /\ \A g \in FillIds : NeedsAction(list[g]) => h <= g

Form(list, open) == open # NoFill /\ list[open].status = "dst_funded"

Shorter(a, b) == IF a < b THEN a ELSE b
Longer(a, b)  == IF a > b THEN a ELSE b

maxMin(row, at) == Longer(0, (row.t1 - at) \div MINUTE)

(* The card is drawn with this list and open fill: a form that was not     *)
(* there starts at its maximum, one that was keeps what it said, be it of  *)
(* another fill.                                                           *)
Draw(list, open) ==
  /\ shown' = list /\ openFill' = open /\ drawn' = clock
  /\ minutes' = IF ~Form(list, open) THEN 0
                ELSE IF Form(shown, openFill) THEN minutes ELSE maxMin(list[open], clock)

(* getCrossChainOrder, which answers later.                                *)
Ask(ends) ==
  /\ Cardinality(fetches) < MaxFetches
  /\ fetches' = fetches \cup {[rows |-> rows, ends |-> ends]}

(* As the page opens, by the poll, which runs while a fill it shows is     *)
(* pending, or by hand.                                                    *)
FetchOrders ==
  /\ \/ (~listed \/ \E h \in FillIds : Pending(shown[h])) /\ UNCHANGED presses
     \/ listed /\ presses < MaxPresses /\ presses' = presses + 1
  /\ Ask(FALSE)
  /\ UNCHANGED <<clock, proposed, rows, pageVars, requests, claims, moves>>

EndsBusy(f) == busy' = IF f.ends THEN NoFill ELSE busy

(* The answer replaces the list, whatever has been shown since; the next   *)
(* fill that waits opens if none is.                                       *)
FetchArrives(f) ==
  /\ f \in fetches /\ fetches' = fetches \ {f}
  /\ \/ /\ \/ openFill # NoFill /\ f.rows[openFill].status # "none"
           \/ \A h \in FillIds : ~NeedsAction(f.rows[h])
        /\ Draw(f.rows, openFill)
     \/ /\ openFill # NoFill => f.rows[openFill].status = "none"
        /\ \E h \in FillIds : FirstWaiting(f.rows, h) /\ Draw(f.rows, h)
  /\ listed' = TRUE /\ EndsBusy(f)
  /\ UNCHANGED <<clock, proposed, rows, requests, claims, presses, moves>>

(* An error of the backend empties the list, one on the way changes nothing*)
FetchFails(f) ==
  /\ f \in fetches /\ fetches' = fetches \ {f}
  /\ \/ Draw(NoRows, NoFill) /\ listed' = FALSE
     \/ UNCHANGED <<shown, openFill, minutes, drawn, listed>>
  /\ EndsBusy(f)
  /\ UNCHANGED <<clock, proposed, rows, requests, claims, presses, moves>>

-----------------------------------------------------------------------------
(* The card and its forms.                                                 *)
Press == presses < MaxPresses /\ presses' = presses + 1

Toggle(h) ==
  /\ Press /\ shown[h].status # "none"
  /\ Draw(shown, IF openFill = h THEN NoFill ELSE h)
  /\ UNCHANGED <<clock, proposed, rows, fetches, listed, busy, requests, claims, moves>>

cap == maxMin(shown[openFill], drawn)

Says(m) ==
  /\ minutes' = m /\ drawn' = IF m = minutes THEN drawn ELSE clock
  /\ UNCHANGED <<clock, proposed, rows, fetches, listed, shown, openFill, busy, requests, claims, moves>>

(* Every second the minutes are brought down to what is left.              *)
Reclamp ==
  /\ Form(shown, openFill) /\ minutes > maxMin(shown[openFill], clock)
  /\ Says(maxMin(shown[openFill], clock)) /\ UNCHANGED presses

TypeMinutes(m) ==
  /\ Press /\ Form(shown, openFill) /\ cap >= 1
  /\ Says(Shorter(cap, Longer(1, m)))

(* Fault: the minutes are trusted, which may be those of another fill.     *)
chosenT1_Unclamped == drawn + minutes * MINUTE

chosenT1 == Shorter(shown[openFill].t1, drawn + minutes * MINUTE)

(* signFill asks the wallet for a signature over what is shown ...         *)
PressSign ==
  /\ Press /\ Form(shown, openFill) /\ cap >= 1 /\ busy # openFill
  /\ requests' = requests \cup {[pc |-> "wallet", fill |-> openFill, t1 |-> chosenT1]}
  /\ busy' = openFill /\ drawn' = clock
  /\ UNCHANGED <<clock, proposed, rows, fetches, listed, shown, openFill, minutes, claims, moves>>

GoesOn(r, pc) == requests' = (requests \ {r}) \cup {[r EXCEPT !.pc = pc]}

WalletSigns(r) ==
  /\ r \in requests /\ r.pc = "wallet" /\ GoesOn(r, "sent")
  /\ UNCHANGED <<clock, proposed, rows, fetches, pageVars, claims, presses, moves>>

(* ... which setFillSwapperSig takes for a row whose escrow is confirmed,  *)
(* for the row's T1 or an earlier one that is not over ...                 *)
ServiceReads(r) ==
  /\ r \in requests /\ r.pc = "sent"
  /\ rows[r.fill].status = "dst_funded"
  /\ r.t1 = rows[r.fill].t1 \/ (clock < r.t1 /\ r.t1 < rows[r.fill].t1)
  /\ GoesOn(r, "checked")
  /\ UNCHANGED <<clock, proposed, rows, fetches, pageVars, claims, presses, moves>>

(* Fault: the row keeps the T1 that was proposed.                          *)
setFillSwapperSig_KeepsT1(row, r) ==
  [row EXCEPT !.status = "authorized", !.swapperSig = r.t1]

setFillSwapperSig(row, r) ==
  [row EXCEPT !.status = "authorized", !.t1 = r.t1, !.swapperSig = r.t1]

(* ... and writes whatever the row has become by then.                     *)
ServiceWrites(r) ==
  /\ r \in requests /\ r.pc = "checked" /\ GoesOn(r, "written")
  /\ rows' = [rows EXCEPT ![r.fill] = setFillSwapperSig(@, r)]
  /\ UNCHANGED <<clock, proposed, fetches, pageVars, claims, presses, moves>>

(* The page fetches the list again, and ends being busy with it.           *)
SignAnswered(r) ==
  /\ r \in requests /\ r.pc = "written" /\ requests' = requests \ {r} /\ Ask(TRUE)
  /\ UNCHANGED <<clock, proposed, rows, pageVars, claims, presses, moves>>

(* The wallet or the backend refuses, or an answer is lost.                *)
SignFails(r) ==
  /\ r \in requests /\ requests' = requests \ {r}
  /\ busy' = NoFill /\ drawn' = clock
  /\ UNCHANGED <<clock, proposed, rows, fetches, listed, shown, openFill, minutes, claims, presses, moves>>

(* claimFill.                                                              *)
PressClaim ==
  /\ Press /\ openFill # NoFill /\ shown[openFill].status = "revealed" /\ busy # openFill
  /\ claims' = claims \cup {openFill} /\ busy' = openFill
  /\ UNCHANGED <<clock, proposed, rows, fetches, listed, shown, openFill, minutes, drawn, requests, moves>>

(* It went through, or it did not: the network, the wallet or the escrow.  *)
ClaimEnds(h) ==
  /\ h \in claims /\ claims' = claims \ {h}
  /\ \/ Ask(TRUE) /\ UNCHANGED <<busy, drawn>>
     \/ busy' = NoFill /\ drawn' = clock /\ UNCHANGED fetches
  /\ UNCHANGED <<clock, proposed, rows, listed, shown, openFill, minutes, requests, presses, moves>>

SigningNext ==
  \/ \E h \in FillIds : Record(h) \/ \E t1 \in Proposals[h] : createFillQuote(h, t1)
  \/ Second \/ FetchOrders
  \/ \E f \in fetches : FetchArrives(f) \/ FetchFails(f)
  \/ \E h \in FillIds : Toggle(h)
  \/ Reclamp \/ \E m \in Typed : TypeMinutes(m)
  \/ PressSign \/ PressClaim \/ \E h \in claims : ClaimEnds(h)
  \/ \E r \in requests :
       WalletSigns(r) \/ ServiceReads(r) \/ ServiceWrites(r) \/ SignAnswered(r) \/ SignFails(r)

SigningSpec == SigningInit /\ [][SigningNext]_signingVars

-----------------------------------------------------------------------------
(* A T1 is only ever brought forward: what the page asks the wallet to     *)
(* sign is no later than what the filler proposed, though its list is old  *)
(* and its minutes those of another fill, so that the service never has to *)
(* refuse it for that; and the signature that the filler takes from a row  *)
(* is over the T1 beside it, though two requests for it were under way.    *)
NeverExtended ==
  /\ \A r \in requests : r.t1 <= proposed[r.fill]
  /\ \A h \in FillIds :
       /\ rows[h].status \in {"none", "quoted", "dst_funded"}
            => rows[h].t1 = proposed[h] /\ rows[h].swapperSig = 0
       /\ rows[h].status \notin {"none", "quoted", "dst_funded"}
            => rows[h].swapperSig = rows[h].t1 /\ rows[h].t1 <= proposed[h]

(* Why: whatever list the page shows or is being sent, it has the T1s that *)
(* were proposed or earlier ones.                                          *)
RowTypes ==
  [status : {"none", "quoted", "dst_funded", "authorized", "src_locked", "revealed",
             "claimed", "slashed"},
   t1 : Int, swapperSig : Int]

RequestTypes == [pc : {"wallet", "sent", "checked", "written"}, fill : FillIds, t1 : Int]

SigningTypes ==
  /\ clock \in Int /\ drawn \in Int /\ minutes \in Int
  /\ openFill \in FillIds \cup {NoFill}
  /\ proposed \in [FillIds -> Int]
  /\ rows \in [FillIds -> RowTypes] /\ shown \in [FillIds -> RowTypes]
  /\ \A f \in fetches : f.rows \in [FillIds -> RowTypes]
  /\ requests \subseteq RequestTypes

Backed(list) ==
  \A h \in FillIds : list[h].status # "none" =>
     rows[h].status # "none" /\ list[h].t1 <= proposed[h]

SigningInv ==
  /\ SigningTypes /\ NeverExtended
  /\ Backed(shown) /\ \A f \in fetches : Backed(f.rows)
  /\ \A r \in requests : rows[r.fill].status # "none"
=============================================================================
