------------------------ MODULE CrossChainRelayProofs ------------------------
(***************************************************************************)
(* Proofs about CrossChainRelay for any number of fills, blocks, crashes,  *)
(* failures and relayer polls: what the board shows is always backed by    *)
(* the chains, its status follows the diagram, and a checkpoint covers     *)
(* what is behind it; and about the pages beside it, of swapper and admin. *)
(***************************************************************************)
EXTENDS MCCrossChainPages, TLAPS

(* Events are pairs of a fill and a kind, each on its chain.               *)
LEMMA EventFacts ==
  /\ \A h \in Fills, k \in Kinds : <<h, k>> \in Events
  /\ \A e \in Events : e[1] \in Fills /\ e[2] \in Kinds /\ e = <<e[1], e[2]>>
  /\ \A e \in Events : ChainOf(e) \in Chains
  /\ \A h \in Fills :
       /\ ChainOf(<<h, "EscrowCreated">>) = "dst"
       /\ ChainOf(<<h, "Filled">>) = "src"
       /\ ChainOf(<<h, "Withdrawn">>) = "src"
       /\ ChainOf(<<h, "Cancelled">>) = "src"
BY DEF Events, Kinds, ChainOf, Chains

(* The initial state satisfies the invariant.                              *)
LEMMA InitInvariant ==
  Init => IInv
<1> SUFFICES ASSUME Init PROVE IInv
  OBVIOUS
<1>1. TypeOK
  BY DEF Init, TypeOK, Statuses
<1>2. \A h \in Fills, k \in Kinds : ~Happened(h, k)
  BY EventFacts DEF Init, Happened
<1>3. BoardNeverAhead
  BY <1>2 DEF Init, BoardNeverAhead, Verified, Signed, Locked
<1>4. EventOrder
  <2>1. \A e \in Events : at[e] <= tip[ChainOf(e)]
    BY EventFacts DEF Init
  <2>2. \A h \in Fills : dst[h] = "none"
    BY DEF Init
  <2> QED BY <1>2, <2>1, <2>2, Zenon DEF EventOrder, Kinds
<1>5. RowsConsistent /\ KnownIfLocked
  <2>1. ASSUME NEW h \in Fills
        PROVE  /\ status[h] = "none" /\ h \notin known /\ h \notin foreign /\ h \notin sent
               /\ ~(signing[h] > 0) /\ ~(checked[h] > 0)
    BY DEF Init
  <2>2. "none" \notin Locked
    BY DEF Locked
  <2> QED
    BY <2>1, <2>2 DEF RowsConsistent, KnownIfLocked
<1>6. WatcherConsistent
  BY DEF Init, WatcherConsistent
<1>7. WatcherCovers /\ CheckpointCovers
  BY EventFacts DEF Init, WatcherCovers, CheckpointCovers
<1> QED
  BY <1>1, <1>3, <1>4, <1>5, <1>6, <1>7 DEF IInv

(* Emit puts one event into a new block of its chain.                      *)
LEMMA EmitFacts ==
  ASSUME TypeOK, NEW e \in Events, Emit(e)
  PROVE  /\ at[e] = 0 /\ at' \in [Events -> Nat] /\ tip' \in [Chains -> Nat]
         /\ at'[e] = tip[ChainOf(e)] + 1 /\ tip'[ChainOf(e)] = tip[ChainOf(e)] + 1
         /\ \A d \in Events : d # e => at'[d] = at[d]
         /\ \A c \in Chains : c # ChainOf(e) => tip'[c] = tip[c]
<1>1. PICK c \in Chains : c = ChainOf(e)
  BY EventFacts
<1>2. tip[c] \in Nat /\ tip \in [Chains -> Nat] /\ at \in [Events -> Nat]
  BY DEF TypeOK
<1>3. at[e] = 0 /\ tip' = [tip EXCEPT ![c] = tip[c] + 1] /\ at' = [at EXCEPT ![e] = tip[c] + 1]
  BY <1>1 DEF Emit
<1> QED
  BY <1>1, <1>2, <1>3

(* Every step keeps the variables in their ranges.                         *)
LEMMA TypeStep ==
  ASSUME TypeOK, [Next]_vars
  PROVE  TypeOK'
<1> USE RelayAssumption DEF TypeOK
<1>1. ASSUME NEW h \in Fills, ChainStep(h) PROVE TypeOK'
  <2>1. CASE FundDst(h)
    <3> <<h, "EscrowCreated">> \in Events /\ Emit(<<h, "EscrowCreated">>)
      BY <2>1, EventFacts DEF FundDst, Kinds
    <3> at' \in [Events -> Nat] /\ tip' \in [Chains -> Nat]
      BY EmitFacts
    <3> QED
      BY <2>1 DEF FundDst, chainOnly, boardVars, signVars, watcherVars, relayVars, faultVars
  <2>2. CASE FillSlot(h)
    <3> <<h, "Filled">> \in Events /\ Emit(<<h, "Filled">>)
      BY <2>2, EventFacts DEF FillSlot, Kinds
    <3> at' \in [Events -> Nat] /\ tip' \in [Chains -> Nat]
      BY EmitFacts
    <3> QED
      BY <2>2 DEF FillSlot, chainOnly, boardVars, signVars, watcherVars, relayVars, faultVars
  <2>3. CASE Withdraw(h)
    <3> <<h, "Withdrawn">> \in Events /\ Emit(<<h, "Withdrawn">>)
      BY <2>3, EventFacts DEF Withdraw, Kinds
    <3> at' \in [Events -> Nat] /\ tip' \in [Chains -> Nat]
      BY EmitFacts
    <3> QED
      BY <2>3 DEF Withdraw, chainOnly, boardVars, signVars, watcherVars, relayVars, faultVars
  <2>4. CASE Cancel(h)
    <3> <<h, "Cancelled">> \in Events /\ Emit(<<h, "Cancelled">>)
      BY <2>4, EventFacts DEF Cancel, Kinds
    <3> at' \in [Events -> Nat] /\ tip' \in [Chains -> Nat]
      BY EmitFacts
    <3> QED
      BY <2>4 DEF Cancel, chainOnly, boardVars, signVars, watcherVars, relayVars, faultVars
  <2>5. CASE ClaimBySwapper(h)
    BY <2>5 DEF ClaimBySwapper, chainOnly, boardVars, signVars, watcherVars, relayVars, faultVars
  <2>6. CASE Refund(h)
    BY <2>6 DEF Refund, chainOnly, boardVars, signVars, watcherVars, relayVars, faultVars
  <2>7. CASE PassTime(h)
    <3> passed[h] \in 0..2 /\ passed[h] < 2
      BY <2>7 DEF PassTime
    <3> QED
      BY <2>7 DEF PassTime, chainOnly, boardVars, signVars, watcherVars, relayVars, faultVars
  <2> QED
    BY <1>1, <2>1, <2>2, <2>3, <2>4, <2>5, <2>6, <2>7 DEF ChainStep
<1>2. ASSUME NEW h \in Fills, ClientStep(h) PROVE TypeOK'
  <2>1. CASE Quote(h)
    BY <2>1 DEF Quote, chainVars, signVars, watcherVars, relayVars, faultVars, Statuses
  <2>2. CASE StartSign(h)
    BY <2>2 DEF StartSign, chainVars, boardVars, watcherVars, relayVars, faultVars
  <2>3. CASE FinishSign(h)
    BY <2>3 DEF FinishSign, chainVars, watcherVars, relayVars, faultVars, Statuses
  <2> QED
    BY <1>2, <2>1, <2>2, <2>3 DEF ClientStep
<1>3. ASSUME NEW h \in Fills, RelayStep(h) PROVE TypeOK'
  <2>1. CASE RelayPoll(h)
    BY <2>1 DEF RelayPoll, chainVars, boardVars, signVars, watcherVars, faultVars
  <2>2. CASE RelayClaim(h)
    BY <2>2 DEF RelayClaim, boardVars, signVars, watcherVars, faultVars
  <2>3. CASE RecordClaimed(h)
    BY <2>3 DEF RecordClaimed, recordClaimed, Advance, chainVars, signVars, watcherVars, Statuses
  <2> QED
    BY <1>3, <2>1, <2>2, <2>3 DEF RelayStep
<1>4. ASSUME NEW c \in Chains, WatcherStep(c) PROVE TypeOK'
  <2>1. CASE Connect(c)
    BY <2>1 DEF Connect, resolveCheckpoint, chainVars, signVars, relayVars, faultVars
  <2>2. CASE SeeBlock(c)
    BY <2>2 DEF SeeBlock, chainVars, boardVars, signVars, relayVars, faultVars
  <2>3. CASE StartDrain(c)
    BY <2>3 DEF StartDrain, chainVars, boardVars, signVars, relayVars, faultVars
  <2>4. CASE FinishDrain(c)
    BY <2>4 DEF FinishDrain, chainVars, signVars, relayVars
  <2>5. ASSUME NEW e \in Events, HandleNext(c, e) PROVE TypeOK'
    <3>1. status' \in [Fills -> Statuses] /\ known' \subseteq Fills
      <4>1. e[1] \in Fills /\ HandleLog(e)
        BY <2>5, EventFacts DEF HandleNext
      <4>2. ASSUME NEW from, NEW into \in Statuses, Advance(e[1], from, into)
            PROVE  status' \in [Fills -> Statuses]
        BY <4>1, <4>2 DEF Advance
      <4>3. "dst_funded" \in Statuses /\ "src_locked" \in Statuses
            /\ "revealed" \in Statuses /\ "slashed" \in Statuses
        BY DEF Statuses
      <4>4. CASE e[2] = "Filled" /\ recordSrcLocked(e[1])
        BY <4>1, <4>2, <4>3, <4>4 DEF recordSrcLocked
      <4> QED
        BY <4>1, <4>2, <4>3, <4>4 DEF HandleLog, handleEscrowCreated, handleFilled, handleSrcEscrowLog,
             recordDstFunded, recordReveal, recordSlashed
    <3> QED
      BY <2>5, <3>1 DEF HandleNext, chainVars, signVars, relayVars, faultVars
  <2>6. ASSUME NEW e \in Events, SkipNext(c, e) PROVE TypeOK'
    BY <2>6 DEF SkipNext, chainVars, boardVars, signVars, relayVars
  <2> QED
    BY <1>4, <2>1, <2>2, <2>3, <2>4, <2>5, <2>6 DEF WatcherStep
<1>5. ASSUME NEW c \in Chains, EmptyBlock(c) PROVE TypeOK'
  BY <1>5 DEF EmptyBlock, chainOnly, boardVars, signVars, watcherVars, relayVars, faultVars
<1>6. CASE Crash
  BY <1>6 DEF Crash, chainVars, boardVars
<1>7. CASE UNCHANGED vars
  BY <1>7 DEF vars, chainVars, boardVars, signVars, watcherVars, relayVars, faultVars
<1> QED
  BY <1>1, <1>2, <1>3, <1>4, <1>5, <1>6, <1>7 DEF Next

-----------------------------------------------------------------------------
(* What a step does to the chains: blocks are only added, an event once in *)
(* a block stays there, a new one is in a new block, and a destination     *)
(* escrow only moves on.                                                   *)
LEMMA ChainMoves ==
  ASSUME IInv, [Next]_vars
  PROVE  /\ \A c \in Chains : tip[c] <= tip'[c]
         /\ \A e \in Events :
              \/ at'[e] = at[e]
              \/ at[e] = 0 /\ at'[e] = tip[ChainOf(e)] + 1 /\ at'[e] = tip'[ChainOf(e)]
         /\ \A h \in Fills :
              \/ dst'[h] = dst[h]
              \/ dst[h] = "none" /\ dst'[h] = "open" /\ Happened(h, "EscrowCreated")'
              \/ dst[h] = "open" /\ dst'[h] \in {"claimed", "refunded"}
<1> DEFINE Advances ==
     /\ \A c \in Chains : tip[c] <= tip'[c]
     /\ \A e \in Events :
          \/ at'[e] = at[e]
          \/ at[e] = 0 /\ at'[e] = tip[ChainOf(e)] + 1 /\ at'[e] = tip'[ChainOf(e)]
     /\ \A h \in Fills :
          \/ dst'[h] = dst[h]
          \/ dst[h] = "none" /\ dst'[h] = "open" /\ Happened(h, "EscrowCreated")'
          \/ dst[h] = "open" /\ dst'[h] \in {"claimed", "refunded"}
<1> SUFFICES Advances
  OBVIOUS
<1>1. TypeOK /\ tip \in [Chains -> Nat] /\ at \in [Events -> Nat]
      /\ dst \in [Fills -> {"none", "open", "claimed", "refunded"}]
  BY DEF IInv, TypeOK
<1>2. ASSUME NEW e \in Events, Emit(e), dst' = dst PROVE Advances
  BY <1>1, <1>2, EmitFacts, EventFacts
<1>3. ASSUME NEW h \in Fills, ChainStep(h) PROVE Advances
  <2>1. CASE FundDst(h)
    <3>1. <<h, "EscrowCreated">> \in Events /\ Emit(<<h, "EscrowCreated">>)
      BY <2>1, EventFacts DEF FundDst, Kinds
    <3>2. Happened(h, "EscrowCreated")'
      BY <1>1, <3>1, EmitFacts, EventFacts DEF Happened
    <3>3. dst[h] = "none" /\ dst' = [dst EXCEPT ![h] = "open"]
      BY <2>1 DEF FundDst
    <3>4. /\ \A c \in Chains : tip[c] <= tip'[c]
          /\ \A e \in Events :
               \/ at'[e] = at[e]
               \/ at[e] = 0 /\ at'[e] = tip[ChainOf(e)] + 1 /\ at'[e] = tip'[ChainOf(e)]
      BY <1>1, <3>1, EmitFacts, EventFacts
    <3>5. ASSUME NEW g \in Fills
          PROVE  dst'[g] = dst[g] \/ (g = h /\ dst'[g] = "open")
      <4>1. dst \in [Fills -> {"none", "open", "claimed", "refunded"}]
        BY <1>1
      <4> QED
        BY <3>3, <4>1
    <3> QED
      BY <3>2, <3>3, <3>4, <3>5
  <2>2. CASE FillSlot(h)
    BY <1>2, <2>2, EventFacts DEF FillSlot, Kinds
  <2>3. CASE Withdraw(h)
    BY <1>2, <2>3, EventFacts DEF Withdraw, Kinds
  <2>4. CASE Cancel(h)
    BY <1>2, <2>4, EventFacts DEF Cancel, Kinds
  <2>5. CASE ClaimBySwapper(h)
    BY <1>1, <2>5 DEF ClaimBySwapper
  <2>6. CASE Refund(h)
    BY <1>1, <2>6 DEF Refund
  <2>7. CASE PassTime(h)
    BY <1>1, <2>7 DEF PassTime
  <2> QED
    BY <1>3, <2>1, <2>2, <2>3, <2>4, <2>5, <2>6, <2>7 DEF ChainStep
<1>4. ASSUME UNCHANGED <<tip, at, dst>> PROVE Advances
  BY <1>1, <1>4
<1>5. ASSUME NEW h \in Fills, ClientStep(h) PROVE Advances
  BY <1>4, <1>5 DEF ClientStep, Quote, StartSign, FinishSign, chainVars
<1>6. ASSUME NEW h \in Fills, RelayStep(h) PROVE Advances
  <2>1. CASE RelayClaim(h)
    BY <1>1, <2>1 DEF RelayClaim
  <2> QED
    BY <1>4, <1>6, <2>1 DEF RelayStep, RelayPoll, RecordClaimed, chainVars
<1>7. ASSUME NEW c \in Chains, WatcherStep(c) PROVE Advances
  BY <1>4, <1>7 DEF WatcherStep, Connect, SeeBlock, StartDrain, FinishDrain, HandleNext,
                    SkipNext, chainVars
<1>8. ASSUME NEW c \in Chains, EmptyBlock(c) PROVE Advances
  BY <1>1, <1>8 DEF EmptyBlock
<1>9. CASE Crash
  BY <1>4, <1>9 DEF Crash, chainVars
<1>10. CASE UNCHANGED vars
  BY <1>4, <1>10 DEF vars, chainVars
<1> QED
  BY <1>3, <1>5, <1>6, <1>7, <1>8, <1>9, <1>10 DEF Next

(* Whether a clone carries the quoted terms is settled when it is deployed.*)
LEMMA GenuineStays ==
  ASSUME IInv, [Next]_vars
  PROVE  /\ genuine \subseteq genuine'
         /\ \A h \in Fills :
              Happened(h, "EscrowCreated") /\ h \in genuine' => h \in genuine
<1>1. ASSUME NEW h \in Fills, FundDst(h)
      PROVE  ~Happened(h, "EscrowCreated") /\ genuine' \in {genuine, genuine \cup {h}}
  BY <1>1 DEF FundDst, IInv, EventOrder
<1>2. CASE \A h \in Fills : ~FundDst(h)
  <2>1. genuine' = genuine
    BY <1>2 DEF Next, ChainStep, FillSlot, Withdraw, Cancel, ClaimBySwapper, Refund, PassTime,
       ClientStep, Quote, StartSign, FinishSign, WatcherStep, Connect, SeeBlock, StartDrain,
       FinishDrain, HandleNext, SkipNext, RelayStep, RelayPoll, RelayClaim, RecordClaimed,
       EmptyBlock, Crash, chainVars, vars
  <2> QED
    BY <2>1
<1> QED
  BY <1>1, <1>2

(* Who took a slot is settled when it is filled.                           *)
LEMMA ForeignStays ==
  ASSUME IInv, [Next]_vars
  PROVE  /\ foreign \subseteq foreign'
         /\ \A h \in Fills :
              /\ Happened(h, "Filled") /\ h \in foreign' => h \in foreign
              /\ h \in foreign' => Happened(h, "Filled")'
<1>1. ASSUME NEW h \in Fills, Happened(h, "Filled") PROVE Happened(h, "Filled")'
  BY <1>1, ChainMoves, EventFacts DEF Happened, Kinds
<1>2. ASSUME NEW h \in Fills PROVE h \in foreign => Happened(h, "Filled")
  BY DEF IInv, RowsConsistent
<1>3. ASSUME NEW h \in Fills, FillSlot(h)
      PROVE  /\ ~Happened(h, "Filled") /\ Happened(h, "Filled")'
             /\ foreign' \in {foreign, foreign \cup {h}}
  <2>1. <<h, "Filled">> \in Events /\ Emit(<<h, "Filled">>) /\ foreign' \in {foreign, foreign \cup {h}}
    BY <1>3, EventFacts DEF FillSlot, Kinds
  <2>2. TypeOK /\ ChainOf(<<h, "Filled">>) = "src" /\ tip["src"] \in Nat
    BY EventFacts DEF IInv, TypeOK, Chains
  <2>3. at[<<h, "Filled">>] = 0 /\ at'[<<h, "Filled">>] = tip["src"] + 1
    BY <2>1, <2>2, EmitFacts
  <2> QED
    BY <2>1, <2>2, <2>3 DEF Happened
<1>4. CASE \A h \in Fills : ~FillSlot(h)
  <2>1. foreign' = foreign
    BY <1>4 DEF Next, ChainStep, FundDst, Withdraw, Cancel, ClaimBySwapper, Refund, PassTime,
       ClientStep, Quote, StartSign, FinishSign, WatcherStep, Connect, SeeBlock, StartDrain,
       FinishDrain, HandleNext, SkipNext, RelayStep, RelayPoll, RelayClaim, RecordClaimed,
       EmptyBlock, Crash, chainVars, vars
  <2> QED
    BY <1>1, <1>2, <2>1
<1> QED
  BY <1>1, <1>2, <1>3, <1>4

(* Only a sign request sets a fill back, and it is marked for good.        *)
LEMMA SetBackStays ==
  ASSUME IInv, [Next]_vars
  PROVE  /\ setBack \subseteq setBack'
         /\ setBack' # setBack => \E h \in Fills : FinishSign(h)
BY DEF Next, ChainStep, FundDst, FillSlot, Withdraw, Cancel, ClaimBySwapper, Refund, PassTime,
   ClientStep, Quote, StartSign, FinishSign, WatcherStep, Connect, SeeBlock, StartDrain,
   FinishDrain, HandleNext, SkipNext, RelayStep, RelayPoll, RelayClaim, RecordClaimed,
   EmptyBlock, Crash, chainOnly, signVars, vars

(* What has happened stays so.                                             *)
LEMMA HappenedStays ==
  ASSUME IInv, [Next]_vars, NEW h \in Fills, NEW k \in Kinds, Happened(h, k)
  PROVE  Happened(h, k)' /\ at'[<<h, k>>] = at[<<h, k>>]
BY ChainMoves, EventFacts DEF Happened

(* An event a watcher has read has happened.                               *)
LEMMA TodoHappened ==
  ASSUME IInv, NEW c \in Chains, NEW e \in todo[c]
  PROVE  e \in Events /\ Happened(e[1], e[2]) /\ ChainOf(e) = c /\ at[e] \in 1..upTo[c]
<1>1. e \in Events /\ e = <<e[1], e[2]>>
  BY EventFacts DEF IInv, TypeOK
<1>2. ChainOf(e) = c /\ at[e] \in 1..upTo[c] /\ upTo[c] \in Nat /\ at[e] \in Nat
  BY <1>1 DEF IInv, TypeOK, WatcherConsistent
<1> QED
  BY <1>1, <1>2 DEF Happened

(* A row's status only takes the steps of the diagram, or those of a fill  *)
(* that a late sign request sets back or has set back.                     *)
LEMMA StatusMoves ==
  ASSUME IInv, [Next]_vars, NEW h \in Fills
  PROVE  \/ status'[h] = status[h]
         \/ <<status[h], status'[h]>> \in Diagram
         \/ LateSignature(h) /\ h \in setBack'
         \/ SlashedSetBack(h)
<1> DEFINE Advances ==
     \/ status'[h] = status[h]
     \/ <<status[h], status'[h]>> \in Diagram
     \/ LateSignature(h) /\ h \in setBack'
     \/ SlashedSetBack(h)
<1>1. status \in [Fills -> Statuses] /\ known \subseteq Fills
  BY DEF IInv, TypeOK
<1>2. ASSUME UNCHANGED status PROVE Advances
  BY <1>2
<1>3. ASSUME NEW g \in Fills, ClientStep(g) PROVE Advances
  <2>1. CASE Quote(g)
    BY <1>1, <2>1 DEF Quote, Diagram
  <2>2. CASE StartSign(g)
    BY <2>2 DEF StartSign, boardVars
  <2>3. CASE FinishSign(g)
    <3>1. CASE g # h
      BY <1>1, <2>3, <3>1 DEF FinishSign
    <3>2. CASE g = h
      <4>1. signing[h] > 0 /\ signing \in [Fills -> Nat]
        BY <2>3, <3>2 DEF FinishSign, IInv, TypeOK
      <4>2. status[h] \in Verified
        BY <4>1 DEF IInv, RowsConsistent
      <4>3. status'[h] = "authorized" /\ signing'[h] = signing[h] - 1
        BY <1>1, <2>3, <3>2, <4>1 DEF FinishSign
      <4>4. signing'[h] < signing[h]
        BY <4>1, <4>3
      <4>5. status[h] \in Locked => h \in setBack'
        BY <2>3, <3>2 DEF FinishSign
      <4>6. status[h] = "dst_funded" => <<status[h], status'[h]>> \in Diagram
        BY <4>3 DEF Diagram
      <4>7. status[h] \in Locked => LateSignature(h)
        BY <4>3, <4>4 DEF LateSignature
      <4> QED
        BY <4>2, <4>3, <4>5, <4>6, <4>7 DEF Verified, Signed
    <3> QED
      BY <3>1, <3>2
  <2> QED
    BY <1>3, <2>1, <2>2, <2>3 DEF ClientStep
<1>4. ASSUME NEW g \in Fills, RelayStep(g) PROVE Advances
  <2>1. CASE RecordClaimed(g)
    BY <1>1, <2>1 DEF RecordClaimed, recordClaimed, Advance, Diagram
  <2> QED
    BY <1>4, <2>1 DEF RelayStep, RelayPoll, RelayClaim, boardVars
<1>5. ASSUME NEW c \in Chains, NEW e \in Events, HandleNext(c, e) PROVE Advances
  <2>1. HandleLog(e) /\ e[1] \in Fills
    BY <1>5, EventFacts DEF HandleNext
  <2>2. e[1] \in known => e[1] \in setBack \/ status[e[1]] \in Locked
    BY <2>1 DEF IInv, KnownIfLocked
  <2>3. CASE Advance(e[1], {"quoted"}, "dst_funded")
    BY <1>1, <2>1, <2>3 DEF Advance, Diagram
  <2>4. CASE Advance(e[1], {"authorized"}, "src_locked")
    BY <1>1, <2>1, <2>4 DEF Advance, Diagram
  <2>5. CASE Advance(e[1], {"src_locked"}, "revealed")
    BY <1>1, <2>1, <2>5 DEF Advance, Diagram
  <2>6. CASE e[1] \in known /\ Advance(e[1], {"authorized", "src_locked"}, "slashed")
    BY <1>1, <2>1, <2>2, <2>6 DEF Advance, Diagram, Locked, SlashedSetBack
  <2> QED
    BY <1>2, <2>1, <2>3, <2>4, <2>5, <2>6 DEF HandleLog, handleEscrowCreated, handleFilled,
       handleSrcEscrowLog, recordDstFunded, recordReveal, recordSlashed, recordSrcLocked
<1>6. ASSUME NEW c \in Chains, WatcherStep(c) PROVE Advances
  BY <1>5, <1>6 DEF WatcherStep, Connect, SeeBlock, StartDrain, FinishDrain, SkipNext, boardVars
<1>7. ASSUME NEW g \in Fills, ChainStep(g) PROVE Advances
  BY <1>7 DEF ChainStep, FundDst, FillSlot, Withdraw, Cancel, ClaimBySwapper, Refund, PassTime,
              chainOnly, boardVars
<1>8. ASSUME NEW c \in Chains, EmptyBlock(c) PROVE Advances
  BY <1>8 DEF EmptyBlock, chainOnly, boardVars
<1>9. CASE Crash \/ UNCHANGED vars
  BY <1>9 DEF Crash, vars, boardVars
<1> QED
  BY <1>3, <1>4, <1>6, <1>7, <1>8, <1>9 DEF Next

-----------------------------------------------------------------------------
(* The sets of statuses an event leads to are closed under the diagram, and*)
(* so, for a fill never set back, under every step.                        *)
LEMMA StatusStays ==
  ASSUME IInv, [Next]_vars, NEW h \in Fills
  PROVE  /\ status[h] # "none" => status'[h] # "none"
         /\ status[h] \in Verified => status'[h] \in Verified
         /\ status[h] \in Signed => status'[h] \in Signed
         /\ h \notin setBack' =>
              /\ status[h] \in Locked => status'[h] \in Locked
              /\ status[h] \in {"revealed", "claimed"} =>
                   status'[h] \in {"revealed", "claimed"}
              /\ status[h] = "slashed" => status'[h] = "slashed"
<1>1. status[h] \in Verified /\ ~(status[h] \in Signed) => status[h] = "dst_funded"
  BY DEF Verified
<1>2. SlashedSetBack(h) => h \in setBack'
  BY SetBackStays DEF SlashedSetBack
<1>3. CASE status'[h] = status[h]
  BY <1>3
<1>4. CASE <<status[h], status'[h]>> \in Diagram
  BY <1>1, <1>4 DEF Diagram, Verified, Signed, Locked
<1>5. CASE LateSignature(h) /\ h \in setBack'
  BY <1>5 DEF LateSignature, Verified, Signed, Locked
<1>6. CASE SlashedSetBack(h)
  BY <1>2, <1>6 DEF SlashedSetBack, Verified, Signed, Locked
<1> QED
  BY <1>3, <1>4, <1>5, <1>6, StatusMoves

(* What handling a log does to its fill's row.                             *)
LEMMA HandleFacts ==
  ASSUME IInv, NEW e \in Events, HandleLog(e)
  PROVE  /\ \A g \in Fills : g # e[1] => status'[g] = status[g] /\ (g \in known' <=> g \in known)
         /\ \/ status'[e[1]] = status[e[1]] /\ known' = known
            \/ /\ e[2] = "EscrowCreated" /\ e[1] \in genuine /\ status[e[1]] = "quoted"
               /\ status'[e[1]] = "dst_funded" /\ known' = known
            \/ /\ e[2] = "Filled" /\ e[1] \notin foreign /\ status[e[1]] = "authorized"
               /\ status'[e[1]] = "src_locked" /\ known' = known \cup {e[1]}
            \/ /\ e[2] = "Withdrawn" /\ status[e[1]] = "src_locked"
               /\ status'[e[1]] = "revealed" /\ known' = known
            \/ /\ e[2] = "Cancelled" /\ status[e[1]] \in {"authorized", "src_locked"}
               /\ e[1] \notin setBack => status[e[1]] = "src_locked"
               /\ e[1] \in known /\ status'[e[1]] = "slashed" /\ known' = known
<1>1. e[1] \in Fills /\ status \in [Fills -> Statuses] /\ known \subseteq Fills
  BY EventFacts DEF IInv, TypeOK
<1>2. e[1] \in known /\ e[1] \notin setBack => status[e[1]] \in Locked
  BY <1>1 DEF IInv, KnownIfLocked
<1>3. CASE e[2] = "EscrowCreated" /\ e[1] \in genuine /\ recordDstFunded(e[1])
  BY <1>1, <1>3 DEF recordDstFunded, Advance
<1>4. CASE e[2] = "Filled" /\ recordSrcLocked(e[1])
  BY <1>1, <1>4 DEF recordSrcLocked, Advance
<1>5. CASE e[2] = "Withdrawn" /\ e[1] \in known /\ recordReveal(e[1])
  BY <1>1, <1>5 DEF recordReveal, Advance
<1>6. CASE e[2] = "Cancelled" /\ e[1] \in known /\ recordSlashed(e[1])
  BY <1>1, <1>2, <1>6 DEF recordSlashed, Advance, Locked
<1>7. CASE UNCHANGED <<status, known>>
  BY <1>7
<1> QED
  BY <1>3, <1>4, <1>5, <1>6, <1>7 DEF HandleLog, handleEscrowCreated, handleFilled,
                                      handleSrcEscrowLog, assertGenuineDstClone

(* No step takes the board ahead of the chains.                            *)
LEMMA BoardStep ==
  ASSUME IInv, [Next]_vars
  PROVE  BoardNeverAhead'
<1> DEFINE RowBacked(h) ==
     /\ status[h] \in Verified => Happened(h, "EscrowCreated") /\ h \in genuine
     /\ status[h] \in Locked => Happened(h, "Filled") /\ h \notin foreign
     /\ status[h] \in {"revealed", "claimed"} => Happened(h, "Withdrawn")
     /\ status[h] = "slashed" => Happened(h, "Cancelled")
     /\ status[h] = "claimed" => dst[h] = "claimed"
<1> SUFFICES ASSUME NEW h \in Fills PROVE RowBacked(h)'
  BY DEF BoardNeverAhead
<1>1. RowBacked(h)
  BY DEF IInv, BoardNeverAhead
<1>2. /\ Happened(h, "EscrowCreated") => Happened(h, "EscrowCreated")'
      /\ Happened(h, "Filled") => Happened(h, "Filled")'
      /\ Happened(h, "Withdrawn") => Happened(h, "Withdrawn")'
      /\ Happened(h, "Cancelled") => Happened(h, "Cancelled")'
      /\ dst[h] = "claimed" => dst'[h] = "claimed"
      /\ h \in genuine => h \in genuine'
      /\ Happened(h, "Filled") /\ h \notin foreign => h \notin foreign'
  BY HappenedStays, ChainMoves, GenuineStays, ForeignStays DEF Kinds
<1>3. CASE status'[h] = status[h]
  BY <1>1, <1>2, <1>3
<1>4. ASSUME NEW c \in Chains, NEW e \in Events, HandleNext(c, e), status'[h] # status[h]
      PROVE  RowBacked(h)'
  <2>1. HandleLog(e) /\ e \in todo[c]
    BY <1>4 DEF HandleNext, IsNext
  <2>2. Happened(e[1], e[2])
    BY <2>1, TodoHappened
  <2>3. e[1] = h /\ Happened(h, e[2])
    BY <1>4, <2>1, <2>2, HandleFacts
  <2>4. \/ e[2] = "EscrowCreated" /\ h \in genuine /\ status'[h] = "dst_funded"
        \/ /\ e[2] = "Filled" /\ h \notin foreign
           /\ status[h] = "authorized" /\ status'[h] = "src_locked"
        \/ e[2] = "Withdrawn" /\ status[h] = "src_locked" /\ status'[h] = "revealed"
        \/ /\ e[2] = "Cancelled" /\ status[h] \in {"authorized", "src_locked"}
           /\ h \in known /\ status'[h] = "slashed"
    BY <1>4, <2>1, <2>3, HandleFacts
  <2>5. h \in known => Happened(h, "Filled") /\ h \notin foreign
    BY DEF IInv, RowsConsistent
  <2> QED
    BY <1>1, <1>2, <2>3, <2>4, <2>5 DEF Verified, Signed, Locked
<1>5. ASSUME NEW g \in Fills, ClientStep(g), status'[h] # status[h] PROVE RowBacked(h)'
  <2>1. status \in [Fills -> Statuses]
    BY DEF IInv, TypeOK
  <2>2. CASE Quote(g)
    BY <1>5, <2>1, <2>2 DEF Quote, Verified, Signed, Locked
  <2>3. CASE FinishSign(g)
    <3>1. g = h /\ status'[h] = "authorized"
      BY <1>5, <2>1, <2>3 DEF FinishSign
    <3>2. status[h] \in Verified
      BY <2>3, <3>1 DEF FinishSign, IInv, RowsConsistent
    <3> QED
      BY <1>1, <1>2, <3>1, <3>2 DEF Verified, Signed, Locked
  <2> QED
    BY <1>5, <2>2, <2>3 DEF ClientStep, StartSign, boardVars
<1>6. ASSUME NEW g \in Fills, RecordClaimed(g), status'[h] # status[h] PROVE RowBacked(h)'
  <2>1. status[h] = "revealed" /\ status'[h] = "claimed" /\ h \in sent
    BY <1>6 DEF RecordClaimed, recordClaimed, Advance, IInv, TypeOK
  <2>2. dst[h] = "claimed"
    BY <2>1 DEF IInv, RowsConsistent
  <2> QED
    BY <1>1, <1>2, <2>1, <2>2 DEF Verified, Signed, Locked
<1>7. CASE /\ \A c \in Chains, e \in Events : ~HandleNext(c, e)
           /\ \A g \in Fills : ~ClientStep(g) /\ ~RecordClaimed(g)
  <2>1. UNCHANGED status
    BY <1>7 DEF Next, ChainStep, FundDst, FillSlot, Withdraw, Cancel, ClaimBySwapper, Refund,
        PassTime, RelayStep, RelayPoll, RelayClaim, WatcherStep, Connect, SeeBlock, StartDrain,
        FinishDrain, SkipNext, EmptyBlock, Crash, chainOnly, boardVars, vars
  <2> QED
    BY <1>3, <2>1
<1> QED
  BY <1>3, <1>4, <1>5, <1>6, <1>7

(* Any event of a source escrow follows the one that filled its slot.      *)
LEMMA SourceEvents ==
  ASSUME IInv, NEW h \in Fills, NEW k \in Kinds, k # "EscrowCreated", Happened(h, k)
  PROVE  Happened(h, "Filled")
<1>1. at[<<h, "Filled">>] \in Nat /\ at[<<h, "Withdrawn">>] \in Nat /\ at[<<h, "Cancelled">>] \in Nat
  BY EventFacts DEF IInv, TypeOK, Kinds
<1>2. Happened(h, "Withdrawn") => at[<<h, "Filled">>] \in 1..(at[<<h, "Withdrawn">>] - 1)
  BY DEF IInv, EventOrder
<1>3. Happened(h, "Cancelled") => at[<<h, "Filled">>] \in 1..(at[<<h, "Cancelled">>] - 1)
  BY DEF IInv, EventOrder
<1> QED
  BY <1>1, <1>2, <1>3 DEF Kinds, Happened

(* The row of a slot another caller took waits, signed.                    *)
LEMMA ForeignWaits ==
  ASSUME IInv, [Next]_vars, NEW h \in Fills, h \in foreign
  PROVE  status'[h] = "authorized"
<1>1. status[h] \in Signed
  BY DEF IInv, RowsConsistent, EventOrder
<1>2. status'[h] \in Signed
  BY <1>1, StatusStays
<1>3. status'[h] \notin Locked
  BY BoardStep, ForeignStays DEF BoardNeverAhead
<1> QED
  BY <1>2, <1>3 DEF Signed

-----------------------------------------------------------------------------
(* A fill's events come in order.                                          *)
LEMMA EventOrderStep ==
  ASSUME IInv, [Next]_vars
  PROVE  EventOrder'
<1> DEFINE Ordered(h) ==
     /\ dst[h] = "none" <=> ~Happened(h, "EscrowCreated")
     /\ Happened(h, "EscrowCreated") => status[h] # "none"
     /\ Happened(h, "Filled") => status[h] \in Signed
     /\ Happened(h, "Withdrawn") => at[<<h, "Filled">>] \in 1..(at[<<h, "Withdrawn">>] - 1)
     /\ Happened(h, "Cancelled") => at[<<h, "Filled">>] \in 1..(at[<<h, "Cancelled">>] - 1)
     /\ ~(Happened(h, "Withdrawn") /\ Happened(h, "Cancelled"))
<1>1. TypeOK /\ EventOrder /\ tip \in [Chains -> Nat] /\ at \in [Events -> Nat]
  BY DEF IInv, TypeOK
<1>2. TypeOK'
  BY <1>1, TypeStep
<1>3. ASSUME NEW e \in Events PROVE at'[e] <= tip'[ChainOf(e)]
  <2>1. at[e] <= tip[ChainOf(e)] /\ ChainOf(e) \in Chains
    BY <1>1, EventFacts DEF EventOrder
  <2>2. tip[ChainOf(e)] <= tip'[ChainOf(e)]
    BY <2>1, ChainMoves
  <2>3. at'[e] \in Nat /\ at[e] \in Nat /\ tip[ChainOf(e)] \in Nat /\ tip'[ChainOf(e)] \in Nat
    BY <1>1, <1>2, <2>1 DEF TypeOK
  <2> QED
    BY <2>1, <2>2, <2>3, ChainMoves
<1>4. ASSUME NEW h \in Fills PROVE Ordered(h)'
  <2>1. Ordered(h)
    BY <1>1 DEF EventOrder
  <2>2. /\ status[h] \in Signed => status'[h] \in Signed
        /\ status[h] # "none" => status'[h] # "none"
    BY StatusStays
  <2>3. /\ at[<<h, "EscrowCreated">>] \in Nat /\ at[<<h, "Filled">>] \in Nat
        /\ at[<<h, "Withdrawn">>] \in Nat /\ at[<<h, "Cancelled">>] \in Nat
    BY <1>1, EventFacts DEF Kinds
  <2>4. at[<<h, "Filled">>] <= tip["src"] /\ tip["src"] \in Nat
    BY <1>1, EventFacts DEF EventOrder, Kinds, Chains
  <2>5. CASE UNCHANGED <<at, dst>>
    BY <2>1, <2>2, <2>5 DEF Happened
  <2>6. ASSUME NEW g \in Fills, ChainStep(g) PROVE Ordered(h)'
    <3>0. status' = status
      BY <2>6 DEF ChainStep, FundDst, FillSlot, Withdraw, Cancel, ClaimBySwapper, Refund, PassTime,
                  chainOnly, boardVars
    <3>1. CASE FundDst(g)
      <4>1. <<g, "EscrowCreated">> \in Events /\ Emit(<<g, "EscrowCreated">>)
        BY <3>1, EventFacts DEF FundDst, Kinds
      <4>2. \A d \in Events : d # <<g, "EscrowCreated">> => at'[d] = at[d]
        BY <1>1, <4>1, EmitFacts
      <4>3. /\ at'[<<h, "Filled">>] = at[<<h, "Filled">>]
            /\ at'[<<h, "Withdrawn">>] = at[<<h, "Withdrawn">>]
            /\ at'[<<h, "Cancelled">>] = at[<<h, "Cancelled">>]
        BY <4>2, EventFacts DEF Kinds
      <4>4. CASE g = h
        <5>1. at'[<<h, "EscrowCreated">>] = tip["dst"] + 1 /\ tip["dst"] \in Nat
          BY <1>1, <4>1, <4>4, EmitFacts, EventFacts DEF Chains
        <5>2. dst'[h] = "open" /\ status[h] # "none"
          <6>1. dst \in [Fills -> {"none", "open", "claimed", "refunded"}]
            BY <1>1, Zenon DEF TypeOK
          <6>2. dst' = [dst EXCEPT ![h] = "open"] /\ status[h] # "none"
            BY <3>1, <4>4, Zenon DEF FundDst
          <6> QED BY <6>1, <6>2
        <5> QED
          BY <2>1, <3>0, <4>3, <5>1, <5>2 DEF Happened
      <4>5. CASE g # h
        <5>1. at'[<<h, "EscrowCreated">>] = at[<<h, "EscrowCreated">>]
          BY <4>2, <4>5, EventFacts DEF Kinds
        <5>2. dst'[h] = dst[h]
          BY <1>1, <3>1, <4>5 DEF FundDst, TypeOK
        <5> QED
          BY <2>1, <3>0, <4>3, <5>1, <5>2 DEF Happened
      <4> QED
        BY <4>4, <4>5
    <3>2. CASE FillSlot(g)
      <4>1. <<g, "Filled">> \in Events /\ Emit(<<g, "Filled">>) /\ dst' = dst
        BY <3>2, EventFacts DEF FillSlot, Kinds
      <4>2. \A d \in Events : d # <<g, "Filled">> => at'[d] = at[d]
        BY <1>1, <4>1, EmitFacts
      <4>3. /\ at'[<<h, "EscrowCreated">>] = at[<<h, "EscrowCreated">>]
            /\ at'[<<h, "Withdrawn">>] = at[<<h, "Withdrawn">>]
            /\ at'[<<h, "Cancelled">>] = at[<<h, "Cancelled">>]
        BY <4>2, EventFacts DEF Kinds
      <4>4. CASE g = h
        <5>1. status[h] \in Signed
          BY <1>1, <3>2, <4>4 DEF FillSlot, TypeOK, Statuses, Signed, Locked
        <5>2. ~Happened(h, "Filled")
          BY <4>1, <4>4 DEF Emit, Happened
        <5> QED
          BY <2>1, <2>3, <3>0, <4>1, <4>3, <5>1, <5>2 DEF Happened
      <4>5. CASE g # h
        BY <2>1, <3>0, <4>1, <4>2, <4>3, <4>5, EventFacts DEF Happened, Kinds
      <4> QED
        BY <4>4, <4>5
    <3>3. CASE Withdraw(g)
      <4>1. <<g, "Withdrawn">> \in Events /\ Emit(<<g, "Withdrawn">>) /\ dst' = dst
        BY <3>3, EventFacts DEF Withdraw, Kinds
      <4>2. \A d \in Events : d # <<g, "Withdrawn">> => at'[d] = at[d]
        BY <1>1, <4>1, EmitFacts
      <4>3. /\ at'[<<h, "EscrowCreated">>] = at[<<h, "EscrowCreated">>]
            /\ at'[<<h, "Filled">>] = at[<<h, "Filled">>]
            /\ at'[<<h, "Cancelled">>] = at[<<h, "Cancelled">>]
        BY <4>2, EventFacts DEF Kinds
      <4>4. CASE g = h
        <5>1. at'[<<h, "Withdrawn">>] = tip["src"] + 1
          <6>1. <<h, "Withdrawn">> \in Events /\ Emit(<<h, "Withdrawn">>)
            BY <4>1, <4>4
          <6>2. at'[<<h, "Withdrawn">>] = tip[ChainOf(<<h, "Withdrawn">>)] + 1
            BY <1>1, <6>1, EmitFacts
          <6> QED
            BY <6>2, EventFacts
        <5>2. Happened(h, "Filled") /\ ~Happened(h, "Cancelled")
          BY <3>3, <4>4 DEF Withdraw
        <5> QED
          BY <2>1, <2>3, <2>4, <3>0, <4>1, <4>3, <5>1, <5>2 DEF Happened
      <4>5. CASE g # h
        BY <2>1, <3>0, <4>1, <4>2, <4>3, <4>5, EventFacts DEF Happened, Kinds
      <4> QED
        BY <4>4, <4>5
    <3>4. CASE Cancel(g)
      <4>1. <<g, "Cancelled">> \in Events /\ Emit(<<g, "Cancelled">>) /\ dst' = dst
        BY <3>4, EventFacts DEF Cancel, Kinds
      <4>2. \A d \in Events : d # <<g, "Cancelled">> => at'[d] = at[d]
        BY <1>1, <4>1, EmitFacts
      <4>3. /\ at'[<<h, "EscrowCreated">>] = at[<<h, "EscrowCreated">>]
            /\ at'[<<h, "Filled">>] = at[<<h, "Filled">>]
            /\ at'[<<h, "Withdrawn">>] = at[<<h, "Withdrawn">>]
        BY <4>2, EventFacts DEF Kinds
      <4>4. CASE g = h
        <5>1. at'[<<h, "Cancelled">>] = tip["src"] + 1
          <6>1. <<h, "Cancelled">> \in Events /\ Emit(<<h, "Cancelled">>)
            BY <4>1, <4>4
          <6>2. at'[<<h, "Cancelled">>] = tip[ChainOf(<<h, "Cancelled">>)] + 1
            BY <1>1, <6>1, EmitFacts
          <6> QED
            BY <6>2, EventFacts
        <5>2. Happened(h, "Filled") /\ ~Happened(h, "Withdrawn")
          BY <3>4, <4>4 DEF Cancel
        <5> QED
          BY <2>1, <2>3, <2>4, <3>0, <4>1, <4>3, <5>1, <5>2 DEF Happened
      <4>5. CASE g # h
        BY <2>1, <3>0, <4>1, <4>2, <4>3, <4>5, EventFacts DEF Happened, Kinds
      <4> QED
        BY <4>4, <4>5
    <3>5. CASE at' = at
      <4>1. dst'[h] = "none" <=> dst[h] = "none"
        BY <2>1, <3>5, ChainMoves DEF Happened
      <4> QED
        BY <2>1, <3>0, <3>5, <4>1 DEF Happened
    <3> QED
      BY <2>6, <3>1, <3>2, <3>3, <3>4, <3>5 DEF ChainStep, ClaimBySwapper, Refund, PassTime
  <2>7. ASSUME NEW g \in Fills, RelayClaim(g) PROVE Ordered(h)'
    <3>1. at' = at /\ status' = status
      BY <2>7 DEF RelayClaim, boardVars
    <3>2. dst'[h] = "none" <=> dst[h] = "none"
      BY <2>1, <3>1, ChainMoves DEF Happened
    <3> QED
      BY <2>1, <3>1, <3>2 DEF Happened
  <2>8. CASE \A g \in Fills : ~ChainStep(g) /\ ~RelayClaim(g)
    BY <2>5, <2>8 DEF Next, ClientStep, Quote, StartSign, FinishSign, RelayStep, RelayPoll,
       RecordClaimed, WatcherStep, Connect, SeeBlock, StartDrain, FinishDrain, HandleNext, SkipNext,
       EmptyBlock, Crash, chainVars, vars
  <2> QED
    BY <2>6, <2>7, <2>8
<1> QED
  BY <1>3, <1>4 DEF EventOrder

(* What has happened to a fill never set back stays on the board: a row    *)
(* whose slot another took can only wait.                                  *)
LEMMA ReflectedStays ==
  ASSUME IInv, [Next]_vars, NEW e \in Events, at[e] # 0, Reflected(e), e[1] \notin setBack'
  PROVE  Reflected(e)'
<1> DEFINE h == e[1]
<1>1. h \in Fills /\ e[2] \in Kinds /\ e = <<h, e[2]>> /\ Happened(h, e[2])
  BY EventFacts DEF Happened
<1>2. CASE e[2] = "EscrowCreated"
  <2>1. h \in genuine' => h \in genuine
    BY <1>1, <1>2, GenuineStays
  <2> QED
    BY <1>1, <1>2, <2>1, StatusStays DEF Reflected
<1>3. CASE e[2] # "EscrowCreated"
  <2>1. Happened(h, "Filled")
    BY <1>1, <1>3, SourceEvents
  <2>2. h \in foreign' <=> h \in foreign
    BY <1>1, <2>1, ForeignStays
  <2>3. CASE h \in foreign
    <3>1. status'[h] = "authorized"
      BY <1>1, <2>1, <2>3, ForeignWaits
    <3> QED
      BY <1>3, <2>2, <2>3, <3>1 DEF Reflected
  <2>4. CASE h \notin foreign
    <3>1. SourceReflected(h, e[2])
      BY <1>3, <2>4 DEF Reflected
    <3>2. SourceReflected(h, e[2])'
      BY <1>1, <1>3, <3>1, StatusStays DEF SourceReflected, Kinds
    <3> QED
      BY <1>3, <2>2, <2>4, <3>2 DEF Reflected
  <2> QED
    BY <2>3, <2>4
<1> QED
  BY <1>2, <1>3

-----------------------------------------------------------------------------
(* Rows stay consistent with what is in memory about them.                 *)
LEMMA RowsStep ==
  ASSUME IInv, [Next]_vars
  PROVE  RowsConsistent' /\ KnownIfLocked'
<1> DEFINE Consistent(h) ==
     /\ h \in known => Happened(h, "Filled") /\ h \notin foreign
     /\ h \in foreign => Happened(h, "Filled")
     /\ signing[h] > 0 => status[h] \in Verified
     /\ h \in sent => dst[h] = "claimed"
     /\ checked[h] > 0 => Happened(h, "EscrowCreated")
     /\ h \in setBack \/ (h \in known <=> status[h] \in Locked)
<1> SUFFICES ASSUME NEW h \in Fills PROVE Consistent(h)'
  BY DEF RowsConsistent, KnownIfLocked
<1>1. Consistent(h) /\ TypeOK /\ signing[h] \in Nat /\ MaxSigners \in Nat
  BY RelayAssumption DEF IInv, RowsConsistent, KnownIfLocked, TypeOK, RelayAssumption
<1>0. status[h] \in Verified => status'[h] \in Verified
  BY StatusStays
<1>2. /\ Happened(h, "EscrowCreated") => Happened(h, "EscrowCreated")'
      /\ Happened(h, "Filled") => Happened(h, "Filled")'
      /\ dst[h] = "claimed" => dst'[h] = "claimed"
      /\ Happened(h, "Filled") /\ h \notin foreign => h \notin foreign'
      /\ h \in foreign' => Happened(h, "Filled")'
      /\ h \in setBack => h \in setBack'
  BY HappenedStays, ChainMoves, ForeignStays, SetBackStays DEF Kinds
<1>3. CASE UNCHANGED <<status, known, signing, sent, checked>>
  BY <1>1, <1>2, <1>3
<1>4. ASSUME NEW c \in Chains, NEW e \in Events, HandleNext(c, e) PROVE Consistent(h)'
  <2>1. HandleLog(e) /\ UNCHANGED <<signing, sent, checked>>
    BY <1>4 DEF HandleNext, signVars, relayVars
  <2>2. CASE h # e[1]
    BY <1>1, <1>2, <2>1, <2>2, HandleFacts
  <2>3. CASE h = e[1]
    <3>1. Happened(h, e[2])
      BY <1>4, <2>3, TodoHappened DEF HandleNext, IsNext
    <3> QED
      BY <1>0, <1>1, <1>2, <2>1, <2>3, <3>1, HandleFacts DEF Locked
  <2> QED
    BY <2>2, <2>3
<1>5. ASSUME NEW g \in Fills, ClientStep(g) PROVE Consistent(h)'
  <2>1. UNCHANGED <<known, sent, checked, dst>>
    BY <1>5 DEF ClientStep, Quote, StartSign, FinishSign, boardVars, relayVars, chainVars
  <2>2. CASE Quote(g)
    <3>1. /\ signing' = signing
          /\ g = h => status[h] = "none" /\ status'[h] = "quoted"
          /\ g # h => status'[h] = status[h]
      BY <1>1, <2>2 DEF Quote, signVars, TypeOK
    <3> QED
      BY <1>0, <1>1, <1>2, <2>1, <3>1 DEF Locked
  <2>3. CASE StartSign(g)
    <3>1. /\ status' = status
          /\ g = h => status[h] = "dst_funded" /\ signing[h] < MaxSigners
                      /\ signing'[h] = signing[h] + 1
          /\ g # h => signing'[h] = signing[h]
      BY <1>1, <2>3 DEF StartSign, boardVars, TypeOK
    <3> QED
      BY <1>0, <1>1, <1>2, <2>1, <3>1 DEF Verified
  <2>4. CASE FinishSign(g)
    <3>1. /\ g = h => /\ signing[h] > 0 /\ status'[h] = "authorized"
                      /\ signing'[h] = signing[h] - 1
                      /\ status[h] \in Locked => h \in setBack'
          /\ g # h => signing'[h] = signing[h] /\ status'[h] = status[h]
      BY <1>1, <2>4 DEF FinishSign, TypeOK
    <3> QED
      BY <1>0, <1>1, <1>2, <2>1, <3>1 DEF Locked
  <2> QED
    BY <1>5, <2>2, <2>3, <2>4 DEF ClientStep
<1>6. ASSUME NEW g \in Fills, RelayStep(g) PROVE Consistent(h)'
  <2>1. UNCHANGED <<known, signing>>
    BY <1>6 DEF RelayStep, RelayPoll, RelayClaim, RecordClaimed, boardVars, signVars
  <2>2. CASE RelayPoll(g)
    <3>1. /\ status' = status /\ sent' = sent
          /\ g = h => dst[h] = "open" /\ checked'[h] = checked[h] + 1
          /\ g # h => checked'[h] = checked[h]
      BY <1>1, <2>2 DEF RelayPoll, boardVars, TypeOK
    <3>2. dst[h] = "open" => Happened(h, "EscrowCreated")
      BY DEF IInv, EventOrder
    <3> QED
      BY <1>1, <1>2, <2>1, <3>1, <3>2
  <2>3. CASE RelayClaim(g)
    <3>1. /\ status' = status
          /\ checked'[h] > 0 => checked[h] > 0
          /\ h \in sent' => h \in sent \/ dst'[h] = "claimed"
      BY <1>1, <2>3 DEF RelayClaim, boardVars, TypeOK
    <3> QED
      BY <1>1, <1>2, <2>1, <3>1
  <2>4. CASE RecordClaimed(g)
    <3>1. /\ checked' = checked /\ sent' \subseteq sent
          /\ status'[h] = status[h] \/ (status[h] = "revealed" /\ status'[h] = "claimed")
      BY <1>1, <2>4 DEF RecordClaimed, recordClaimed, Advance, TypeOK
    <3> QED
      BY <1>0, <1>1, <1>2, <2>1, <3>1 DEF Locked
  <2> QED
    BY <1>6, <2>2, <2>3, <2>4 DEF RelayStep
<1>7. CASE Crash
  <2>1. /\ UNCHANGED <<status, known>>
        /\ signing'[h] = 0 /\ checked'[h] = 0 /\ sent' = {}
    BY <1>7 DEF Crash, boardVars
  <2>2. ~(signing'[h] > 0) /\ ~(checked'[h] > 0)
    BY <2>1
  <2> QED
    BY <1>1, <1>2, <2>1, <2>2
<1>8. CASE /\ \A c \in Chains, e \in Events : ~HandleNext(c, e)
           /\ \A g \in Fills : ~ClientStep(g) /\ ~RelayStep(g)
           /\ ~Crash
  BY <1>3, <1>8 DEF Next, ChainStep, FundDst, FillSlot, Withdraw, Cancel, ClaimBySwapper, Refund,
     PassTime, WatcherStep, Connect, SeeBlock, StartDrain, FinishDrain, SkipNext, EmptyBlock,
     chainOnly, boardVars, signVars, relayVars, vars
<1> QED
  BY <1>4, <1>5, <1>6, <1>7, <1>8

(* A checkpoint never runs ahead of the chain, so a restart resumes at it. *)
LEMMA ResumesAtCheckpoint ==
  ASSUME IInv, NEW c \in Chains
  PROVE  /\ resolveCheckpoint(checkpoint[c], tip[c]) \in Nat
         /\ resolveCheckpoint(checkpoint[c], tip[c]) <= tip[c]
         /\ BACKFILL => resolveCheckpoint(checkpoint[c], tip[c]) = checkpoint[c]
<1>1. checkpoint[c] \in Nat /\ tip[c] \in Nat /\ checkpoint[c] <= tip[c]
  BY DEF IInv, TypeOK, WatcherConsistent
<1> QED
  BY <1>1, RelayAssumption DEF resolveCheckpoint

(* Watchers only know of blocks and logs there are.                        *)
LEMMA WatchersStep ==
  ASSUME IInv, [Next]_vars
  PROVE  WatcherConsistent'
<1> DEFINE Consistent(c) ==
     /\ checkpoint[c] <= tip[c] /\ last[c] \in -1..tip[c] /\ seen[c] \in -1..tip[c]
     /\ floor[c] <= last[c]
     /\ draining[c] => last[c] \in 0..upTo[c] /\ upTo[c] <= tip[c]
     /\ \A e \in todo[c] : ChainOf(e) = c /\ at[e] \in 1..upTo[c]
<1> SUFFICES ASSUME NEW c \in Chains PROVE Consistent(c)'
  BY DEF WatcherConsistent
<1>1. Consistent(c) /\ TypeOK
  BY DEF IInv, WatcherConsistent
<1>2. TypeOK'
  BY <1>1, TypeStep
<1>3. /\ tip[c] \in Nat /\ tip'[c] \in Nat /\ tip[c] <= tip'[c]
      /\ checkpoint[c] \in Nat /\ upTo[c] \in Nat
      /\ last[c] \in Int /\ seen[c] \in Int /\ floor[c] \in Int
  BY <1>1, <1>2, ChainMoves DEF TypeOK
<1>4. \A e \in Events : at[e] # 0 => at'[e] = at[e]
  BY ChainMoves
<1>5. todo[c] \subseteq Events
  BY <1>1 DEF TypeOK
<1>6. ASSUME todo'[c] \subseteq todo[c], upTo'[c] = upTo[c]
      PROVE  \A e \in todo'[c] : ChainOf(e) = c /\ at'[e] \in 1..upTo'[c]
  BY <1>1, <1>3, <1>4, <1>5, <1>6
<1>7. CASE UNCHANGED <<checkpoint, watcherVars>>
  <2>1. UNCHANGED <<checkpoint, last, seen, floor, draining, upTo, todo>>
    BY <1>7 DEF watcherVars
  <2> QED
    BY <1>1, <1>3, <1>6, <2>1
<1>8. ASSUME NEW d \in Chains, WatcherStep(d) PROVE Consistent(c)'
  <2>1. tip' = tip /\ at' = at
    BY <1>8 DEF WatcherStep, Connect, SeeBlock, StartDrain, FinishDrain, HandleNext, SkipNext, chainVars
  <2>2. CASE Connect(d)
    <3>1. UNCHANGED <<seen, draining, upTo, todo>>
      BY <2>2 DEF Connect
    <3>2. CASE d = c
      <4>1. /\ last'[c] = resolveCheckpoint(checkpoint[c], tip[c])
            /\ floor'[c] = last'[c] /\ checkpoint'[c] = last'[c]
        BY <1>1, <2>2, <3>2 DEF Connect, TypeOK
      <4>2. ~draining'[c]
        BY <1>1, <1>3, <2>2, <3>1, <3>2 DEF Connect
      <4>3. last'[c] \in Nat /\ last'[c] <= tip[c]
        BY <4>1, ResumesAtCheckpoint
      <4> QED
        BY <1>1, <1>3, <1>6, <2>1, <3>1, <4>1, <4>2, <4>3
    <3>3. CASE d # c
      <4>1. last'[c] = last[c] /\ floor'[c] = floor[c] /\ checkpoint'[c] = checkpoint[c]
        BY <1>1, <2>2, <3>3 DEF Connect, TypeOK
      <4> QED
        BY <1>1, <1>3, <1>6, <2>1, <3>1, <4>1
    <3> QED
      BY <3>2, <3>3
  <2>3. CASE SeeBlock(d)
    <3>1. UNCHANGED <<checkpoint, last, floor, draining, upTo, todo>>
      BY <2>3 DEF SeeBlock, boardVars
    <3>2. seen'[c] = seen[c] \/ seen'[c] \in (seen[c] + 1)..tip[c]
      BY <1>1, <2>3 DEF SeeBlock, TypeOK
    <3> QED
      BY <1>1, <1>3, <1>6, <2>1, <3>1, <3>2
  <2>4. CASE StartDrain(d)
    <3>1. UNCHANGED <<checkpoint, last, floor, seen>>
      BY <2>4 DEF StartDrain, boardVars
    <3>2. CASE d = c
      <4>1. upTo'[c] = seen[c] /\ seen[c] > last[c] /\ last[c] >= 0
        BY <1>1, <2>4, <3>2 DEF StartDrain, TypeOK
      <4>2. todo'[c] = {e \in Events : ChainOf(e) = c /\ at[e] # 0 /\ at[e] \in FromBlock(c)..seen[c]}
        BY <1>1, <2>4, <3>2 DEF StartDrain, TypeOK
      <4>3. \A e \in Events : at[e] \in Nat
        BY <1>1 DEF TypeOK
      <4>4. FromBlock(c) \in Int
        BY <1>3, RelayAssumption DEF FromBlock, MaxOf
      <4> QED
        BY <1>1, <1>3, <2>1, <3>1, <4>1, <4>2, <4>3, <4>4
    <3>3. CASE d # c
      <4>1. upTo'[c] = upTo[c] /\ todo'[c] = todo[c] /\ draining'[c] = draining[c]
        BY <1>1, <2>4, <3>3 DEF StartDrain, TypeOK
      <4> QED
        BY <1>1, <1>3, <1>6, <2>1, <3>1, <4>1
    <3> QED
      BY <3>2, <3>3
  <2>5. CASE FinishDrain(d)
    <3>1. UNCHANGED <<upTo, todo, floor, seen>>
      BY <2>5 DEF FinishDrain
    <3>2. CASE d = c
      <4>1. /\ draining[c] /\ ~draining'[c] /\ last'[c] = upTo[c]
            /\ checkpoint'[c] = checkpoint[c] \/ checkpoint'[c] = upTo[c]
        BY <1>1, <2>5, <3>2 DEF FinishDrain, TypeOK
      <4>2. last[c] <= upTo[c]
        BY <1>1, <1>3, <4>1
      <4> QED
        BY <1>1, <1>3, <1>6, <2>1, <3>1, <4>1, <4>2
    <3>3. CASE d # c
      <4>1. last'[c] = last[c] /\ checkpoint'[c] = checkpoint[c] /\ draining'[c] = draining[c]
        BY <1>1, <2>5, <3>3 DEF FinishDrain, TypeOK
      <4> QED
        BY <1>1, <1>3, <1>6, <2>1, <3>1, <4>1
    <3> QED
      BY <3>2, <3>3
  <2>6. ASSUME NEW e \in Events, HandleNext(d, e) \/ SkipNext(d, e) PROVE Consistent(c)'
    <3>1. UNCHANGED <<checkpoint, last, seen, floor, draining, upTo>>
      BY <2>6 DEF HandleNext, SkipNext, boardVars
    <3>2. todo'[c] \subseteq todo[c]
      BY <1>1, <2>6 DEF HandleNext, SkipNext, TypeOK
    <3> QED
      BY <1>1, <1>3, <1>6, <2>1, <3>1, <3>2
  <2> QED
    BY <1>8, <2>2, <2>3, <2>4, <2>5, <2>6 DEF WatcherStep
<1>9. CASE Crash
  <2>1. /\ UNCHANGED checkpoint
        /\ last'[c] = -1 /\ seen'[c] = -1 /\ floor'[c] = -1 /\ ~draining'[c] /\ todo'[c] = {}
    BY <1>9 DEF Crash, boardVars
  <2> QED
    BY <1>1, <1>3, <2>1
<1>10. CASE ~Crash /\ \A d \in Chains : ~WatcherStep(d)
  BY <1>7, <1>10 DEF Next, ChainStep, FundDst, FillSlot, Withdraw, Cancel, ClaimBySwapper, Refund,
     PassTime, ClientStep, Quote, StartSign, FinishSign, RelayStep, RelayPoll, RelayClaim,
     RecordClaimed, EmptyBlock, chainOnly, boardVars, vars
<1> QED
  BY <1>8, <1>9, <1>10

-----------------------------------------------------------------------------
(* A log a watcher handles is on the board afterwards: its fill's earlier  *)
(* logs are by then.                                                       *)
LEMMA HandledReflected ==
  ASSUME BACKFILL, failures = 0, IInv, [Next]_vars,
         NEW c \in Chains, NEW e \in Events, HandleNext(c, e), draining[c], e[1] \notin setBack'
  PROVE  Reflected(e)'
<1> DEFINE h == e[1]
<1>1. /\ IsNext(c, e) /\ HandleLog(e)
      /\ h \in Fills /\ e[2] \in Kinds /\ e = <<h, e[2]>>
  BY EventFacts DEF HandleNext
<1>2. Happened(h, e[2]) /\ ChainOf(e) = c /\ at[e] \in 1..upTo[c]
  BY <1>1, TodoHappened DEF IsNext
<1>3. /\ status[h] \in Statuses /\ BoardNeverAhead /\ EventOrder /\ KnownIfLocked
      /\ h \notin setBack
  BY <1>1, SetBackStays DEF IInv, TypeOK
<1>4. CASE e[2] = "EscrowCreated"
  <2>0. h \in genuine' => h \in genuine
    BY <1>1, <1>2, <1>4, GenuineStays
  <2>1. status[h] # "none"
    BY <1>1, <1>2, <1>3, <1>4 DEF EventOrder
  <2>2. status[h] \in Verified \/ status[h] = "quoted"
    BY <1>3, <2>1 DEF Statuses, Verified, Signed, Locked
  <2>3. h \in genuine /\ status[h] = "quoted" => status'[h] = "dst_funded"
    BY <1>1, <1>4 DEF HandleLog, handleEscrowCreated, handleFilled, handleSrcEscrowLog,
       recordDstFunded, assertGenuineDstClone, Advance, IInv, TypeOK
  <2>4. h \in genuine => status'[h] \in Verified
    BY <1>1, <2>2, <2>3, StatusStays DEF Verified
  <2> QED
    BY <1>4, <2>0, <2>4 DEF Reflected
<1>7. CASE e[2] # "EscrowCreated" /\ h \in foreign
  <2>1. h \in foreign' /\ status'[h] = "authorized"
    BY <1>1, <1>7, ForeignStays, ForeignWaits
  <2> QED
    BY <1>7, <2>1 DEF Reflected
<1>8. ASSUME e[2] # "EscrowCreated", h \notin foreign PROVE h \notin foreign'
  <2>1. Happened(h, "Filled")
    BY <1>1, <1>2, <1>8, SourceEvents
  <2> QED
    BY <1>1, <1>8, <2>1, ForeignStays
<1>5. CASE e[2] = "Filled" /\ h \notin foreign
  <2>1. status[h] \in Signed
    BY <1>1, <1>2, <1>3, <1>5 DEF EventOrder
  <2>2. status[h] = "authorized" => status'[h] = "src_locked"
    BY <1>1, <1>5 DEF HandleLog, handleEscrowCreated, handleFilled, handleSrcEscrowLog,
             recordDstFunded, recordReveal, recordSlashed, recordSrcLocked, Advance, IInv, TypeOK
  <2>3. status'[h] \in Locked
    BY <1>1, <2>1, <2>2, StatusStays DEF Signed, Locked
  <2> QED
    BY <1>5, <1>8, <2>3 DEF Reflected, SourceReflected
<1>6. CASE e[2] \in {"Withdrawn", "Cancelled"} /\ h \notin foreign
  <2>1. at[<<h, "Filled">>] \in 1..(at[e] - 1) /\ at[e] \in Nat /\ upTo[c] \in Nat
    <3>1. at[<<h, "Filled">>] \in 1..(at[e] - 1)
      <4>1. e = <<h, "Withdrawn">> \/ e = <<h, "Cancelled">>
        BY <1>1, <1>6, Zenon
      <4>2. Happened(h, "Withdrawn") => at[<<h, "Filled">>] \in 1..(at[<<h, "Withdrawn">>] - 1)
        BY <1>1, <1>3, Zenon DEF EventOrder
      <4>3. Happened(h, "Cancelled") => at[<<h, "Filled">>] \in 1..(at[<<h, "Cancelled">>] - 1)
        BY <1>1, <1>3, Zenon DEF EventOrder
      <4>5. CASE e = <<h, "Withdrawn">>
        <5>1. Happened(h, "Withdrawn")
          BY <1>2, <4>5
        <5> QED BY <4>2, <4>5, <5>1, Zenon
      <4>6. CASE e = <<h, "Cancelled">>
        <5>1. Happened(h, "Cancelled")
          BY <1>2, <4>6
        <5> QED BY <4>3, <4>6, <5>1, Zenon
      <4> QED BY <4>1, <4>5, <4>6, Zenon
    <3>2. at[e] \in Nat
      BY DEF IInv, TypeOK
    <3>3. upTo[c] \in Nat
      BY DEF IInv, TypeOK
    <3> QED BY <3>1, <3>2, <3>3, Zenon
  <2>2. <<h, "Filled">> \in Events /\ ChainOf(<<h, "Filled">>) = c
    BY <1>1, <1>2, <1>6, EventFacts DEF Kinds, ChainOf
  <2>3. <<h, "Filled">> \notin todo[c]
    BY <1>1, <1>6 DEF IsNext, Precedes
  <2>4. Reflected(<<h, "Filled">>)
    <3>1. WatcherCovers /\ at[<<h, "Filled">>] \in 1..upTo[c]
      BY <1>2, <2>1 DEF IInv
    <3> QED
      BY <1>3, <2>2, <2>3, <3>1 DEF WatcherCovers
  <2>5. status[h] \in Locked /\ h \in known
    BY <1>1, <1>3, <1>6, <2>4 DEF Reflected, SourceReflected, KnownIfLocked
  <2>6. ~(Happened(h, "Withdrawn") /\ Happened(h, "Cancelled"))
    BY <1>1, <1>3 DEF EventOrder
  <2>7. /\ status[h] \in {"revealed", "claimed"} => Happened(h, "Withdrawn")
        /\ status[h] = "slashed" => Happened(h, "Cancelled")
    BY <1>1, <1>3 DEF BoardNeverAhead
  <2>8. CASE e[2] = "Withdrawn"
    <3>1. status[h] \in {"src_locked", "revealed", "claimed"}
      BY <1>2, <2>5, <2>6, <2>7, <2>8 DEF Locked
    <3>2. status[h] = "src_locked" => status'[h] = "revealed"
      BY <1>1, <2>5, <2>8 DEF HandleLog, handleEscrowCreated, handleFilled, handleSrcEscrowLog,
             recordDstFunded, recordReveal, recordSlashed, Advance, IInv, TypeOK
    <3>3. status'[h] \in {"revealed", "claimed"}
      BY <1>1, <3>1, <3>2, StatusStays
    <3> QED
      BY <1>6, <1>8, <2>8, <3>3 DEF Reflected, SourceReflected
  <2>9. CASE e[2] = "Cancelled"
    <3>1. status[h] \in {"src_locked", "slashed"}
      BY <1>2, <2>5, <2>6, <2>7, <2>9 DEF Locked
    <3>2. status[h] = "src_locked" => status'[h] = "slashed"
      BY <1>1, <2>5, <2>9 DEF HandleLog, handleEscrowCreated, handleFilled, handleSrcEscrowLog,
             recordDstFunded, recordReveal, recordSlashed, Advance, IInv, TypeOK
    <3>3. status'[h] = "slashed"
      BY <1>1, <3>1, <3>2, StatusStays
    <3> QED
      BY <1>6, <1>8, <2>9, <3>3 DEF Reflected, SourceReflected
  <2> QED
    BY <1>6, <2>8, <2>9
<1> QED
  BY <1>1, <1>4, <1>5, <1>6, <1>7 DEF Kinds

(* What a watcher has gone past, or will have when its drain is done, and  *)
(* so what its checkpoint says, is on the board.                           *)
LEMMA CoversStep ==
  ASSUME IInv, [Next]_vars
  PROVE  WatcherCovers' /\ CheckpointCovers'
<1> DEFINE Covered(e) ==
     /\ at[e] \in 1..last[ChainOf(e)] => Reflected(e)
     /\ draining[ChainOf(e)] /\ at[e] \in 1..upTo[ChainOf(e)] =>
          Reflected(e) \/ e \in todo[ChainOf(e)]
     /\ at[e] \in 1..checkpoint[ChainOf(e)] => Reflected(e)
<1> SUFFICES ASSUME BACKFILL, failures' = 0, NEW e \in Events, e[1] \notin setBack'
             PROVE  Covered(e)'
  BY DEF WatcherCovers, CheckpointCovers
<1>1. failures = 0
  <2>1. failures \in Nat
    BY DEF IInv, TypeOK
  <2>2. ASSUME NEW h \in Fills, ChainStep(h) \/ ClientStep(h) PROVE failures' = failures
    BY <2>2 DEF ChainStep, FundDst, FillSlot, Withdraw, Cancel, ClaimBySwapper, Refund, PassTime,
                ClientStep, Quote, StartSign, FinishSign, chainOnly, faultVars
  <2>3. ASSUME NEW h \in Fills, RelayStep(h) PROVE failures' = failures \/ failures' = failures + 1
    BY <2>3 DEF RelayStep, RelayPoll, RelayClaim, RecordClaimed, faultVars
  <2>4. ASSUME NEW c \in Chains, WatcherStep(c)
        PROVE  failures' = failures \/ failures' = failures + 1
    BY <2>4 DEF WatcherStep, Connect, SeeBlock, StartDrain, FinishDrain, HandleNext, SkipNext, faultVars
  <2>5. ASSUME NEW c \in Chains, EmptyBlock(c) PROVE failures' = failures
    BY <2>5 DEF EmptyBlock, chainOnly, faultVars
  <2>6. CASE Crash \/ UNCHANGED vars
    BY <2>6 DEF Crash, vars, faultVars
  <2>7. failures' = failures \/ failures' = failures + 1
    BY <2>2, <2>3, <2>4, <2>5, <2>6 DEF Next
  <2> QED
    BY <2>1, <2>7
<1>2. PICK c \in Chains : c = ChainOf(e)
  BY EventFacts
<1>3. /\ at[e] \in 1..last[c] => Reflected(e)
      /\ draining[c] /\ at[e] \in 1..upTo[c] => Reflected(e) \/ e \in todo[c]
      /\ at[e] \in 1..checkpoint[c] => Reflected(e)
  <2>1. e[1] \notin setBack
    BY SetBackStays
  <2> QED
    BY <1>1, <1>2, <2>1 DEF IInv, WatcherCovers, CheckpointCovers
<1>4. at[e] # 0 /\ Reflected(e) => Reflected(e)'
  BY ReflectedStays
<1>5. /\ TypeOK /\ TypeOK'
      /\ checkpoint[c] <= tip[c] /\ last[c] \in -1..tip[c] /\ seen[c] \in -1..tip[c]
      /\ floor[c] <= last[c]
      /\ draining[c] => last[c] \in 0..upTo[c] /\ upTo[c] <= tip[c]
  BY TypeStep DEF IInv, WatcherConsistent
<1>6. /\ tip[c] \in Nat /\ at[e] \in Nat /\ at'[e] \in Nat /\ upTo[c] \in Nat
      /\ checkpoint[c] \in Nat /\ last[c] \in Int /\ seen[c] \in Int /\ floor[c] \in Int
  BY <1>5 DEF TypeOK
<1>7. at'[e] = at[e] \/ at'[e] = tip[c] + 1
  BY <1>2, ChainMoves
<1>8. SUFFICES /\ at'[e] \in 1..last'[c] => Reflected(e)'
               /\ draining'[c] /\ at'[e] \in 1..upTo'[c] => Reflected(e)' \/ e \in todo'[c]
               /\ at'[e] \in 1..checkpoint'[c] => Reflected(e)'
  BY <1>2
<1>9. CASE UNCHANGED <<checkpoint, watcherVars>>
  <2>1. UNCHANGED <<checkpoint, last, draining, upTo, todo>>
    BY <1>9 DEF watcherVars
  <2> QED
    BY <1>3, <1>4, <1>5, <1>6, <1>7, <2>1
<1>10. ASSUME NEW d \in Chains, WatcherStep(d)
       PROVE  /\ at'[e] \in 1..last'[c] => Reflected(e)'
              /\ draining'[c] /\ at'[e] \in 1..upTo'[c] => Reflected(e)' \/ e \in todo'[c]
              /\ at'[e] \in 1..checkpoint'[c] => Reflected(e)'
  <2>1. at' = at
    BY <1>10 DEF WatcherStep, Connect, SeeBlock, StartDrain, FinishDrain, HandleNext, SkipNext, chainVars
  <2>2. CASE Connect(d)
    <3>1. UNCHANGED <<draining, upTo, todo>>
      BY <2>2 DEF Connect
    <3>2. /\ last'[c] = last[c] \/ last'[c] = checkpoint[c]
          /\ checkpoint'[c] = checkpoint[c]
      BY <1>5, <2>2, ResumesAtCheckpoint DEF Connect, TypeOK
    <3> QED
      BY <1>3, <1>4, <2>1, <3>1, <3>2
  <2>3. CASE SeeBlock(d)
    BY <1>3, <1>4, <2>1, <2>3 DEF SeeBlock, boardVars
  <2>4. CASE StartDrain(d)
    <3>1. UNCHANGED <<checkpoint, last>>
      BY <2>4 DEF StartDrain, boardVars
    <3>2. CASE d = c
      <4>1. /\ upTo'[c] = seen[c] /\ last[c] >= 0
            /\ todo'[c] = {f \in Events : ChainOf(f) = c /\ at[f] # 0 /\ at[f] \in FromBlock(c)..seen[c]}
        BY <1>5, <2>4, <3>2 DEF StartDrain, TypeOK
      <4>2. FromBlock(c) \in Int /\ FromBlock(c) <= last[c] + 1
        BY <1>5, <1>6, <4>1, RelayAssumption DEF FromBlock, MaxOf
      <4>3. at[e] \in 1..seen[c] => at[e] \in 1..last[c] \/ e \in todo'[c]
        BY <1>2, <1>6, <4>1, <4>2
      <4> QED
        BY <1>3, <1>4, <2>1, <3>1, <4>1, <4>3
    <3>3. CASE d # c
      <4>1. upTo'[c] = upTo[c] /\ todo'[c] = todo[c] /\ draining'[c] = draining[c]
        BY <1>5, <2>4, <3>3 DEF StartDrain, TypeOK
      <4> QED
        BY <1>3, <1>4, <2>1, <3>1, <4>1
    <3> QED
      BY <3>2, <3>3
  <2>5. CASE FinishDrain(d)
    <3>1. UNCHANGED <<upTo, todo>>
      BY <2>5 DEF FinishDrain
    <3>2. CASE d = c
      <4>1. /\ draining[c] /\ todo[c] = {} /\ ~draining'[c] /\ last'[c] = upTo[c]
            /\ checkpoint'[c] = checkpoint[c] \/ checkpoint'[c] = upTo[c]
        BY <1>5, <2>5, <3>2 DEF FinishDrain, TypeOK
      <4> QED
        BY <1>3, <1>4, <2>1, <4>1
    <3>3. CASE d # c
      <4>1. last'[c] = last[c] /\ checkpoint'[c] = checkpoint[c] /\ draining'[c] = draining[c]
        BY <1>5, <2>5, <3>3 DEF FinishDrain, TypeOK
      <4> QED
        BY <1>3, <1>4, <2>1, <3>1, <4>1
    <3> QED
      BY <3>2, <3>3
  <2>6. ASSUME NEW f \in Events, HandleNext(d, f)
        PROVE  /\ at'[e] \in 1..last'[c] => Reflected(e)'
               /\ draining'[c] /\ at'[e] \in 1..upTo'[c] => Reflected(e)' \/ e \in todo'[c]
               /\ at'[e] \in 1..checkpoint'[c] => Reflected(e)'
    <3>1. UNCHANGED <<checkpoint, last, draining, upTo>>
      BY <2>6 DEF HandleNext
    <3>2. CASE d = c /\ f = e /\ draining[c]
      <4>1. Reflected(e)'
        BY <1>1, <2>6, <3>2, HandledReflected
      <4> QED
        BY <4>1
    <3>3. CASE ~draining[c]
      BY <1>3, <1>4, <2>1, <3>1, <3>3
    <3>4. CASE d # c \/ f # e
      <4>1. e \in todo[c] => e \in todo'[c]
        BY <1>5, <2>6, <3>4 DEF HandleNext, TypeOK
      <4> QED
        BY <1>3, <1>4, <2>1, <3>1, <4>1
    <3> QED
      BY <3>2, <3>3, <3>4
  <2>7. ASSUME NEW f \in Events, SkipNext(d, f) PROVE FALSE
    BY <1>1, <2>7 DEF SkipNext
  <2> QED
    BY <1>10, <2>2, <2>3, <2>4, <2>5, <2>6, <2>7 DEF WatcherStep
<1>11. CASE Crash
  <2>1. /\ UNCHANGED <<checkpoint, at>>
        /\ last'[c] = -1 /\ ~draining'[c]
    BY <1>11 DEF Crash, boardVars, chainVars
  <2>2. ~(at'[e] \in 1..last'[c])
    BY <1>6, <2>1
  <2> QED
    BY <1>3, <1>4, <2>1, <2>2
<1>12. CASE ~Crash /\ \A d \in Chains : ~WatcherStep(d)
  BY <1>9, <1>12 DEF Next, ChainStep, FundDst, FillSlot, Withdraw, Cancel, ClaimBySwapper, Refund,
     PassTime, ClientStep, Quote, StartSign, FinishSign, RelayStep, RelayPoll, RelayClaim,
     RecordClaimed, EmptyBlock, chainOnly, boardVars, vars
<1> QED
  BY <1>10, <1>11, <1>12

-----------------------------------------------------------------------------
(* The invariant is inductive.                                             *)
LEMMA StepInvariant ==
  ASSUME IInv, [Next]_vars
  PROVE  IInv'
<1>1. TypeOK'
  BY TypeStep DEF IInv
<1> QED
  BY <1>1, BoardStep, EventOrderStep, RowsStep, WatchersStep, CoversStep DEF IInv

(* The board, the watchers and their checkpoints stay consistent with the  *)
(* chains (crosschainService, escrowSrcWatcher, escrowDstWatcher) in every *)
(* behaviour.                                                              *)
THEOREM RelayInvariant ==
  Spec => []IInv
<1>1. IInv /\ [Next]_vars => IInv'
  BY StepInvariant
<1> QED
  BY <1>1, InitInvariant, PTL DEF Spec

(* The board never shows a fill further than its escrows are.              *)
THEOREM BoardIsBacked ==
  Spec => []BoardNeverAhead
<1>1. IInv => BoardNeverAhead
  BY DEF IInv
<1> QED
  BY <1>1, RelayInvariant, PTL

(* Until a call fails, everything behind a checkpoint is on the board, but *)
(* for a fill that overlapping sign requests (setFillSwapperSig) set back. *)
THEOREM RestartsLoseNothing ==
  Spec => []CheckpointCovers
<1>1. IInv => CheckpointCovers
  BY DEF IInv
<1> QED
  BY <1>1, RelayInvariant, PTL

(* A fill's status takes the steps of the diagram, except that a sign      *)
(* request checked before the fill was locked sets it back when it writes, *)
(* after which it can be slashed without being locked again.               *)
THEOREM StatusIsMonotone ==
  Spec => StatusFollowsDiagram
<1>1. IInv /\ [Next]_vars =>
        [\A h \in Fills :
           status'[h] # status[h] =>
             <<status[h], status'[h]>> \in Diagram \/ LateSignature(h) \/ SlashedSetBack(h)]_vars
  BY StatusMoves
<1> QED
  BY <1>1, RelayInvariant, PTL DEF Spec, StatusFollowsDiagram

-----------------------------------------------------------------------------
(* A swap under way that goes on keeps the chains it was asked with, and   *)
(* one that is saved signs a row of both of them.                          *)
LEMMA IntentStep ==
  ASSUME IntentInv, IntentNext
  PROVE  IntentInv'
<1> USE IntentAssumption
<1>1. ASSUME intents' = intents, done' = done, \A t \in swaps' : t \in swaps
      PROVE  IntentInv'
  BY <1>1 DEF IntentInv, SignedAsAsked, TwoChains, hashOrder
<1>2. ASSUME NEW c \in chainIds, ChangeNetwork(c) \/ BuildEnds(c) PROVE IntentInv'
  BY <1>1, <1>2 DEF ChangeNetwork, BuildEnds, swapVars
<1>3. ASSUME NEW a \in Accounts \cup {NoAccount}, ChangeAccount(a) PROVE IntentInv'
  BY <1>1, <1>3 DEF ChangeAccount, swapVars
<1>4. CASE LoadTokens
  BY <1>1, <1>4 DEF LoadTokens, swapVars
<1>5. ASSUME NEW c \in asked, SwitchGranted(c) \/ SwitchRefused(c) PROVE IntentInv'
  BY <1>1, <1>5 DEF SwitchGranted, SwitchRefused, swapVars
<1>6. ASSUME NEW c \in chainIds, chooseSrc(c) \/ chooseDst(c) PROVE IntentInv'
  BY <1>1, <1>6 DEF chooseSrc, chooseDst, Choose, swapVars
<1>7. ASSUME NEW t \in Listed, ChooseInToken(t[2]) \/ ChooseOutToken(t[2]) \/ ReadAnswers(t)
      PROVE  IntentInv'
  BY <1>1, <1>7 DEF ChooseInToken, ChooseOutToken, ReadAnswers, swapVars
<1>8. ASSUME NEW in \in Typable, NEW out \in Typable, Type(in, out) PROVE IntentInv'
  BY <1>1, <1>8 DEF Type, swapVars
<1>9. CASE Approve
  BY <1>1, <1>9 DEF Approve, swapVars
<1>10. ASSUME NEW a \in approvals, ApproveEnds(a) PROVE IntentInv'
  BY <1>1, <1>10 DEF ApproveEnds, swapVars
<1>11. ASSUME NEW stamp \in Stamps, doSwap(stamp) PROVE IntentInv'
  <2>1. intents' = intents /\ done' = done
    BY <1>11 DEF doSwap
  <2>2. \A t \in swaps' :
          \/ t \in swaps
          \/ /\ {"pc", "swapperSig", "chainAId", "dstChainId"} \subseteq DOMAIN t
             /\ t.pc = "create"
    BY <1>11 DEF doSwap
  <2>3. SignedAsAsked' /\ \A t : TwoChains(t)' <=> TwoChains(t)
    BY <2>1 DEF IntentInv, SignedAsAsked, TwoChains, hashOrder
  <2> QED
    BY <2>1, <2>2, <2>3, Zenon DEF IntentInv
<1>12. ASSUME NEW s \in swaps, Create(s) PROVE IntentInv'
  <2>1. TwoChains(s)
    BY <1>12 DEF Create, createIntent, TwoChains
  <2>2. \A r \in intents' : r \in intents \/ r = Row(s)
    BY <1>12, Zenon DEF Create, createIntent
  <2>3. \A r \in intents : r \in intents'
    BY <1>12 DEF Create, createIntent
  <2>4. /\ {"order", "swapper", "chainAId", "dstChainId", "swapperSig"} \subseteq DOMAIN Row(s)
        /\ TwoChains(Row(s)) /\ Row(s).swapperSig = NoSig
    BY <2>1 DEF Row, TwoChains
  <2>5. \A t \in swaps' : t \in swaps \/ t = [s EXCEPT !.pc = "sign"]
    BY <1>12 DEF Create, GoOn
  <2>6. /\ {"pc", "swapperSig", "chainAId", "dstChainId"} \subseteq DOMAIN [s EXCEPT !.pc = "sign"]
        /\ [s EXCEPT !.pc = "sign"].pc = "sign"
        /\ TwoChains([s EXCEPT !.pc = "sign"])
    BY <2>1 DEF IntentInv, TwoChains
  <2>7. done' = done
    BY <1>12 DEF Create
  <2> QED
    BY <2>2, <2>3, <2>4, <2>5, <2>6, <2>7 DEF IntentInv, SignedAsAsked
<1>13. ASSUME NEW s \in swaps, Sign(s) PROVE IntentInv'
  <2> DEFINE sig == [by |-> metamask.account, chainId |-> s.chainAId]
             t   == [s EXCEPT !.pc = "save", !.swapperSig = sig]
  <2>1. /\ {"pc", "swapperSig", "chainAId", "dstChainId"} \subseteq DOMAIN s
        /\ TwoChains(s)
    BY <1>13 DEF Sign, IntentInv
  <2>2. /\ {"pc", "swapperSig", "chainAId", "dstChainId"} \subseteq DOMAIN t
        /\ TwoChains(t) /\ t.swapperSig.chainId = t.chainAId
    BY <2>1 DEF TwoChains
  <2>3. \A u \in swaps' : u \in swaps \/ u = t
    BY <1>13 DEF Sign, GoOn
  <2>4. intents' = intents /\ done' = done
    BY <1>13 DEF Sign
  <2> HIDE DEF t
  <2> QED
    BY <2>2, <2>3, <2>4 DEF IntentInv, SignedAsAsked
<1>14. ASSUME NEW s \in swaps, Save(s) PROVE IntentInv'
  <2>1. PICK r \in intents :
          /\ setOrderSwapperSig(s, r)
          /\ intents' = (intents \ {r}) \cup {[r EXCEPT !.swapperSig = s.swapperSig]}
    BY <1>14 DEF Save
  <2> DEFINE signed == [r EXCEPT !.swapperSig = s.swapperSig]
  <2>2. /\ s.pc = "save" /\ TwoChains(s) /\ s.swapperSig.chainId = s.chainAId
    BY <1>14 DEF Save, IntentInv
  <2>3. /\ TwoChains(r)
        /\ {"order", "swapper", "chainAId", "dstChainId", "swapperSig"} \subseteq DOMAIN r
    BY DEF IntentInv
  <2>4. /\ r.order = hashOrder(s)
        /\ s.swapperSig = [by |-> r.swapper, chainId |-> r.chainAId]
    BY <2>1 DEF setOrderSwapperSig
  <2>5. r.chainAId = s.chainAId /\ r.dstChainId = s.dstChainId
    BY <2>2, <2>3, <2>4 DEF TwoChains
  <2>6. /\ signed.order = r.order /\ signed.swapper = r.swapper
        /\ signed.chainAId = r.chainAId /\ signed.dstChainId = r.dstChainId
        /\ signed.swapperSig = [by |-> r.swapper, chainId |-> r.chainAId]
        /\ {"order", "swapper", "chainAId", "dstChainId", "swapperSig"} \subseteq DOMAIN signed
    BY <2>3, <2>4
  <2>7. signed.swapperSig # NoSig
    <3>1. r.chainAId # 0
      BY <2>3 DEF TwoChains
    <3>2. signed.swapperSig.chainId = r.chainAId /\ NoSig.chainId = 0
      BY <2>6 DEF NoSig
    <3> QED BY <3>1, <3>2
  <2>8. /\ \A q \in intents' : q \in intents \/ q = signed
        /\ signed \in intents' /\ \A q \in intents : q = r \/ q \in intents'
    BY <2>1
  <2> HIDE DEF signed
  <2>9. TwoChains(signed)
    BY <2>3, <2>6 DEF TwoChains
  <2>10. \A t \in swaps' : t \in swaps
    BY <1>14 DEF Save
  <2>11. \A d \in done' : d \in done \/ d = s
    BY <1>14 DEF Save
  <2>12. \A d \in done : \E q \in intents' :
           /\ q.order = hashOrder(d) /\ q.swapperSig # NoSig
           /\ q.chainAId = d.chainAId /\ q.dstChainId = d.dstChainId
    <3> SUFFICES ASSUME NEW d \in done
                 PROVE  \E q \in intents' :
                          /\ q.order = hashOrder(d) /\ q.swapperSig # NoSig
                          /\ q.chainAId = d.chainAId /\ q.dstChainId = d.dstChainId
      OBVIOUS
    <3>1. PICK q \in intents :
            /\ q.order = hashOrder(d) /\ q.swapperSig # NoSig
            /\ q.chainAId = d.chainAId /\ q.dstChainId = d.dstChainId
      BY Zenon DEF IntentInv, SignedAsAsked
    <3>2. CASE q = r
      BY <3>1, <3>2, <2>6, <2>7, <2>8, Zenon
    <3>3. CASE q # r
      BY <3>1, <3>3, <2>8, Zenon
    <3> QED BY <3>2, <3>3
  <2>13. \E q \in intents' :
           /\ q.order = hashOrder(s) /\ q.swapperSig # NoSig
           /\ q.chainAId = s.chainAId /\ q.dstChainId = s.dstChainId
    BY <2>4, <2>5, <2>6, <2>7, <2>8, Zenon
  <2>14. SignedAsAsked'
    <3>1. \A q \in intents' : q.swapperSig \in {NoSig, [by |-> q.swapper, chainId |-> q.chainAId]}
      BY <2>6, <2>8 DEF IntentInv, SignedAsAsked
    <3> QED
      BY <2>11, <2>12, <2>13, <3>1, Zenon DEF SignedAsAsked, hashOrder
  <2>15. \A q \in intents' :
           /\ {"order", "swapper", "chainAId", "dstChainId", "swapperSig"} \subseteq DOMAIN q
           /\ TwoChains(q)
    BY <2>6, <2>8, <2>9, Zenon DEF IntentInv
  <2> QED
    BY <2>10, <2>14, <2>15, Zenon DEF IntentInv, TwoChains
<1>15. ASSUME NEW s \in swaps, SwapFails(s) PROVE IntentInv'
  <2>1. intents' = intents /\ done' = done /\ \A t \in swaps' : t \in swaps
    BY <1>15 DEF SwapFails
  <2> QED BY <1>1, <2>1
<1> QED
  BY IntentNext, <1>2, <1>3, <1>4, <1>5, <1>6, <1>7, <1>8, <1>9, <1>10, <1>11, <1>12,
     <1>13, <1>14, <1>15, Zenon DEF IntentNext

(* What the board and the swap page say is signed was signed as it was     *)
(* asked for, for any chains' tokens, accounts, amounts and interleaving.  *)
THEOREM IntentInvariant ==
  IntentSpec => []IntentInv
<1>1. IntentInit => IntentInv
  BY DEF IntentInit, IntentInv, SignedAsAsked
<1>2. IntentInv /\ UNCHANGED intentVars => IntentInv'
  BY DEF IntentInv, SignedAsAsked, TwoChains, hashOrder, intentVars, swapVars
<1> QED
  BY <1>1, <1>2, IntentStep, PTL DEF IntentSpec

-----------------------------------------------------------------------------
(* The T1 the page asks for is never later than the one it shows.          *)
LEMMA ChosenNotLater ==
  ASSUME SigningTypes, openFill \in FillIds
  PROVE  chosenT1 \in Int /\ chosenT1 <= shown[openFill].t1
<1>1. shown[openFill].t1 \in Int
  BY DEF SigningTypes, RowTypes
<1>2. drawn + minutes * MINUTE \in Int
  <2>1. MINUTE \in Int /\ minutes \in Int /\ drawn \in Int
    BY SigningAssumption DEF SigningTypes
  <2> QED BY <2>1
<1> QED
  BY <1>1, <1>2 DEF chosenT1, Shorter

LEMMA MaxMinInt ==
  ASSUME NEW row \in RowTypes, NEW now \in Int
  PROVE  maxMin(row, now) \in Int
<1>1. row.t1 - now \in Int /\ MINUTE \in Nat \ {0}
  BY SigningAssumption DEF RowTypes
<1>2. (row.t1 - now) \div MINUTE \in Int
  BY <1>1
<1> QED
  BY <1>2 DEF maxMin, Longer

(* Whatever is drawn, the form's minutes are a number.                     *)
LEMMA DrawTypes ==
  ASSUME SigningTypes, NEW list \in [FillIds -> RowTypes],
         NEW open \in FillIds \cup {NoFill}, Draw(list, open)
  PROVE  /\ shown' \in [FillIds -> RowTypes] /\ openFill' \in FillIds \cup {NoFill}
         /\ drawn' \in Int /\ minutes' \in Int /\ shown' = list
<1>1. clock \in Int /\ minutes \in Int
  BY DEF SigningTypes
<1>2. CASE ~Form(list, open)
  BY <1>1, <1>2 DEF Draw
<1>3. CASE Form(list, open)
  <2>1. list[open] \in RowTypes
    BY <1>3 DEF Form
  <2>2. maxMin(list[open], clock) \in Int
    BY <1>1, <2>1, MaxMinInt
  <2> QED
    BY <1>1, <1>3, <2>2 DEF Draw
<1> QED
  BY <1>2, <1>3

(* A step that leaves the rows alone.                                      *)
LEMMA RowsStay ==
  ASSUME SigningInv, UNCHANGED <<rows, proposed>>, SigningTypes', Backed(shown'),
         \A f \in fetches' : Backed(f.rows),
         \A r \in requests' :
           r \in requests \/ (rows[r.fill].status # "none" /\ r.t1 <= proposed[r.fill])
  PROVE  SigningInv'
<1>1. \A list : Backed(list) => Backed(list)'
  BY DEF Backed
<1>2. \A r \in requests' : rows[r.fill].status # "none" /\ r.t1 <= proposed[r.fill]
  BY DEF SigningInv, NeverExtended
<1>3. NeverExtended'
  BY <1>2 DEF SigningInv, NeverExtended
<1> QED
  BY <1>1, <1>2, <1>3 DEF SigningInv, Backed

(* A quote and a watcher's move.                                           *)
LEMMA RowsMove ==
  ASSUME SigningInv, NEW h \in FillIds,
         Record(h) \/ \E t1 \in Proposals[h] : createFillQuote(h, t1)
  PROVE  SigningInv'
<1> USE DEF RowTypes
<1>1. CASE Record(h)
  <2>1. PICK m \in Moves : m[1] = rows[h].status /\ rows' = [rows EXCEPT ![h].status = m[2]]
    BY <1>1 DEF Record
  <2>2. \/ m[1] = "quoted" /\ m[2] = "dst_funded"
        \/ /\ m[1] \in {"authorized", "src_locked", "revealed"}
           /\ m[2] \in {"src_locked", "revealed", "claimed", "slashed"}
    BY DEF Moves
  <2>3. /\ rows[h] \in RowTypes /\ rows' \in [FillIds -> RowTypes]
        /\ rows'[h].status = m[2] /\ rows'[h].t1 = rows[h].t1
        /\ rows'[h].swapperSig = rows[h].swapperSig
        /\ \A g \in FillIds : g # h => rows'[g] = rows[g]
    BY <2>1, <2>2 DEF SigningInv, SigningTypes
  <2>4. /\ UNCHANGED <<clock, proposed, fetches, shown, openFill, minutes, drawn, requests>>
    BY <1>1 DEF Record, pageVars
  <2>5. SigningTypes'
    BY <2>3, <2>4 DEF SigningInv, SigningTypes
  <2>6. NeverExtended'
    BY <2>1, <2>2, <2>3, <2>4 DEF SigningInv, NeverExtended
  <2>7. \A g \in FillIds : rows[g].status # "none" => rows'[g].status # "none"
    BY <2>2, <2>3
  <2>8. \A list : Backed(list) => Backed(list)'
    BY <2>4, <2>7 DEF Backed
  <2>9. \A r \in requests : r.fill \in FillIds
    BY DEF SigningInv, SigningTypes, RequestTypes
  <2> QED
    BY <2>4, <2>5, <2>6, <2>7, <2>8, <2>9 DEF SigningInv
<1>2. CASE \E t1 \in Proposals[h] : createFillQuote(h, t1)
  <2>1. PICK t1 \in Proposals[h] : createFillQuote(h, t1)
    BY <1>2
  <2>2. t1 \in Int
    BY SigningAssumption
  <2> DEFINE row == [rows[h] EXCEPT !.status = "quoted", !.t1 = t1]
  <2>11. rows \in [FillIds -> RowTypes] /\ rows[h] \in RowTypes
    BY DEF SigningInv, SigningTypes
  <2>12. /\ row \in RowTypes /\ row.status = "quoted" /\ row.t1 = t1
         /\ row.swapperSig = rows[h].swapperSig
    BY <2>2, <2>11
  <2>13. rows[h].status = "none" /\ rows' = [rows EXCEPT ![h] = row]
    BY <2>1 DEF createFillQuote
  <2> HIDE DEF row
  <2>3. /\ rows[h] \in RowTypes /\ rows' \in [FillIds -> RowTypes]
        /\ rows[h].status = "none" /\ rows'[h].status = "quoted" /\ rows'[h].t1 = t1
        /\ rows'[h].swapperSig = rows[h].swapperSig
        /\ \A g \in FillIds : g # h => rows'[g] = rows[g]
    BY <2>11, <2>12, <2>13
  <2>4. /\ UNCHANGED <<clock, fetches, shown, openFill, minutes, drawn, requests>>
    BY <2>1 DEF createFillQuote, pageVars
  <2>5. /\ proposed' \in [FillIds -> Int] /\ proposed'[h] = t1
        /\ \A g \in FillIds : g # h => proposed'[g] = proposed[g]
    BY <2>1, <2>2 DEF createFillQuote, SigningInv, SigningTypes
  <2>6. SigningTypes'
    BY <2>3, <2>4, <2>5 DEF SigningInv, SigningTypes
  <2>7. rows[h].swapperSig = 0
    BY <2>3 DEF SigningInv, NeverExtended
  <2>8. \A r \in requests : r.fill \in FillIds /\ r.fill # h
    BY <2>3 DEF SigningInv, SigningTypes, RequestTypes
  <2>9. NeverExtended'
    BY <2>3, <2>4, <2>5, <2>7, <2>8 DEF SigningInv, NeverExtended
  <2>10. \A list : Backed(list) => Backed(list)'
    BY <2>3, <2>5 DEF Backed
  <2> QED
    BY <2>3, <2>4, <2>6, <2>8, <2>9, <2>10 DEF SigningInv
<1> QED
  BY <1>1, <1>2

(* The list arrives or is emptied.                                         *)
LEMMA ListArrives ==
  ASSUME SigningInv, NEW f \in fetches, FetchArrives(f) \/ FetchFails(f)
  PROVE  SigningInv'
<1>1. /\ UNCHANGED <<rows, proposed, clock, requests>> /\ \A g \in fetches' : g \in fetches
  BY DEF FetchArrives, FetchFails
<1>2. f.rows \in [FillIds -> RowTypes] /\ Backed(f.rows) /\ SigningTypes
  BY DEF SigningInv, SigningTypes
<1>3. NoRows \in [FillIds -> RowTypes] /\ Backed(NoRows)
  BY DEF NoRows, NoRow, RowTypes, Backed
<1>4. \/ \E list \in {f.rows, NoRows}, open \in FillIds \cup {NoFill} : Draw(list, open)
      \/ UNCHANGED <<shown, openFill, minutes, drawn>>
  <2>1. openFill \in FillIds \cup {NoFill}
    BY <1>2 DEF SigningTypes
  <2>2. CASE FetchArrives(f)
    BY <2>1, <2>2, Zenon DEF FetchArrives
  <2>3. CASE FetchFails(f)
    BY <2>3, Zenon DEF FetchFails
  <2> QED BY <2>2, <2>3
<1>5. CASE \E list \in {f.rows, NoRows}, open \in FillIds \cup {NoFill} : Draw(list, open)
  <2>1. PICK list \in {f.rows, NoRows}, open \in FillIds \cup {NoFill} : Draw(list, open)
    BY <1>5
  <2>2. list \in [FillIds -> RowTypes] /\ Backed(list)
    BY <1>2, <1>3
  <2>3. /\ shown' \in [FillIds -> RowTypes] /\ openFill' \in FillIds \cup {NoFill}
        /\ drawn' \in Int /\ minutes' \in Int /\ shown' = list
    BY <1>2, <2>1, <2>2, DrawTypes
  <2>4. SigningTypes'
    BY <1>1, <1>2, <2>3 DEF SigningTypes
  <2> QED
    BY <1>1, <2>2, <2>3, <2>4, RowsStay DEF SigningInv
<1>6. CASE UNCHANGED <<shown, openFill, minutes, drawn>>
  <2>1. SigningTypes'
    BY <1>1, <1>2, <1>6 DEF SigningTypes
  <2> QED
    BY <1>1, <1>6, <2>1, RowsStay DEF SigningInv
<1> QED
  BY <1>4, <1>5, <1>6

(* The swapper at the card, and its clock.                                 *)
LEMMA AtTheCard ==
  ASSUME SigningInv,
         \/ Second \/ FetchOrders \/ Reclamp \/ PressClaim
         \/ \E h \in FillIds : Toggle(h)
         \/ \E m \in Typed : TypeMinutes(m)
         \/ \E h \in claims : ClaimEnds(h)
  PROVE  SigningInv'
<1>1. SigningTypes /\ Backed(shown) /\ \A f \in fetches : Backed(f.rows)
  BY DEF SigningInv
<1>2. rows \in [FillIds -> RowTypes] /\ Backed(rows)
  <2>1. rows \in [FillIds -> RowTypes]
    BY <1>1 DEF SigningTypes
  <2>2. \A h \in FillIds : rows[h].status # "none" => rows[h].t1 <= proposed[h]
    <3> SUFFICES ASSUME NEW h \in FillIds PROVE rows[h].t1 <= proposed[h]
      OBVIOUS
    <3>1. rows[h].t1 \in Int /\ proposed[h] \in Int
      BY <2>1, <1>1 DEF RowTypes, SigningTypes
    <3> QED BY <3>1 DEF SigningInv, NeverExtended
  <2> QED BY <2>1, <2>2 DEF Backed
<1>3. UNCHANGED <<rows, proposed, requests>>
  BY DEF Second, FetchOrders, Reclamp, Says, PressClaim, Toggle, TypeMinutes, ClaimEnds
<1>4. \A f \in fetches' : f \in fetches \/ f.rows = rows
  BY DEF Second, FetchOrders, Reclamp, Says, PressClaim, Toggle, TypeMinutes, ClaimEnds, Ask
<1>5. shown' = shown
  BY DEF Second, FetchOrders, Reclamp, Says, PressClaim, Toggle, TypeMinutes, ClaimEnds, Draw,
         pageVars
<1>6. clock' \in Int /\ drawn' \in Int /\ minutes' \in Int /\ openFill' \in FillIds \cup {NoFill}
  <2>1. /\ clock \in Int /\ drawn \in Int /\ minutes \in Int
        /\ openFill \in FillIds \cup {NoFill}
    BY <1>1 DEF SigningTypes
  <2>2. CASE Second \/ FetchOrders \/ PressClaim \/ \E h \in claims : ClaimEnds(h)
    <3>1. /\ clock' \in {clock, clock + 1} /\ drawn' \in {drawn, clock}
          /\ minutes' = minutes /\ openFill' = openFill
      BY <2>2 DEF Second, FetchOrders, PressClaim, ClaimEnds, pageVars
    <3> QED BY <2>1, <3>1
  <2>3. CASE \E h \in FillIds : Toggle(h)
    <3>1. PICK h \in FillIds : Draw(shown, IF openFill = h THEN NoFill ELSE h) /\ clock' = clock
      BY <2>3 DEF Toggle
    <3>2. (IF openFill = h THEN NoFill ELSE h) \in FillIds \cup {NoFill}
      OBVIOUS
    <3>3. shown \in [FillIds -> RowTypes]
      BY <1>1 DEF SigningTypes
    <3> QED BY <1>1, <2>1, <3>1, <3>2, <3>3, DrawTypes
  <2>4. CASE Reclamp \/ \E m \in Typed : TypeMinutes(m)
    <3>1. /\ openFill \in FillIds /\ UNCHANGED <<clock, openFill>>
          /\ drawn' \in {drawn, clock}
      BY <2>1, <2>4 DEF Reclamp, TypeMinutes, Says, Form
    <3>2. shown[openFill] \in RowTypes
      BY <1>1, <3>1 DEF SigningTypes
    <3>3. maxMin(shown[openFill], clock) \in Int /\ cap \in Int
      BY <2>1, <3>2, MaxMinInt DEF cap
    <3>4. \A m \in Typed : Shorter(cap, Longer(1, m)) \in Int
      <4>1. Typed \subseteq Int
        BY SigningAssumption
      <4>2. \A m \in Typed : Longer(1, m) \in Int
        BY <4>1 DEF Longer
      <4> QED BY <3>3, <4>2 DEF Shorter
    <3>5. minutes' \in Int
      BY <2>4, <3>3, <3>4 DEF Reclamp, TypeMinutes, Says
    <3> QED BY <2>1, <3>1, <3>5
  <2> QED BY <2>2, <2>3, <2>4
<1>7. SigningTypes'
  BY <1>1, <1>2, <1>3, <1>4, <1>5, <1>6 DEF SigningTypes
<1>8. \A f \in fetches' : Backed(f.rows)
  BY <1>1, <1>2, <1>4
<1> QED
  BY <1>1, <1>3, <1>5, <1>7, <1>8, RowsStay

(* A signature asked for, given, checked, written and answered.            *)
LEMMA RequestsMove ==
  ASSUME SigningInv,
         \/ PressSign
         \/ \E r \in requests :
              WalletSigns(r) \/ ServiceReads(r) \/ ServiceWrites(r) \/ SignAnswered(r) \/ SignFails(r)
  PROVE  SigningInv'
<1>1. SigningTypes /\ Backed(shown) /\ \A f \in fetches : Backed(f.rows)
  BY DEF SigningInv
<1>2. /\ clock \in Int /\ drawn \in Int /\ minutes \in Int /\ openFill \in FillIds \cup {NoFill}
      /\ rows \in [FillIds -> RowTypes] /\ requests \subseteq RequestTypes
  BY <1>1 DEF SigningTypes
<1>3. CASE PressSign
  <2>1. openFill \in FillIds /\ shown[openFill].status # "none"
    BY <1>2, <1>3 DEF PressSign, Form
  <2>2. /\ rows[openFill].status # "none"
        /\ chosenT1 \in Int /\ shown[openFill].t1 \in Int /\ proposed[openFill] \in Int
        /\ chosenT1 <= proposed[openFill]
    <3>1. chosenT1 \in Int /\ chosenT1 <= shown[openFill].t1
      BY <1>1, <2>1, ChosenNotLater
    <3>2. shown[openFill].t1 \in Int /\ proposed[openFill] \in Int
      BY <1>1, <2>1 DEF SigningTypes, RowTypes
    <3>3. rows[openFill].status # "none" /\ shown[openFill].t1 <= proposed[openFill]
      BY <1>1, <2>1 DEF Backed
    <3> QED BY <3>1, <3>2, <3>3
  <2> DEFINE new == [pc |-> "wallet", fill |-> openFill, t1 |-> chosenT1]
  <2>3. /\ requests' = requests \cup {new} /\ drawn' = clock
        /\ UNCHANGED <<clock, proposed, rows, fetches, shown, openFill, minutes>>
    BY <1>3 DEF PressSign
  <2>4. new \in RequestTypes
    BY <2>1, <2>2 DEF RequestTypes
  <2>5. SigningTypes'
    BY <1>1, <2>3, <2>4 DEF SigningTypes
  <2>6. \A r \in requests' :
          r \in requests \/ (rows[r.fill].status # "none" /\ r.t1 <= proposed[r.fill])
    BY <2>2, <2>3
  <2> QED
    BY <1>1, <2>3, <2>5, <2>6, RowsStay
<1>4. ASSUME NEW r \in requests, WalletSigns(r) \/ ServiceReads(r) PROVE SigningInv'
  <2>1. PICK pc \in {"sent", "checked"} : GoesOn(r, pc)
    BY <1>4 DEF WalletSigns, ServiceReads
  <2>2. UNCHANGED <<clock, proposed, rows, fetches, shown, openFill, minutes, drawn>>
    BY <1>4 DEF WalletSigns, ServiceReads, pageVars
  <2> DEFINE on == [r EXCEPT !.pc = pc]
  <2>3. /\ on \in RequestTypes
        /\ on.fill = r.fill /\ on.t1 = r.t1
    BY <1>2 DEF RequestTypes
  <2>4. requests' = (requests \ {r}) \cup {on}
    BY <2>1 DEF GoesOn
  <2>5. rows[r.fill].status # "none" /\ r.t1 <= proposed[r.fill]
    BY DEF SigningInv, NeverExtended
  <2> HIDE DEF on
  <2>6. SigningTypes'
    BY <1>1, <2>2, <2>3, <2>4 DEF SigningTypes
  <2>7. \A q \in requests' :
          q \in requests \/ (rows[q.fill].status # "none" /\ q.t1 <= proposed[q.fill])
    BY <2>3, <2>4, <2>5
  <2> QED
    BY <1>1, <2>2, <2>6, <2>7, RowsStay
<1>5. ASSUME NEW r \in requests, ServiceWrites(r) PROVE SigningInv'
  <2> DEFINE on == [r EXCEPT !.pc = "written"]
  <2>1. /\ requests' = (requests \ {r}) \cup {on}
        /\ rows' = [rows EXCEPT ![r.fill] = setFillSwapperSig(rows[r.fill], r)]
        /\ UNCHANGED <<clock, proposed, fetches, shown, openFill, minutes, drawn>>
    BY <1>5 DEF ServiceWrites, GoesOn, pageVars
  <2>2. /\ on \in RequestTypes
        /\ on.fill = r.fill /\ on.t1 = r.t1 /\ r.fill \in FillIds /\ r.t1 \in Int
    BY <1>2 DEF RequestTypes
  <2>3. rows[r.fill].status # "none" /\ r.t1 <= proposed[r.fill]
    BY DEF SigningInv, NeverExtended
  <2> HIDE DEF on
  <2>4. /\ rows' \in [FillIds -> RowTypes]
        /\ rows'[r.fill].status = "authorized" /\ rows'[r.fill].t1 = r.t1
        /\ rows'[r.fill].swapperSig = r.t1
        /\ \A g \in FillIds : g # r.fill => rows'[g] = rows[g]
    BY <1>2, <2>1, <2>2 DEF setFillSwapperSig, RowTypes
  <2>5. SigningTypes'
    BY <1>1, <2>1, <2>2, <2>4 DEF SigningTypes
  <2>6. \A q \in requests' : q.fill \in FillIds /\ rows'[q.fill].status # "none" /\ q.t1 <= proposed[q.fill]
    <3>1. \A q \in requests : q.fill \in FillIds /\ rows'[q.fill].status # "none" /\ q.t1 <= proposed[q.fill]
      BY <1>2, <2>4 DEF SigningInv, NeverExtended, RequestTypes
    <3> QED BY <2>1, <2>2, <3>1
  <2>7. NeverExtended'
    <3>1. \A h \in FillIds :
            /\ rows'[h].status \in {"none", "quoted", "dst_funded"}
                 => rows'[h].t1 = proposed[h] /\ rows'[h].swapperSig = 0
            /\ rows'[h].status \notin {"none", "quoted", "dst_funded"}
                 => rows'[h].swapperSig = rows'[h].t1 /\ rows'[h].t1 <= proposed[h]
      BY <2>3, <2>4 DEF SigningInv, NeverExtended
    <3> QED BY <2>1, <2>6, <3>1 DEF NeverExtended
  <2>8. \A h \in FillIds : rows[h].status # "none" => rows'[h].status # "none"
    BY <2>4
  <2>9. \A list : Backed(list) => Backed(list)'
    BY <2>1, <2>8 DEF Backed
  <2> QED
    BY <1>1, <2>1, <2>5, <2>6, <2>7, <2>9 DEF SigningInv
<1>6. ASSUME NEW r \in requests, SignAnswered(r) \/ SignFails(r) PROVE SigningInv'
  <2>1. /\ requests' = requests \ {r} /\ drawn' \in {drawn, clock}
        /\ UNCHANGED <<clock, proposed, rows, shown, openFill, minutes>>
        /\ \A f \in fetches' : f \in fetches \/ f.rows = rows
    BY <1>6 DEF SignAnswered, SignFails, Ask, pageVars
  <2>2. Backed(rows)
    <3> SUFFICES ASSUME NEW h \in FillIds PROVE rows[h].t1 <= proposed[h]
      BY DEF Backed
    <3>1. rows[h].t1 \in Int /\ proposed[h] \in Int
      BY <1>1 DEF RowTypes, SigningTypes
    <3> QED BY <3>1 DEF SigningInv, NeverExtended
  <2>3. SigningTypes'
    BY <1>1, <2>1 DEF SigningTypes
  <2>4. \A f \in fetches' : Backed(f.rows)
    BY <1>1, <2>1, <2>2
  <2> QED
    BY <1>1, <2>1, <2>3, <2>4, RowsStay
<1> QED
  BY <1>3, <1>4, <1>5, <1>6

(* A T1 is only brought forward, for any number of fills, fetches and      *)
(* requests under way.                                                     *)
THEOREM SigningInvariant ==
  SigningSpec => []SigningInv
<1>1. SigningInit => SigningInv
  <2> SUFFICES ASSUME SigningInit PROVE SigningInv
    OBVIOUS
  <2>1. NoRows \in [FillIds -> RowTypes] /\ \A h \in FillIds : NoRows[h] = NoRow
    BY DEF NoRows, NoRow, RowTypes
  <2>2. SigningTypes
    BY <2>1 DEF SigningInit, SigningTypes
  <2>3. NeverExtended
    BY <2>1 DEF SigningInit, NeverExtended, NoRow
  <2> QED
    BY <2>1, <2>2, <2>3 DEF SigningInit, SigningInv, Backed, NoRow
<1>2. SigningInv /\ [SigningNext]_signingVars => SigningInv'
  <2>1. CASE SigningNext
    BY <2>1, RowsMove, ListArrives, AtTheCard, RequestsMove, Zenon DEF SigningNext
  <2>2. CASE UNCHANGED signingVars
    BY <2>2 DEF SigningInv, SigningTypes, NeverExtended, Backed, signingVars, pageVars
  <2> QED BY <2>1, <2>2
<1> QED
  BY <1>1, <1>2, PTL DEF SigningSpec

(* What a form or a list starts from is in order.                          *)
LEMMA Blank ==
  /\ \A n \in Names : NotSet \in Addresses(n) /\ Addresses(n) \subseteq AllAddresses
  /\ NoFiller \in EntryTypes /\ NoForm \in FormTypes /\ NoForm.name = NoName
  /\ NoForm.address = NotSet /\ NoName \notin Names
  /\ Nobody \in [Names -> EntryTypes] /\ ItsOwn(Nobody)
<1>1. \A n \in Names : NotSet \in Addresses(n) /\ Addresses(n) \subseteq AllAddresses
  BY DEF Addresses, AllAddresses
<1>2. NotSet \in AllAddresses
  BY DEF AllAddresses
<1>3. NoFiller \in EntryTypes /\ NoFiller.address = NotSet
  BY <1>2 DEF NoFiller, EntryTypes
<1>4. NoForm \in FormTypes /\ NoForm.name = NoName /\ NoForm.address = NotSet
  BY <1>2 DEF NoForm, FormTypes
<1>5. Nobody \in [Names -> EntryTypes] /\ \A n \in Names : Nobody[n] = NoFiller
  BY <1>3 DEF Nobody
<1>6. ItsOwn(Nobody)
  BY <1>1, <1>3, <1>5 DEF ItsOwn
<1> QED
  BY <1>1, <1>3, <1>4, <1>5, <1>6, FillersAssumption

(* A seed adds a filler without an address.                                *)
LEMMA SeedsKeep ==
  ASSUME NEW table \in [Names -> EntryTypes], ItsOwn(table)
  PROVE  /\ Seeded(table) \in [Names -> EntryTypes] /\ ItsOwn(Seeded(table))
         /\ \A n \in Names : table[n].there => Seeded(table)[n] = table[n]
<1>1. Entry(NotSet, {}) \in EntryTypes /\ Entry(NotSet, {}).address = NotSet
  BY DEF Entry, EntryTypes, AllAddresses
<1>2. \A n \in Names : Seeded(table)[n] \in {Entry(NotSet, {}), table[n]}
                       /\ (table[n].there => Seeded(table)[n] = table[n])
  BY DEF Seeded
<1>3. Seeded(table) \in [Names -> EntryTypes]
  BY <1>1 DEF Seeded
<1>4. ItsOwn(Seeded(table))
  BY <1>1, <1>2, Blank DEF ItsOwn
<1> QED
  BY <1>2, <1>3, <1>4

(* A load starts, on a page.                                               *)
LEMMA LoadTypes ==
  ASSUME FillersTypes, NEW p \in Pages, Load(p)
  PROVE  /\ loads' \subseteq [page : Pages, read : BOOLEAN, rows : [Names -> EntryTypes]]
         /\ loading' \subseteq Pages
         /\ \A l \in loads' : l \in loads \/ l.rows = Nobody
<1> DEFINE load == [page |-> p, read |-> FALSE, rows |-> Nobody]
<1>1. load \in [page : Pages, read : BOOLEAN, rows : [Names -> EntryTypes]] /\ load.rows = Nobody
  BY Blank
<1>2. loads' = loads \cup {load} /\ loading' = loading \cup {p}
  BY DEF Load
<1> HIDE DEF load
<1> QED
  BY <1>1, <1>2 DEF FillersTypes

(* What a page holds when its tab has gone.                                *)
LEMMA TabGoes ==
  ASSUME FillersInv, NEW p \in Pages, NEW went, Unmount(p, went),
         UNCHANGED <<cc_fillers, sessions, issued>>, token' \in [Pages -> Nat]
  PROVE  FillersInv'
<1>0. FillersTypes
  BY DEF FillersInv
<1>1. tab' \subseteq Pages /\ loading' \subseteq Pages /\ loads' \subseteq loads
  BY <1>0 DEF Unmount, FillersTypes
<1>2. /\ fillers' \in [Pages -> [Names -> EntryTypes]]
      /\ \A q \in Pages : fillers'[q] \in {fillers[q], Nobody}
  BY <1>0, Blank DEF Unmount, FillersTypes
<1>3. /\ adding' \in [Pages -> FormTypes] /\ editing' \in [Pages -> FormTypes]
      /\ \A q \in Pages : adding'[q] \in {adding[q], NoForm} /\ editing'[q] \in {editing[q], NoForm}
  BY <1>0, Blank DEF Unmount, FillersTypes
<1>4. /\ calls' \subseteq CallTypes
      /\ \A c \in calls' : \E d \in calls : c.form = d.form
  <2> SUFFICES ASSUME NEW c \in calls' PROVE c \in CallTypes /\ \E d \in calls : c.form = d.form
    OBVIOUS
  <2>1. PICK d \in calls : c = IF d.page = p THEN [d EXCEPT !.shown = FALSE] ELSE d
    BY DEF Unmount
  <2>2. d \in CallTypes
    BY <1>0 DEF FillersTypes
  <2>3. c \in CallTypes /\ c.form = d.form
    BY <2>1, <2>2 DEF CallTypes
  <2> QED BY <2>3
<1>5. FillersTypes'
  BY <1>0, <1>1, <1>2, <1>3, <1>4 DEF FillersTypes
<1>6. \A q \in Pages : /\ ItsOwn(fillers'[q]) /\ OfOne(adding'[q]) /\ OfOne(editing'[q])
                       /\ adding'[q].name = NoName => adding'[q].address = NotSet
  BY <1>2, <1>3, Blank DEF FillersInv, OfOne
<1>7. \A c \in calls' : c.form.name \in Names /\ OfOne(c.form)
  BY <1>4 DEF FillersInv
<1> QED
  BY <1>1, <1>5, <1>6, <1>7 DEF FillersInv, ItsOwn, OfOne, Addresses

(* Sessions, lists and their answers.                                      *)
LEMMA ListsMove ==
  ASSUME FillersInv,
         \/ \E p \in Pages : LogIn(p) \/ LogOut(p) \/ OpenTab(p) \/ LeaveTab(p) \/ Refresh(p)
         \/ \E t \in sessions : Expires(t)
         \/ \E l \in loads : ListRead(l) \/ LoadEnds(l)
  PROVE  FillersInv'
<1>0. FillersTypes
  BY DEF FillersInv
<1>1. ASSUME NEW p \in Pages, LogIn(p) PROVE FillersInv'
  <2>1. issued' \in Nat /\ sessions' \subseteq Nat /\ token' \in [Pages -> Nat]
    BY <1>0, <1>1 DEF LogIn, login, FillersTypes
  <2> QED BY <1>0, <1>1, <2>1 DEF LogIn, login, tabVars, FillersInv, FillersTypes, ItsOwn, OfOne
<1>2. ASSUME NEW p \in Pages, LogOut(p) \/ LeaveTab(p) PROVE FillersInv'
  <2>1. token' \in [Pages -> Nat]
    BY <1>0, <1>2 DEF LogOut, handleLogout, LeaveTab, authVars, FillersTypes
  <2> QED BY <1>2, <2>1, TabGoes DEF LogOut, handleLogout, LeaveTab, authVars
<1>3. ASSUME NEW p \in Pages, OpenTab(p) \/ Refresh(p) PROVE FillersInv'
  <2>1. /\ Load(p) /\ tab' \subseteq Pages
        /\ UNCHANGED <<cc_fillers, authVars, fillers, adding, editing, calls>>
    BY <1>0, <1>3 DEF OpenTab, Refresh, FillersTypes
  <2>2. FillersTypes' /\ \A l \in loads' : l \in loads \/ l.rows = Nobody
    BY <1>0, <2>1, LoadTypes DEF FillersTypes, authVars
  <2> QED BY <2>1, <2>2, Blank DEF FillersInv, ItsOwn, OfOne
<1>4. ASSUME NEW t \in sessions, Expires(t) PROVE FillersInv'
  BY <1>0, <1>4 DEF Expires, tabVars, FillersInv, FillersTypes, ItsOwn, OfOne
<1>5. ASSUME NEW l \in loads, ListRead(l) PROVE FillersInv'
  <2>1. l \in [page : Pages, read : BOOLEAN, rows : [Names -> EntryTypes]]
    BY <1>0 DEF FillersTypes
  <2> DEFINE read == [l EXCEPT !.read = TRUE, !.rows = cc_fillers]
  <2>2. /\ read \in [page : Pages, read : BOOLEAN, rows : [Names -> EntryTypes]]
        /\ read.rows = cc_fillers
    BY <1>0, <2>1 DEF FillersTypes
  <2>3. \A k \in loads' : k \in loads \/ k = read
    BY <1>5 DEF ListRead
  <2> HIDE DEF read
  <2>4. FillersTypes'
    BY <1>0, <1>5, <2>2, <2>3 DEF ListRead, authVars, tabVars, FillersTypes
  <2> QED
    BY <1>5, <2>2, <2>3, <2>4 DEF ListRead, tabVars, FillersInv, ItsOwn, OfOne
<1>6. ASSUME NEW l \in loads, LoadEnds(l) PROVE FillersInv'
  <2>1. l.page \in Pages /\ l.rows \in [Names -> EntryTypes] /\ ItsOwn(l.rows)
    BY <1>0 DEF FillersInv, FillersTypes
  <2>2. PICK list \in {l.rows, Nobody} : fillers' = [fillers EXCEPT ![l.page] = list]
    BY <1>6 DEF LoadEnds
  <2>3. list \in [Names -> EntryTypes] /\ ItsOwn(list)
    BY <2>1, Blank
  <2>4. /\ fillers' \in [Pages -> [Names -> EntryTypes]]
        /\ \A p \in Pages : fillers'[p] \in {fillers[p], list}
    BY <1>0, <2>2, <2>3 DEF FillersTypes
  <2>5. FillersTypes'
    BY <1>0, <1>6, <2>4 DEF LoadEnds, authVars, FillersTypes
  <2>6. \A p \in Pages : ItsOwn(fillers'[p])
    BY <2>3, <2>4 DEF FillersInv
  <2> QED
    BY <1>6, <2>5, <2>6 DEF LoadEnds, FillersInv, ItsOwn, OfOne
<1> QED
  BY <1>1, <1>2, <1>3, <1>4, <1>5, <1>6

(* One form changes: to one of its filler, or, where a filler is added, to *)
(* one without an address.                                                 *)
LEMMA FormsMove ==
  ASSUME FillersInv, NEW p \in Pages, NEW form \in FormTypes, OfOne(form),
         \/ TypeNew(p, form) /\ (form.name = NoName => form.address = NotSet)
         \/ Edit(p, form)
  PROVE  FillersInv'
<1>0. FillersTypes
  BY DEF FillersInv
<1>1. /\ adding' \in [Pages -> FormTypes] /\ editing' \in [Pages -> FormTypes]
      /\ \A q \in Pages :
           /\ OfOne(adding'[q]) /\ OfOne(editing'[q])
           /\ adding'[q].name = NoName => adding'[q].address = NotSet
  <2>1. CASE TypeNew(p, form) /\ (form.name = NoName => form.address = NotSet)
    <3>1. /\ adding' \in [Pages -> FormTypes] /\ editing' = editing
          /\ \A q \in Pages : adding'[q] = adding[q] \/ adding'[q] = form
      BY <1>0, <2>1 DEF TypeNew, FillersTypes
    <3> QED BY <1>0, <2>1, <3>1 DEF FillersInv, FillersTypes
  <2>2. CASE Edit(p, form)
    <3>1. /\ editing' \in [Pages -> FormTypes] /\ adding' = adding
          /\ \A q \in Pages : editing'[q] = editing[q] \/ editing'[q] = form
      BY <1>0, <2>2 DEF Edit, FillersTypes
    <3> QED BY <1>0, <3>1 DEF FillersInv, FillersTypes
  <2> QED BY <2>1, <2>2
<1>2. UNCHANGED <<cc_fillers, authVars, tab, fillers, loading, loads, calls>>
  BY DEF TypeNew, Edit
<1>3. FillersTypes'
  BY <1>0, <1>1, <1>2 DEF FillersTypes, authVars
<1> QED
  BY <1>1, <1>2, <1>3 DEF FillersInv, ItsOwn, OfOne

(* What the admin types, checks and opens.                                 *)
LEMMA FormsFilled ==
  ASSUME FillersInv, NEW p \in Pages,
         \/ \E n \in Names :
              \/ TypeName(p, n) \/ PressEdit(p, n)
              \/ \E a \in Addresses(n) : TypeAddress(p, a) \/ EditAddress(p, a)
         \/ \E id \in Networks : CheckNew(p, id) \/ CheckEdit(p, id)
         \/ CancelEdit(p)
  PROVE  FillersInv'
<1>0. /\ adding[p] \in FormTypes /\ OfOne(adding[p])
      /\ adding[p].name = NoName => adding[p].address = NotSet
      /\ editing[p] \in FormTypes /\ OfOne(editing[p])
      /\ fillers[p] \in [Names -> EntryTypes] /\ ItsOwn(fillers[p])
  BY DEF FillersInv, FillersTypes
<1>1. ASSUME NEW n \in Names, TypeName(p, n) PROVE FillersInv'
  <2> DEFINE form == [adding[p] EXCEPT !.name = n]
  <2>1. form \in FormTypes /\ form.name = n /\ form.address = NotSet
    BY <1>0, <1>1 DEF TypeName, FormTypes
  <2>2. TypeNew(p, form)
    BY <1>1 DEF TypeName
  <2> HIDE DEF form
  <2> QED BY <2>1, <2>2, Blank, FormsMove DEF OfOne
<1>2. ASSUME NEW n \in Names, PressEdit(p, n) PROVE FillersInv'
  <2>1. fillers[p][n] \in EntryTypes /\ fillers[p][n].address \in Addresses(n)
    BY <1>0 DEF ItsOwn
  <2>2. startEdit(p, n) \in FormTypes /\ OfOne(startEdit(p, n))
    BY <2>1 DEF startEdit, FormTypes, EntryTypes, OfOne
  <2>3. Edit(p, startEdit(p, n))
    BY <1>2 DEF PressEdit
  <2> QED BY <2>2, <2>3, FormsMove
<1>3. ASSUME NEW n \in Names, NEW a \in Addresses(n), TypeAddress(p, a) PROVE FillersInv'
  <2> DEFINE form == [adding[p] EXCEPT !.address = a]
  <2>1. /\ form \in FormTypes /\ form.name = adding[p].name /\ form.address = a
        /\ adding[p].name \in Names /\ a \in Own[adding[p].name]
    BY <1>0, <1>3, Blank DEF TypeAddress, FormTypes
  <2>2. TypeNew(p, form) /\ OfOne(form) /\ form.name # NoName
    BY <1>3, <2>1 DEF TypeAddress, OfOne, Addresses
  <2> HIDE DEF form
  <2> QED BY <2>1, <2>2, FormsMove
<1>4. ASSUME NEW n \in Names, NEW a \in Addresses(n), EditAddress(p, a) PROVE FillersInv'
  <2> DEFINE form == [editing[p] EXCEPT !.address = a]
  <2>1. editing[p].name # NoName /\ a \in Addresses(editing[p].name) /\ Edit(p, form)
    BY <1>4 DEF EditAddress, Open
  <2>2. form \in FormTypes /\ OfOne(form)
    BY <1>0, <2>1, Blank DEF FormTypes, OfOne
  <2> HIDE DEF form
  <2> QED BY <2>1, <2>2, FormsMove
<1>5. ASSUME NEW id \in Networks, CheckNew(p, id) PROVE FillersInv'
  <2> DEFINE form == [adding[p] EXCEPT !.chains = toggleChain(@, id)]
  <2>1. /\ form \in FormTypes /\ form.name = adding[p].name
        /\ form.address = adding[p].address
    BY <1>0 DEF FormTypes, toggleChain
  <2>2. TypeNew(p, form)
    BY <1>5 DEF CheckNew
  <2> HIDE DEF form
  <2> QED BY <1>0, <2>1, <2>2, FormsMove DEF OfOne
<1>6. ASSUME NEW id \in Networks, CheckEdit(p, id) PROVE FillersInv'
  <2> DEFINE form == [editing[p] EXCEPT !.chains = toggleChain(@, id)]
  <2>1. /\ form \in FormTypes /\ form.name = editing[p].name
        /\ form.address = editing[p].address
    BY <1>0 DEF FormTypes, toggleChain
  <2>2. Edit(p, form)
    BY <1>6 DEF CheckEdit
  <2> HIDE DEF form
  <2> QED BY <1>0, <2>1, <2>2, FormsMove DEF OfOne
<1>7. ASSUME CancelEdit(p) PROVE FillersInv'
  <2> DEFINE form == [editing[p] EXCEPT !.name = NoName]
  <2>1. form \in FormTypes /\ form.name = NoName
    BY <1>0 DEF FormTypes
  <2>2. Edit(p, form)
    BY <1>7 DEF CancelEdit
  <2> HIDE DEF form
  <2> QED BY <2>1, <2>2, Blank, FormsMove DEF OfOne
<1> QED
  BY <1>1, <1>2, <1>3, <1>4, <1>5, <1>6, <1>7

(* The calls carry the forms they were made from.                          *)
LEMMA CallsMove ==
  ASSUME FillersInv, \A c \in calls' : c \in CallTypes,
         \A c \in calls' : (\E d \in calls : c.form = d.form)
                             \/ (c.form.name \in Names /\ OfOne(c.form)),
         UNCHANGED <<cc_fillers, authVars, tabVars, loads>>
  PROVE  FillersInv'
<1>1. FillersTypes'
  BY DEF FillersInv, FillersTypes, authVars, tabVars
<1>2. \A c \in calls' : c.form.name \in Names /\ OfOne(c.form)
  BY DEF FillersInv
<1> QED
  BY <1>1, <1>2 DEF FillersInv, ItsOwn, OfOne, tabVars

(* A call goes on.                                                         *)
LEMMA CallGoes ==
  ASSUME FillersInv, NEW c \in calls, NEW pc, GoesTo(c, pc),
         pc \in {"sent", "allowed", "unauthorized", "selected", "refused", "done"}
  PROVE  \A d \in calls' : d \in CallTypes /\ \E e \in calls : d.form = e.form
<1>1. \A d \in calls : d \in CallTypes
  BY DEF FillersInv, FillersTypes
<1>2. [c EXCEPT !.pc = pc] \in CallTypes /\ [c EXCEPT !.pc = pc].form = c.form
  BY <1>1 DEF CallTypes
<1>3. \A d \in calls' : d \in calls \/ d = [c EXCEPT !.pc = pc]
  BY DEF GoesTo
<1> QED
  BY <1>1, <1>2, <1>3

(* The calls are made, checked, refused and lost.                          *)
LEMMA CallsMade ==
  ASSUME FillersInv,
         \/ \E p \in Pages : addFiller(p) \/ saveEdit(p) \/ \E n \in Names : removeFiller(p, n)
         \/ \E c \in calls : requireAdmin(c) \/ Selects(c) \/ NotWritten(c) \/ CallFails(c)
  PROVE  FillersInv'
<1>0. /\ \A d \in calls : d \in CallTypes
      /\ token \in [Pages -> Nat] /\ adding \in [Pages -> FormTypes] /\ editing \in [Pages -> FormTypes]
  BY DEF FillersInv, FillersTypes
<1>1. ASSUME NEW p \in Pages, NEW kind \in {"add", "edit", "remove"}, NEW form \in FormTypes,
             form.name \in Names, OfOne(form), Call(p, kind, form)
      PROVE  FillersInv'
  <2> DEFINE call == [page |-> p, shown |-> TRUE, kind |-> kind, pc |-> "sent",
                      token |-> token[p], form |-> form]
  <2>1. call \in CallTypes /\ call.form = form
    BY <1>0 DEF CallTypes
  <2>2. \A c \in calls' : c \in calls \/ c = call
    BY <1>1 DEF Call
  <2>3. UNCHANGED <<cc_fillers, authVars, tabVars, loads>>
    BY <1>1 DEF Call
  <2> HIDE DEF call
  <2> QED BY <1>0, <1>1, <2>1, <2>2, <2>3, CallsMove
<1>2. ASSUME NEW p \in Pages, addFiller(p) PROVE FillersInv'
  <2>1. adding[p] \in FormTypes /\ adding[p].name \in Names /\ OfOne(adding[p])
    BY <1>0, <1>2 DEF addFiller, FormTypes, FillersInv
  <2> QED BY <1>1, <1>2, <2>1 DEF addFiller
<1>3. ASSUME NEW p \in Pages, saveEdit(p) PROVE FillersInv'
  <2>1. editing[p] \in FormTypes /\ editing[p].name \in Names /\ OfOne(editing[p])
    BY <1>0, <1>3 DEF saveEdit, Open, FormTypes, FillersInv
  <2> QED BY <1>1, <1>3, <2>1 DEF saveEdit
<1>4. ASSUME NEW p \in Pages, NEW n \in Names, removeFiller(p, n) PROVE FillersInv'
  <2> DEFINE form == [NoForm EXCEPT !.name = n]
  <2>1. form \in FormTypes /\ form.name = n /\ form.address = NotSet
    BY Blank DEF FormTypes
  <2>2. Call(p, "remove", form)
    BY <1>4 DEF removeFiller
  <2> HIDE DEF form
  <2> QED BY <1>1, <2>1, <2>2, Blank DEF OfOne
<1>5. ASSUME NEW c \in calls, requireAdmin(c) \/ Selects(c) \/ NotWritten(c) PROVE FillersInv'
  <2>1. PICK pc \in {"allowed", "unauthorized", "selected", "refused"} : GoesTo(c, pc)
    BY <1>5 DEF requireAdmin, Selects, NotWritten
  <2>2. \A d \in calls' : d \in CallTypes /\ \E e \in calls : d.form = e.form
    BY <2>1, CallGoes
  <2> QED BY <1>5, <2>2, CallsMove DEF requireAdmin, Selects, NotWritten
<1>6. ASSUME NEW c \in calls, CallFails(c) PROVE FillersInv'
  BY <1>0, <1>6, CallsMove DEF CallFails
<1> QED
  BY <1>2, <1>3, <1>4, <1>5, <1>6

(* What a call does, and what its answer does to the page; and a restart.  *)
LEMMA CallsEnd ==
  ASSUME FillersInv,
         \/ Restart
         \/ \E c \in calls : Writes(c) \/ Answered(c) \/ Unauthorized(c)
  PROVE  FillersInv'
<1>0. FillersTypes
  BY DEF FillersInv
<1>1. ASSUME Restart PROVE FillersInv'
  <2>1. /\ cc_fillers' \in [Names -> EntryTypes] /\ ItsOwn(cc_fillers')
    BY <1>0, <1>1, SeedsKeep DEF Restart, FillersInv, FillersTypes
  <2>2. calls' \subseteq calls
    BY <1>1 DEF Restart
  <2>3. \A l \in loads' : /\ l \in [page : Pages, read : BOOLEAN, rows : [Names -> EntryTypes]]
                          /\ ItsOwn(l.rows)
    <3> SUFFICES ASSUME NEW l \in loads'
                 PROVE  /\ l \in [page : Pages, read : BOOLEAN, rows : [Names -> EntryTypes]]
                        /\ ItsOwn(l.rows)
      OBVIOUS
    <3>1. PICK k \in loads : l = [k EXCEPT !.read = TRUE, !.rows = Nobody]
      BY <1>1 DEF Restart
    <3>2. k \in [page : Pages, read : BOOLEAN, rows : [Names -> EntryTypes]]
      BY <1>0 DEF FillersTypes
    <3> QED BY <3>1, <3>2, Blank
  <2>4. FillersTypes'
    BY <1>0, <1>1, <2>1, <2>2, <2>3 DEF Restart, tabVars, FillersTypes
  <2> QED
    BY <1>1, <2>1, <2>2, <2>3, <2>4 DEF Restart, tabVars, FillersInv, ItsOwn, OfOne
<1>2. ASSUME NEW c \in calls, Writes(c) PROVE FillersInv'
  <2>1. /\ c.form \in FormTypes /\ c.form.name \in Names
        /\ c.form.address \in Addresses(c.form.name)
    BY <1>0 DEF FillersInv, FillersTypes, CallTypes, OfOne
  <2>2. PICK row \in {Entry(c.form.address, c.form.chains), NoFiller} :
          cc_fillers' = [cc_fillers EXCEPT ![c.form.name] = row]
    BY <1>2 DEF Writes, Does, add, update, remove
  <2>3. row \in EntryTypes /\ row.address \in Addresses(c.form.name)
    <3>1. CASE row = NoFiller
      BY <2>1, <3>1, Blank DEF NoFiller
    <3>2. CASE row = Entry(c.form.address, c.form.chains)
      BY <2>1, <3>2 DEF Entry, EntryTypes, FormTypes
    <3> QED BY <3>1, <3>2
  <2>4. cc_fillers' \in [Names -> EntryTypes] /\ ItsOwn(cc_fillers')
    BY <1>0, <2>1, <2>2, <2>3 DEF FillersTypes, FillersInv, ItsOwn
  <2>5. \A d \in calls' : d \in CallTypes /\ \E e \in calls : d.form = e.form
    BY <1>2, CallGoes DEF Writes
  <2>6. FillersTypes'
    BY <1>0, <1>2, <2>4, <2>5 DEF Writes, authVars, tabVars, FillersTypes
  <2>7. \A d \in calls' : d.form.name \in Names /\ OfOne(d.form)
    BY <2>5 DEF FillersInv
  <2> QED
    BY <1>2, <2>4, <2>6, <2>7 DEF Writes, tabVars, FillersInv, ItsOwn, OfOne
<1>3. ASSUME NEW c \in calls, Answered(c) PROVE FillersInv'
  <2>1. c.page \in Pages
    BY <1>0 DEF FillersTypes, CallTypes
  <2>2. /\ adding' \in [Pages -> FormTypes]
        /\ \A p \in Pages : adding'[p] \in {adding[p], NoForm}
    BY <1>0, <1>3, Blank DEF Answered, FillersTypes
  <2>3. /\ editing' \in [Pages -> FormTypes]
        /\ \A p \in Pages : editing'[p] \in {editing[p], [editing[p] EXCEPT !.name = NoName]}
    <3>1. \A p \in Pages : [editing[p] EXCEPT !.name = NoName] \in FormTypes
      BY <1>0 DEF FillersTypes, FormTypes
    <3> QED BY <1>0, <1>3, <2>1, <3>1 DEF Answered, FillersTypes
  <2>4. calls' \subseteq calls /\ Load(c.page)
    BY <1>3 DEF Answered
  <2>5. FillersTypes' /\ \A l \in loads' : l \in loads \/ l.rows = Nobody
    BY <1>0, <1>3, <2>1, <2>2, <2>3, <2>4, LoadTypes DEF Answered, authVars, FillersTypes
  <2>6. \A p \in Pages : OfOne(editing'[p])
    <3> SUFFICES ASSUME NEW p \in Pages PROVE OfOne(editing'[p])
      OBVIOUS
    <3>1. editing[p] \in FormTypes
      BY <1>0 DEF FillersTypes
    <3>2. [editing[p] EXCEPT !.name = NoName].name = NoName
      BY <3>1 DEF FormTypes
    <3> QED BY <2>3, <3>2, Blank DEF OfOne, FillersInv
  <2>7. \A p \in Pages : OfOne(adding'[p]) /\ (adding'[p].name = NoName => adding'[p].address = NotSet)
    BY <2>2, Blank DEF FillersInv, OfOne
  <2>8. \A l \in loads' : ItsOwn(l.rows)
    BY <2>5, Blank DEF FillersInv
  <2> QED
    BY <1>3, <2>4, <2>5, <2>6, <2>7, <2>8 DEF Answered, FillersInv, ItsOwn, OfOne
<1>4. ASSUME NEW c \in calls, Unauthorized(c) PROVE FillersInv'
  <2>1. c.page \in Pages
    BY <1>0 DEF FillersTypes, CallTypes
  <2>2. token' \in [Pages -> Nat]
    BY <1>0, <1>4, <2>1 DEF Unauthorized, handleLogout, FillersTypes
  <2> QED BY <1>4, <2>1, <2>2, TabGoes DEF Unauthorized, handleLogout
<1> QED
  BY <1>1, <1>2, <1>3, <1>4

(* Addresses stay apart, for any number of pages, fillers, loads and calls.*)
THEOREM FillersInvariant ==
  FillersSpec => []FillersInv
<1>1. FillersInit => FillersInv
  <2> SUFFICES ASSUME FillersInit PROVE FillersInv
    OBVIOUS
  <2>1. PICK who \in SUBSET Names : cc_fillers = Seeded(Known(who))
    BY DEF FillersInit
  <2>2. \A n \in Names : (CHOOSE a \in Own[n] : TRUE) \in Own[n]
    BY FillersAssumption
  <2>3. \A n \in Names : /\ Entry(CHOOSE a \in Own[n] : TRUE, {}) \in EntryTypes
                         /\ Entry(CHOOSE a \in Own[n] : TRUE, {}).address \in Addresses(n)
    BY <2>2 DEF Entry, EntryTypes, AllAddresses, Addresses
  <2>4. Known(who) \in [Names -> EntryTypes] /\ ItsOwn(Known(who))
    <3>1. \A n \in Names : Known(who)[n] \in EntryTypes /\ Known(who)[n].address \in Addresses(n)
      BY <2>3, Blank DEF Known, NoFiller
    <3> QED BY <3>1 DEF Known, ItsOwn
  <2>5. cc_fillers \in [Names -> EntryTypes] /\ ItsOwn(cc_fillers)
    BY <2>1, <2>4, SeedsKeep
  <2>6. FillersTypes
    BY <2>5, Blank DEF FillersInit, FillersTypes
  <2> QED
    BY <2>5, <2>6, Blank DEF FillersInit, FillersInv, OfOne
<1>2. FillersInv /\ [FillersNext]_fillersVars => FillersInv'
  <2>1. CASE FillersNext
    BY <2>1, ListsMove, FormsFilled, CallsMade, CallsEnd, Zenon DEF FillersNext
  <2>2. CASE UNCHANGED fillersVars
    BY <2>2 DEF FillersInv, FillersTypes, ItsOwn, OfOne, fillersVars, authVars, tabVars
  <2> QED BY <2>1, <2>2
<1> QED
  BY <1>1, <1>2, PTL DEF FillersSpec

(* No step but an edit or a removal of it changes a registered filler: an  *)
(* add that found no such name finds the one that came meanwhile, a restart*)
(* seeds what is missing alone.                                            *)
THEOREM FillersChangeAsAsked ==
  FillersSpec => [][ChangesAsAsked]_fillersVars
<1>1. ASSUME FillersInv, FillersNext PROVE ChangesAsAsked
  <2>0. cc_fillers \in [Names -> EntryTypes]
    BY <1>1 DEF FillersInv, FillersTypes
  <2> SUFFICES ASSUME NEW n \in Names, cc_fillers[n].there, cc_fillers'[n] # cc_fillers[n]
               PROVE  \E c \in calls :
                        /\ c.form.name = n /\ c.pc = "allowed"
                        /\ \/ c.kind = "edit" /\ cc_fillers'[n] = Entry(c.form.address, c.form.chains)
                           \/ c.kind = "remove" /\ ~cc_fillers'[n].there
    BY DEF ChangesAsAsked
  <2>1. ~Restart
    BY <1>1, <2>0, SeedsKeep DEF Restart, FillersInv
  <2>2. PICK c \in calls : Writes(c)
    <3>0. cc_fillers' # cc_fillers
      OBVIOUS
    <3>1. ASSUME NEW p \in Pages, LogIn(p) \/ LogOut(p) \/ OpenTab(p) \/ LeaveTab(p) \/ Refresh(p)
          PROVE  FALSE
      BY <3>0, <3>1 DEF LogIn, LogOut, OpenTab, LeaveTab, Refresh
    <3>2. ASSUME NEW p \in Pages, NEW form, TypeNew(p, form) \/ Edit(p, form) PROVE FALSE
      BY <3>0, <3>2 DEF TypeNew, Edit
    <3>3. ASSUME NEW p \in Pages, NEW kind, NEW form, Call(p, kind, form) PROVE FALSE
      BY <3>0, <3>3 DEF Call
    <3>4. ASSUME NEW p \in Pages, addFiller(p) \/ saveEdit(p) \/ CancelEdit(p) PROVE FALSE
      BY <3>2, <3>3, <3>4, Zenon DEF addFiller, saveEdit, CancelEdit
    <3>5. ASSUME NEW p \in Pages, NEW m \in Names,
                 TypeName(p, m) \/ PressEdit(p, m) \/ removeFiller(p, m)
          PROVE  FALSE
      BY <3>2, <3>3, <3>5, Zenon DEF TypeName, PressEdit, removeFiller
    <3>6. ASSUME NEW p \in Pages, NEW a, TypeAddress(p, a) \/ EditAddress(p, a) PROVE FALSE
      BY <3>2, <3>6, Zenon DEF TypeAddress, EditAddress
    <3>7. ASSUME NEW p \in Pages, NEW id, CheckNew(p, id) \/ CheckEdit(p, id) PROVE FALSE
      BY <3>2, <3>7, Zenon DEF CheckNew, CheckEdit
    <3>8. ASSUME NEW t, Expires(t) PROVE FALSE
      BY <3>0, <3>8 DEF Expires
    <3>9. ASSUME NEW l, ListRead(l) \/ LoadEnds(l) PROVE FALSE
      BY <3>0, <3>9 DEF ListRead, LoadEnds
    <3>10. ASSUME NEW c \in calls, requireAdmin(c) \/ Selects(c) \/ NotWritten(c) \/ Answered(c)
                                     \/ Unauthorized(c) \/ CallFails(c)
           PROVE  FALSE
      BY <3>0, <3>10 DEF requireAdmin, Selects, NotWritten, Answered, Unauthorized, CallFails
    <3> QED
      BY <1>1, <2>1, <3>1, <3>4, <3>5, <3>6, <3>7, <3>8, <3>9, <3>10, Zenon DEF FillersNext
  <2>3. c.form.name = n
    BY <2>0, <2>2 DEF Writes, Does, add, update, remove
  <2>4. CASE c.kind = "edit" /\ c.pc = "allowed" /\ update(c)
    BY <2>0, <2>3, <2>4 DEF update
  <2>5. CASE c.kind = "remove" /\ c.pc = "allowed" /\ remove(c)
    BY <2>0, <2>3, <2>5 DEF remove, NoFiller
  <2> QED
    BY <2>2, <2>3, <2>4, <2>5 DEF Writes, Does, add
<1> QED
  BY <1>1, FillersInvariant, PTL DEF FillersSpec

(* The run's pages.                                                        *)
THEOREM NothingIsCarriedOver ==
  PagesSpec => []NothingCarriedOver
<1>1. PagesInit => IntentInit /\ SigningInit /\ FillersInit
  BY DEF PagesInit
<1>2. [PagesNext]_pagesVars =>
        [IntentNext]_intentVars /\ [SigningNext]_signingVars /\ [FillersNext]_fillersVars
  BY DEF PagesNext, pagesVars
<1>3. PagesSpec => IntentSpec /\ SigningSpec /\ FillersSpec
  BY <1>1, <1>2, PTL DEF PagesSpec, IntentSpec, SigningSpec, FillersSpec
<1>4. FillersInv => AddressIsItsOwn
  BY DEF FillersInv, ItsOwn, AddressIsItsOwn, Addresses, candidates
<1>5. IntentInv /\ SigningInv /\ FillersInv => NothingCarriedOver
  BY <1>4 DEF IntentInv, SigningInv, NothingCarriedOver
<1> QED
  BY <1>3, <1>5, IntentInvariant, SigningInvariant, FillersInvariant, PTL
=============================================================================
