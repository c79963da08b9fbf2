-------------------------- MODULE MCCrossChainRelay --------------------------
(* Instances of CrossChainRelay for TLC. *)
EXTENDS CrossChainRelay, TLC

CONSTANT h1

OneFill == {h1}

(* A fill's two source events and an empty block, its destination event.   *)
FewBlocks == [src |-> 3, dst |-> 1]

(* Without the empty one.                                                  *)
TwoBlocks == [src |-> 2, dst |-> 1]
=============================================================================
