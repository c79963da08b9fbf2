------------------------------ MODULE MCOrderBook ------------------------------
(* Instances of OrderBook for TLC: one order of two chunks.                 *)
EXTENDS OrderBook, TLC

CONSTANTS o1, c1, c2

OneOrder     == {o1}
TwoCallbacks == {c1, c2}
TwoChunks    == [o \in Orders |-> 2]
OneCallback  == {c1}
BookDeadline == [o \in Orders |-> 2]

CallbackSymmetry == Permutations(Callbacks)
=============================================================================
