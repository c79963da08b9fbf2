----------------------------- MODULE RemainingLib -----------------------------
(***************************************************************************)
(* contract/src/libs/RemainingLib.sol: the input an order has left, packed *)
(* into one word.  0 is an order nobody touched, the bitwise complement of *)
(* x an order with x left, so that the complement of 0 is a sold-out one.  *)
(***************************************************************************)
EXTENDS Integers

CONSTANT U256  \* 2^256, the modulus of the packed word

isNewOrder(r)    == r = 0
fullyFilled      == U256 - 1
pack(x)          == U256 - 1 - x
Unpack(r, total) == IF r = 0 THEN total ELSE U256 - 1 - r
=============================================================================
