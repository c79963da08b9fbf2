-------------------------------- MODULE Totals --------------------------------
(***************************************************************************)
(* Totals of natural numbers over a finite set, counted unit by unit: what *)
(* the sum of a table's column, of a mapping's values or of the escrows of *)
(* an order comes to.                                                      *)
(***************************************************************************)
EXTENDS Integers, FiniteSets

Units(f, S) == UNION {{x} \X (1..f[x]) : x \in S}
Total(f, S) == Cardinality(Units(f, S))
=============================================================================
