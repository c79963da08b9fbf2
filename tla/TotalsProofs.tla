----------------------------- MODULE TotalsProofs -----------------------------
(***************************************************************************)
(* How a total changes with the set it is taken over and with one value.   *)
(***************************************************************************)
EXTENDS Totals, FiniteSetTheorems, FunctionTheorems, TLAPS

Counted(f, S) == IsFiniteSet(S) /\ \A x \in S : f[x] \in Nat

(* An interval from 1 has as many elements as its bound says.              *)
LEMMA Counting ==
  ASSUME NEW n \in Nat
  PROVE  IsFiniteSet(1..n) /\ Cardinality(1..n) = n
<1>1. 1 \in Int /\ n \in Int
  OBVIOUS
<1>2. IsFiniteSet(1..n) /\ Cardinality(1..n) = IF 1 > n THEN 0 ELSE n - 1 + 1
  BY <1>1, FS_Interval, Zenon
<1> QED BY <1>2

(* An element of value n has n units.                                      *)
LEMMA SingleUnits ==
  ASSUME NEW x, NEW n \in Nat
  PROVE  /\ IsFiniteSet({x} \X (1..n))
         /\ Cardinality({x} \X (1..n)) = n
<1>1. IsFiniteSet({x}) /\ Cardinality({x}) = 1
  BY FS_Singleton, Zenon
<1>2. IsFiniteSet(1..n) /\ Cardinality(1..n) = n
  BY Counting, Zenon
<1>3. /\ IsFiniteSet({x} \X (1..n))
      /\ Cardinality({x} \X (1..n)) = Cardinality({x}) * Cardinality(1..n)
  BY <1>1, <1>2, FS_Product, Zenon
<1> QED BY <1>1, <1>2, <1>3

(* Sets without a common element add up.                                   *)
LEMMA DisjointUnion ==
  ASSUME NEW S, NEW T, IsFiniteSet(S), IsFiniteSet(T), S \cap T = {}
  PROVE  Cardinality(S \cup T) = Cardinality(S) + Cardinality(T)
<1>1. Cardinality(S \cup T) = Cardinality(S) + Cardinality(T) - Cardinality(S \cap T)
  BY FS_Union, Zenon
<1>2. Cardinality(S) \in Nat /\ Cardinality(T) \in Nat
  BY FS_CardinalityType, Zenon
<1>3. Cardinality(S \cap T) = 0
  BY FS_EmptySet, Zenon
<1> QED BY <1>1, <1>2, <1>3

LEMMA FinitePart ==
  ASSUME NEW S, NEW T, IsFiniteSet(S), T \subseteq S
  PROVE  IsFiniteSet(T)
BY FS_Subset

(* The units that a total counts are finitely many.                        *)
LEMMA UnitsFinite ==
  ASSUME NEW S, NEW f, Counted(f, S)
  PROVE  IsFiniteSet(Units(f, S))
<1> DEFINE P == {{x} \X (1..f[x]) : x \in S}
           g == [x \in S |-> {x} \X (1..f[x])]
<1>1. g \in Surjection(S, P)
  BY DEF Surjection
<1>2. IsFiniteSet(P)
  BY <1>1, FS_Surjection DEF Counted
<1>3. ASSUME NEW x \in S PROVE IsFiniteSet({x} \X (1..f[x]))
  BY SingleUnits DEF Counted
<1> HIDE DEF g
<1>4. \A T \in P : IsFiniteSet(T)
  BY <1>3
<1> HIDE DEF P
<1>5. IsFiniteSet(UNION P)
  BY <1>2, <1>4, FS_UNION
<1> QED BY <1>5 DEF P, Units

(* A total is a natural number.                                            *)
LEMMA TotalType ==
  ASSUME NEW S, NEW f, Counted(f, S)
  PROVE  Total(f, S) \in Nat
BY UnitsFinite, FS_CardinalityType DEF Total

(* The total over nothing.                                                 *)
LEMMA TotalEmpty ==
  ASSUME NEW f
  PROVE  Total(f, {}) = 0
<1>1. Units(f, {}) = {}
  BY DEF Units
<1> QED BY <1>1, FS_EmptySet DEF Total

(* Part of what can be counted can be counted.                             *)
LEMMA CountedSubset ==
  ASSUME NEW S, NEW T, T \subseteq S, NEW f, Counted(f, S)
  PROVE  Counted(f, T)
BY FS_Subset DEF Counted

(* One more element adds its value.                                        *)
LEMMA TotalAdd ==
  ASSUME NEW S, NEW f, NEW x, x \notin S, Counted(f, S), f[x] \in Nat
  PROVE  /\ Counted(f, S \cup {x})
         /\ Total(f, S \cup {x}) = Total(f, S) + f[x]
<1> DEFINE new == {x} \X (1..f[x])
<1>1. Units(f, S \cup {x}) = Units(f, S) \cup new
  BY DEF Units
<1>2. Units(f, S) \cap new = {}
  BY DEF Units
<1>3. IsFiniteSet(new) /\ Cardinality(new) = f[x]
  BY SingleUnits
<1>4. IsFiniteSet(Units(f, S))
  BY UnitsFinite
<1> HIDE DEF new
<1>5. Cardinality(Units(f, S) \cup new) = Cardinality(Units(f, S)) + f[x]
  BY <1>2, <1>3, <1>4, DisjointUnion
<1> QED BY <1>1, <1>5, FS_AddElement DEF Total, Counted

(* What x contributes to the total over S.                                 *)
Contributes(f, S, x) == /\ Counted(f, S \ {x})
                        /\ Total(f, S) = Total(f, S \ {x}) + f[x]

(* One element less takes its value away.                                  *)
LEMMA TotalRemove ==
  ASSUME NEW S, NEW f, NEW x, x \in S, Counted(f, S)
  PROVE  Contributes(f, S, x)
<1>1. Counted(f, S \ {x})
  BY CountedSubset
<1>2. (S \ {x}) \cup {x} = S /\ f[x] \in Nat
  BY DEF Counted
<1>3. Total(f, (S \ {x}) \cup {x}) = Total(f, S \ {x}) + f[x]
  BY <1>1, <1>2, TotalAdd
<1> QED BY <1>1, <1>2, <1>3, Zenon DEF Contributes

(* Functions that agree on a set have the same total.                      *)
LEMMA TotalSame ==
  ASSUME NEW S, NEW f, NEW g, \A x \in S : f[x] = g[x]
  PROVE  Total(f, S) = Total(g, S)
<1>1. Units(f, S) = Units(g, S)
  BY DEF Units
<1> QED BY <1>1 DEF Total

(* When one value changes, the total changes by as much.                   *)
LEMMA TotalChange ==
  ASSUME NEW S, NEW f, NEW g, NEW x, x \in S, Counted(f, S), g[x] \in Nat,
         \A y \in S \ {x} : g[y] = f[y]
  PROVE  /\ Counted(g, S)
         /\ Total(g, S) = Total(f, S) - f[x] + g[x]
<1>1. Counted(g, S)
  BY DEF Counted
<1>2. Counted(f, S \ {x}) /\ Total(f, S) = Total(f, S \ {x}) + f[x]
  <2>1. Contributes(f, S, x)
    BY TotalRemove, Zenon
  <2> QED BY <2>1, Zenon DEF Contributes
<1>3. Total(g, S) = Total(g, S \ {x}) + g[x]
  <2>1. Contributes(g, S, x)
    BY <1>1, TotalRemove, Zenon
  <2> QED BY <2>1, Zenon DEF Contributes
<1>4. Total(g, S \ {x}) = Total(f, S \ {x})
  BY TotalSame
<1>5. Total(f, S \ {x}) \in Nat /\ f[x] \in Nat
  BY <1>2, TotalType DEF Counted
<1> QED BY <1>1, <1>2, <1>3, <1>4, <1>5

(* A total is at least that of a part.                                     *)
LEMMA TotalPart ==
  ASSUME NEW S, NEW T, T \subseteq S, NEW f, Counted(f, S)
  PROVE  Total(f, T) <= Total(f, S)
<1>1. Units(f, T) \subseteq Units(f, S)
  BY DEF Units
<1> QED BY <1>1, UnitsFinite, FS_Subset DEF Total

(* A total of larger values is at least as large.                          *)
LEMMA TotalMonotone ==
  ASSUME NEW S, NEW f, NEW g, Counted(g, S), \A x \in S : f[x] \in Nat /\ f[x] <= g[x]
  PROVE  Counted(f, S) /\ Total(f, S) <= Total(g, S)
<1>1. Counted(f, S)
  BY DEF Counted
<1>2. \A x \in S : 1..f[x] \subseteq 1..g[x]
  <2> TAKE x \in S
  <2>1. f[x] \in Nat /\ g[x] \in Nat /\ f[x] <= g[x]
    BY DEF Counted
  <2> QED BY <2>1
<1>3. ASSUME NEW u \in Units(f, S)
      PROVE  u \in Units(g, S)
  <2>1. PICK x \in S : u \in {x} \X (1..f[x])
    BY DEF Units
  <2>2. u \in {x} \X (1..g[x])
    BY <1>2, <2>1
  <2> QED BY <2>2 DEF Units
<1> QED BY <1>1, <1>3, UnitsFinite, FS_Subset DEF Total

(* A value never exceeds the total it is part of.                          *)
LEMMA TotalMember ==
  ASSUME NEW S, NEW x, x \in S, NEW f, Counted(f, S)
  PROVE  f[x] <= Total(f, S)
<1>1. Total(f, S) = Total(f, S \ {x}) + f[x] /\ Counted(f, S \ {x})
  BY TotalRemove DEF Contributes
<1>2. Total(f, S \ {x}) \in Nat /\ f[x] \in Nat
  BY <1>1, TotalType DEF Counted
<1> QED BY <1>1, <1>2

(* Nothing adds up to nothing.                                             *)
LEMMA TotalZero ==
  ASSUME NEW S, NEW f, \A x \in S : f[x] = 0
  PROVE  Total(f, S) = 0
<1>1. Units(f, S) = {}
  BY DEF Units
<1> QED BY <1>1, FS_EmptySet DEF Total

(* What maps one to one into a set, values kept, totals at most as much.   *)
LEMMA TotalInto ==
  ASSUME NEW S, NEW T, NEW f, NEW g, Counted(g, T), NEW h \in [S -> T],
         \A x \in S : f[x] = g[h[x]],
         \A x, y \in S : h[x] = h[y] => x = y
  PROVE  Counted(f, S) /\ Total(f, S) <= Total(g, T)
<1>1. Counted(f, S)
  <2>1. h \in Injection(S, T)
    BY DEF Injection, IsInjective
  <2> QED BY <2>1, FS_Injection DEF Counted
<1> DEFINE k == [u \in Units(f, S) |-> <<h[u[1]], u[2]>>]
<1>2. ASSUME NEW u \in Units(f, S)
      PROVE  u[1] \in S /\ u[2] \in 1..f[u[1]] /\ u = <<u[1], u[2]>>
  BY DEF Units
<1>3. ASSUME NEW u \in Units(f, S)
      PROVE  <<h[u[1]], u[2]>> \in Units(g, T)
  <2>1. h[u[1]] \in T /\ u[2] \in 1..g[h[u[1]]]
    BY <1>2
  <2> QED BY <2>1 DEF Units
<1>4. k \in [Units(f, S) -> Units(g, T)]
  BY <1>3
<1>5. ASSUME NEW u \in Units(f, S), NEW v \in Units(f, S), k[u] = k[v]
      PROVE  u = v
  <2>1. h[u[1]] = h[v[1]] /\ u[2] = v[2]
    BY <1>5
  <2> QED BY <1>2, <2>1
<1>6. k \in Injection(Units(f, S), Units(g, T))
  <2> HIDE DEF k
  <2> QED BY <1>4, <1>5 DEF Injection, IsInjective
<1>7. IsFiniteSet(Units(g, T))
  BY UnitsFinite
<1> QED BY <1>1, <1>6, <1>7, FS_Injection DEF Total
=============================================================================
