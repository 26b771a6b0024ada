---------------------------- MODULE SumTheorems -----------------------------
(***************************************************************************)
(* Facts about Sums: a sum of numbers over a finite set is a number, and   *)
(* it changes by as much as one of its terms does.                         *)
(***************************************************************************)
EXTENDS Sums, FiniteSetTheorems, FunctionTheorems, TLAPS

(* The units of one member.                                                *)
LEMMA UnitsOfOne ==
    ASSUME NEW x, NEW k \in Nat
    PROVE  IsFiniteSet({x} \X (1 .. k)) /\ Cardinality({x} \X (1 .. k)) = k
<1>1. IsFiniteSet({x}) /\ Cardinality({x}) = 1
  BY FS_Singleton
<1>2. IsFiniteSet(1 .. k) /\ Cardinality(1 .. k) = k
  BY FS_Interval
<1>3. /\ IsFiniteSet({x} \X (1 .. k))
      /\ Cardinality({x} \X (1 .. k)) = Cardinality({x}) * Cardinality(1 .. k)
  BY <1>1, <1>2, FS_Product
<1> QED BY <1>1, <1>2, <1>3

(* A finite set has finitely many units.                                   *)
LEMMA SumNat ==
    ASSUME NEW S, IsFiniteSet(S), NEW n, \A x \in S : n[x] \in Nat
    PROVE  IsFiniteSet(UnitsOf(n, S)) /\ SumOver(n, S) \in Nat
<1> DEFINE T == {{x} \X (1 .. n[x]) : x \in S}
           g == [x \in S |-> {x} \X (1 .. n[x])]
<1>1. g \in Surjection(S, T)
  BY DEF Surjection
<1>2. IsFiniteSet(T)
  <2> HIDE DEF g, T
  <2> QED BY <1>1, FS_Surjection
<1>3. \A t \in T : IsFiniteSet(t)
  <2>1. \A x \in S : IsFiniteSet({x} \X (1 .. n[x]))
    <3> SUFFICES ASSUME NEW x \in S PROVE IsFiniteSet({x} \X (1 .. n[x]))
      OBVIOUS
    <3> DEFINE k == n[x]
    <3>1. k \in Nat
      OBVIOUS
    <3> HIDE DEF k
    <3>2. IsFiniteSet({x} \X (1 .. k))
      BY <3>1, UnitsOfOne
    <3> QED BY <3>2 DEF k
  <2> QED BY <2>1
<1>4. IsFiniteSet(UNION T)
  <2> HIDE DEF T
  <2> QED BY <1>2, <1>3, FS_UNION
<1> QED BY <1>4, FS_CardinalityType DEF UnitsOf, SumOver

(* A member's units are not those of the others.                           *)
LEMMA SumSplit ==
    ASSUME NEW S, IsFiniteSet(S), NEW n \in [S -> Nat], NEW x \in S
    PROVE  SumOver(n, S) = SumOver(n, S \ {x}) + n[x] /\ SumOver(n, S \ {x}) \in Nat
<1> DEFINE R == S \ {x}
           A == UnitsOf(n, R)
           B == {x} \X (1 .. n[x])
<1>1. IsFiniteSet(A) /\ SumOver(n, R) \in Nat
  <2>1. IsFiniteSet(R) /\ \A y \in R : n[y] \in Nat
    BY FS_RemoveElement
  <2> HIDE DEF R
  <2> QED BY <2>1, SumNat
<1>2. IsFiniteSet(B) /\ Cardinality(B) = n[x]
  BY UnitsOfOne
<1>3. UnitsOf(n, S) = A \cup B
  BY DEF UnitsOf
<1>4. A \cap B = {}
  BY DEF UnitsOf
<1>5. Cardinality(A \cup B) = Cardinality(A) + Cardinality(B) - Cardinality(A \cap B)
  <2> HIDE DEF A, B
  <2> QED BY <1>1, <1>2, FS_Union
<1>6. Cardinality(A \cap B) = 0
  BY <1>4, FS_EmptySet
<1> HIDE DEF B
<1> QED BY <1>1, <1>2, <1>3, <1>5, <1>6 DEF SumOver

(* Only the members' numbers count.                                        *)
LEMMA SumSame ==
    ASSUME NEW S, NEW n, NEW m, \A x \in S : n[x] = m[x]
    PROVE  SumOver(n, S) = SumOver(m, S)
BY DEF SumOver, UnitsOf

(* One number changes: the total changes by as much.                       *)
LEMMA SumChange ==
    ASSUME NEW S, IsFiniteSet(S), NEW n \in [S -> Nat], NEW m \in [S -> Nat], NEW x \in S,
           \A y \in S \ {x} : n[y] = m[y]
    PROVE  SumOver(m, S) + n[x] = SumOver(n, S) + m[x]
<1>1. SumOver(n, S) = SumOver(n, S \ {x}) + n[x] /\ SumOver(n, S \ {x}) \in Nat
  BY SumSplit
<1>2. SumOver(m, S) = SumOver(m, S \ {x}) + m[x] /\ SumOver(m, S \ {x}) \in Nat
  BY SumSplit
<1>3. SumOver(n, S \ {x}) = SumOver(m, S \ {x})
  <2> DEFINE R == S \ {x}
  <2>1. \A y \in R : n[y] = m[y]
    OBVIOUS
  <2> HIDE DEF R
  <2>2. SumOver(n, R) = SumOver(m, R)
    BY <2>1, SumSame
  <2> QED BY <2>2 DEF R
<1>4. n[x] \in Nat /\ m[x] \in Nat
  OBVIOUS
<1> QED BY <1>1, <1>2, <1>3, <1>4

(* No units.                                                               *)
LEMMA SumNone ==
    ASSUME NEW S, NEW n, \A x \in S : n[x] = 0
    PROVE  SumOver(n, S) = 0
<1>1. UnitsOf(n, S) = {}
  <2>1. \A x \in S : 1 .. n[x] = {}
    OBVIOUS
  <2> QED BY <2>1 DEF UnitsOf
<1> QED BY <1>1, FS_EmptySet DEF SumOver

(* The same numbers elsewhere have the same sum.                           *)
LEMMA SumShift ==
    ASSUME NEW S, IsFiniteSet(S), NEW T, NEW b \in Bijection(S, T), NEW n, NEW m,
           \A x \in S : n[x] \in Nat, \A x \in S : n[x] = m[b[x]]
    PROVE  SumOver(n, S) = SumOver(m, T)
<1> DEFINE U == UnitsOf(n, S)
           V == UnitsOf(m, T)
           F == [u \in U |-> <<b[u[1]], u[2]>>]
<1>1. /\ b \in [S -> T] /\ \A x, y \in S : b[x] = b[y] => x = y
      /\ \A y \in T : \E x \in S : b[x] = y
  BY Fun_BijectionProperties
<1>2. \A u : u \in U <=> \E x \in S : \E i \in 1 .. n[x] : u = <<x, i>>
  BY DEF UnitsOf
<1>3. \A v : v \in V <=> \E y \in T : \E i \in 1 .. m[y] : v = <<y, i>>
  BY DEF UnitsOf
<1> HIDE DEF U, V
<1>4. F \in [U -> V]
  <2> SUFFICES ASSUME NEW u \in U PROVE <<b[u[1]], u[2]>> \in V
    OBVIOUS
  <2>1. PICK x \in S : \E i \in 1 .. n[x] : u = <<x, i>>
    BY <1>2
  <2>2. PICK i \in 1 .. n[x] : u = <<x, i>>
    BY <2>1
  <2>3. b[x] \in T /\ i \in 1 .. m[b[x]]
    BY <1>1
  <2>4. <<b[x], i>> \in V
    BY <1>3, <2>3
  <2> QED BY <2>2, <2>4
<1>5. ASSUME NEW u \in U, NEW w \in U, F[u] = F[w] PROVE u = w
  <2>1. PICK x \in S : \E i \in 1 .. n[x] : u = <<x, i>>
    BY <1>2
  <2>2. PICK i \in 1 .. n[x] : u = <<x, i>>
    BY <2>1
  <2>3. PICK y \in S : \E i_1 \in 1 .. n[y] : w = <<y, i_1>>
    BY <1>2
  <2>4. PICK j \in 1 .. n[y] : w = <<y, j>>
    BY <2>3
  <2>5. F[u] = <<b[x], i>> /\ F[w] = <<b[y], j>>
    BY <2>2, <2>4
  <2>6. b[x] = b[y] /\ i = j
    BY <1>5, <2>5
  <2> QED BY <1>1, <2>2, <2>4, <2>6
<1>6. ASSUME NEW v \in V PROVE \E u \in U : F[u] = v
  <2>1. PICK y \in T : \E i \in 1 .. m[y] : v = <<y, i>>
    BY <1>3
  <2>2. PICK i \in 1 .. m[y] : v = <<y, i>>
    BY <2>1
  <2>3. PICK x \in S : b[x] = y
    BY <1>1
  <2>4. i \in 1 .. n[x]
    BY <2>3
  <2>5. <<x, i>> \in U
    BY <1>2, <2>4
  <2>6. F[<<x, i>>] = v
    BY <2>2, <2>3, <2>5
  <2> QED BY <2>5, <2>6
<1>7. F \in Bijection(U, V)
  <2> HIDE DEF F
  <2> QED BY <1>4, <1>5, <1>6, Fun_IsBij
<1>8. IsFiniteSet(U)
  BY SumNat DEF U
<1>9. Cardinality(V) = Cardinality(U)
  <2>1. ExistsBijection(U, V)
    BY <1>7 DEF ExistsBijection
  <2> QED BY <1>8, <2>1, FS_Bijection
<1> QED BY <1>9 DEF U, V, SumOver
=============================================================================
