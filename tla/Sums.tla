-------------------------------- MODULE Sums --------------------------------
(***************************************************************************)
(* Sums over finite sets: what a byte counter or a byte budget ought to    *)
(* be.  A sum of numbers is how many units there are, each unit a member   *)
(* with its place among that member's units; so a change of one member     *)
(* changes only that member's units, which is what the proofs use.         *)
(***************************************************************************)
EXTENDS Naturals, FiniteSets

(* The units of the members of S, of which x has n[x].                     *)
UnitsOf(n, S) == UNION {{x} \X (1 .. n[x]) : x \in S}

(* The sum of n[x] over the members x of S.                                *)
SumOver(n, S) == Cardinality(UnitsOf(n, S))
=============================================================================
