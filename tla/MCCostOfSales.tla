---------------------------- MODULE MCCostOfSales ----------------------------
(***************************************************************************)
(* Instances of CostOfSales for TLC: up to two purchases, two sales and    *)
(* two credit notes of one good.                                           *)
(***************************************************************************)
EXTENDS CostOfSales, TLC

CONSTANTS p1, p2, s1, s2, n1, n2, codeA, codeB

\* Every purchase has its own code, as the README asks.
OwnCodes == p1 :> codeA @@ p2 :> codeB

\* Both purchases were recorded with the same purchase_code.
SharedCode == p1 :> codeA @@ p2 :> codeA

OneNote == n1 :> codeA
TwoNotes == n1 :> codeA @@ n2 :> codeA
OneNumber == n1 :> 1
SameNumber == n1 :> 1 @@ n2 :> 1

NoNote == <<>>

\* The first purchase carries an explicit order, which places it after the
\* second one on the same day.
Orders == p1 :> 1 @@ p2 :> 0 @@ s1 :> 0 @@ s2 :> 0
Instants == p1 :> 10 @@ p2 :> 20 @@ s1 :> 30 @@ s2 :> 40
==============================================================================
