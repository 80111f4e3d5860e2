---------------------------- MODULE MCInventory ----------------------------
(* Instances of Inventory for TLC. *)
EXTENDS Inventory, TLC

CONSTANTS p1, p2

MCStock == p1 :> 2 @@ p2 :> 1
MCRank == p1 :> 1 @@ p2 :> 2

\* One unit of p1 only, and one of each: two orders of both products cannot be met.
MCBaskets == {p1 :> 1 @@ p2 :> 0, p1 :> 1 @@ p2 :> 1}

\* For three calls on one order.
OneOfEach == {p1 :> 1 @@ p2 :> 1}

Symmetry == Permutations(Orders) \cup Permutations(Calls)
=============================================================================
