--------------------------- MODULE MCStockLedger ---------------------------
(* Instances of StockLedger for TLC. *)
EXTENDS StockLedger, TLC

CONSTANTS p1, p2, o1, o2, o3

\* Two units of p1, one of p2: orders compete for both.
MCStock == p1 :> 2 @@ p2 :> 1

\* One unit of each, and both units of p1.
MCBaskets == {p1 :> 1 @@ p2 :> 1, p1 :> 2 @@ p2 :> 0}
=============================================================================
