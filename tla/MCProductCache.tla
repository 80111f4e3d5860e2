--------------------------- MODULE MCProductCache ---------------------------
(* Instances of ProductCache for TLC. *)
EXTENDS ProductCache, TLC

CONSTANTS l1

\* The second page, of one row, of a list of every product sorted by a price they share:
\* it is empty at first, and then either product may be on it.
MCMatching == l1 :> Products
MCSortKey == l1 :> [p \in Products |-> 1]
MCOffset == l1 :> 1
MCPageSize == l1 :> 1
=============================================================================
