------------------------ MODULE MCStorefrontSession ------------------------
(* Instances of StorefrontSession for TLC: two flows, of two tabs or of one. *)
EXTENDS StorefrontSession, TLC

CONSTANTS t1, t2, f1, f2

MCTwoTabs == f1 :> t1 @@ f2 :> t2
MCOneTab == f1 :> t1 @@ f2 :> t1

\* The two tabs, each with its flow, are alike.
SwapTabs == f1 :> f2 @@ f2 :> f1 @@ t1 :> t2 @@ t2 :> t1

Symmetry == Permutations(Tokens) \cup {SwapTabs}
=============================================================================
