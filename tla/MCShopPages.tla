---------------------------- MODULE MCShopPages ----------------------------
(* Instances of ShopPages for TLC. *)
EXTENDS ShopPages, TLC

CONSTANT p1

MCRequests == Writes \cup {CartFetch} \cup Subscriptions
OneUnit == p1 :> 1
=============================================================================
