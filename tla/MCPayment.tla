----------------------------- MODULE MCPayment -----------------------------
(* An instance of Payment for TLC; its constants are model values of the cfg. *)
EXTENDS Payment
=============================================================================
