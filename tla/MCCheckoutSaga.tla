-------------------------- MODULE MCCheckoutSaga --------------------------
(* Instances of CheckoutSaga for TLC. *)
EXTENDS CheckoutSaga, TLC

CONSTANTS u1, o1, o2, c1, c2

\* One shopper makes every request of the model.
OneShopper == [r \in Requests |-> u1]

OneUnit == [p \in Products |-> 1]

Symmetry == Permutations(Checkouts) \cup Permutations(Cancels)
=============================================================================
