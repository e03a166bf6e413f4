------------------------------ MODULE MCOrders -------------------------------
(* One SKU with two pieces; a reservation takes one.                       *)
EXTENDS Orders, TLC

CONSTANT a          \* the SKU

MCOnHand0 == a :> 2
MCBasket == {a :> 1}

Symmetry == Permutations(Request) \cup Permutations(Reservation) \cup Permutations(OrderId)

=============================================================================
