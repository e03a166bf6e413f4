----------------------------- MODULE MCInventory -----------------------------
(* A warehouse with two stocked SKUs and one without a stock document.     *)
EXTENDS Inventory, TLC

CONSTANTS a, b, c       \* the SKUs; c has no stock document

MCOnHand0 == (a :> 3) @@ (b :> 1)
MCBasket == {a :> 2, (a :> 1) @@ (b :> 1), c :> 1}

\* The bounds of the runs with the TTL policy.
TtlOnHand0 == a :> 1
TtlBasket == {a :> 1}

Symmetry == Permutations(Reservation) \cup Permutations(Request)

=============================================================================
