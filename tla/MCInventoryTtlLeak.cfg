SPECIFICATION Spec
CONSTANTS
    a = a
    b = b
    c = c
    Sku = {a}
    Reservation = {r1, r2}
    OrderRef = {o1, o2}
    Request = {p1, p2}
    Basket <- TtlBasket
    OnHand0 <- TtlOnHand0
    MaxAttempts = 2
    TtlPolicy = TRUE
SYMMETRY Symmetry
INVARIANT ReservedAccounted
