SPECIFICATION RequestSpec
CONSTANTS
    a = a
    b = b
    c = c
    Sku = {a, b, c}
    Reservation = {r1, r2}
    OrderRef = {o1}
    Request = {p1, p2}
    Basket <- MCBasket
    OnHand0 <- MCOnHand0
    MaxAttempts = 2
    TtlPolicy = FALSE
SYMMETRY Symmetry
PROPERTIES SettledOnce ImplementsBook ImplementsLedger
INVARIANTS TypeOK NoOversell EventsReconcile ReservedAccounted
