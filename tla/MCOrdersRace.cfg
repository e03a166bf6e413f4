SPECIFICATION Spec
CONSTANTS
    a = a
    Sku = {a}
    Reservation = {r1}
    OrderRef = {o1}
    OrderId = {o1}
    Request = {p1, p2}
    Target = {"paid", "canceled"}
    Event = {}
    Basket <- MCBasket
    OnHand0 <- MCOnHand0
    TtlPolicy = FALSE
    Units = {TRUE}
SYMMETRY Symmetry
CHECK_DEADLOCK FALSE
PROPERTY OnlyForward
