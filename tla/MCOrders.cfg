SPECIFICATION Spec
CONSTANTS
    a = a
    Sku = {a}
    Reservation = {r1}
    OrderRef = {o1, o2}
    OrderId = {o1, o2}
    Request = {p1, p2}
    Target = {"paid", "in_production", "delivered", "canceled"}
    Event = {"in_transit"}
    Basket <- MCBasket
    OnHand0 <- MCOnHand0
    TtlPolicy = FALSE
    Units = {TRUE, FALSE}
SYMMETRY Symmetry
CHECK_DEADLOCK FALSE
INVARIANTS TypeOK OwnReservation StampsAgree EventsBacked
PROPERTY ForwardUnlessOvertaken
