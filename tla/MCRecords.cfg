SPECIFICATION RecordsSpec
CONSTANTS
    a = a
    b = b
    c = c
    Sku = {a}
    Reservation = {r1, r2}
    OrderRef = {o1, o2}
    Request = {p1, p2}
    Basket <- TtlBasket
    OnHand0 <- TtlOnHand0
    MaxAttempts = 2
    TtlPolicy = TRUE
    KeyCall = {c1}
    Kid = {k1, k2}
    Validity = {1, 2}
    FetchTimeout = 1
    MaxClock = 4
    Watcher = {w1, w2}
    Notifier = {n1}
    MaxGeneration = 2
    PriceCall = {p1, p2}
    Carts <- MCCarts
    Region = {r1}
    Fees <- MCFees
    TaxAmounts = {0, 5}
    MaxInt = 127
    QuoteTTL = 1
    MaxPriceTime = 2
    Editor = {e1, e2}
    Language = {"ja", "en"}
    DefaultLanguage = "ja"
    Asked = {"en"}
    MaxEdits = 3
    MaxSecond = 2
SYMMETRY RecordsSymmetry
INVARIANTS ClaimsCanSettle CachesTypeOK NotifyAll PricesSound NotModifiedFaithful
PROPERTIES AnswersJustified FreshAfterNotice
CHECK_DEADLOCK FALSE
