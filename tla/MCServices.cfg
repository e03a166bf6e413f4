SPECIFICATION Spec
CONSTANTS
    JobCall = {c1, c2}
    JobKey = {k1}
    Worker = {w1}
    MaxJobFaults = 2
    RevOrder = {o1}
    RevCreate = {r1, r2}
    RevStaff = {s1, s2, s3}
    ProfCall = {p1, p2}
    ProfName = {n1}
    FirebaseName = f1
    MaxVersion = 4
    Caller = {a1, a2, a3}
    Closer = {z1}
    ReadyCall = {q1}
    ProbeTimeout <- MCProbeTimeout
    ReadyTimeout = 3
    Sku = {1, 2, 3}
    Reservation = {b1, b2}
    OrderRef = {o1}
    Basket <- MCBasket
    OnHand0 <- MCOnHand0
    TtlPolicy = FALSE
    SafetyStock <- MCSafetyStock
    Thresholds = {0, 2}
    PageSizes = {0, 3}
    DefaultPage = 1
    MaxPage = 2
\* The theorems about what must happen suppose []JobsEnabled and []ProviderEnabled, which
\* hold here too:
\* INVARIANTS JobsEnabled ProviderEnabled
INVARIANTS ServicesTypeOK OneJobPerKey OneReviewPerOrder RepliesOnApproved AuditTrail ClientsAccounted
    ReadyTells WalkFaithful
PROPERTIES JobsEnd ChangesSurvive CallersReturn
CHECK_DEADLOCK FALSE
