SPECIFICATION Spec
CONSTANTS
    Header = {h1, h2}
    Identity = {u1}
    Known = {}
    Content = {f1, f2}
    Request = {p1, p2}
    Body = {v1, v2}
    Stores = {"memory", "firestore"}
    Cleanup = TRUE
    BatchSize = 1
    Failures = {"lost_reply", "store_error", "panic"}
SYMMETRY Symmetry
INVARIANTS TypeOK Exclusive ReplayFaithful AnswersOwnRequest
PROPERTIES NoRerun ExpiredNotReplayed
