SPECIFICATION Spec
CONSTANTS
    Header = {h1}
    Identity = {u1, u2}
    Known = {}
    Content = {f1}
    Request = {p1, p2}
    Body = {v1}
    Stores = {"memory", "firestore"}
    Cleanup = FALSE
    BatchSize = 1
    Failures = {}
SYMMETRY Symmetry
INVARIANT PerUser
