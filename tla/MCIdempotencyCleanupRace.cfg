SPECIFICATION Spec
CONSTANTS
    Header = {h1}
    Identity = {u1}
    Known = {}
    Content = {f1, f2}
    Request = {p1, p2}
    Body = {v1, v2}
    Stores = {"firestore"}
    Cleanup = TRUE
    BatchSize = 1
    Failures = {}
SYMMETRY Symmetry
INVARIANT CleanupSparesLive
