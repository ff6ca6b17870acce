SPECIFICATION Spec
CONSTANTS
    u1 = u1
    u2 = u2
    d1 = d1
    d2 = d2
    Preview = {p1, p2}
    Url = {u1}
    Dir = {d1}
    Branch = {b1}
    Commit = {c1, c2}
    UrlOf <- OneUrl
    DirOf <- OwnDir
    NULL = NULL
    MaxJobs = 2
    MaxPushes = 1
    MaxFaults = 0
INVARIANTS EnsureIdempotent
CHECK_DEADLOCK FALSE
