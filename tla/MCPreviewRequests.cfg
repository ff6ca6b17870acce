SPECIFICATION Spec
CONSTANTS
    Id = {i1, i2, i3, i4}
    Repo = {r}
    PR = {none, p1, p2}
    NoPR = none
    Branch = {b}
    Label = {}
    Sha = {s1, s2, s3}
    Agent = {a}
    NULL = NULL
    Idle = Idle
    Worker = {w}
    QueueLimit = 50
    Reuses = FALSE
    MaxEvents = 5
SYMMETRY Symmetry
INVARIANTS  ClosedTornDown HeadTracked 
PROPERTIES ImplementsLifecycle
CHECK_DEADLOCK FALSE
