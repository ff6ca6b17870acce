CONSTANTS
    Id = {i1}
    Repo = {r1}
    PR = {p1}
    Branch = {b1}
    Label = {}
    Sha = {}
    Agent = {a1, a2}
    NULL = NULL
    QueueLimit = 2
    Worker = {w1, w2}
    LabelsOf <- NoLabels
    AgentLabels <- NoAgentLabels
    Dockerfile = {i1}
    MaxJobs = 1
    Idle = Idle
    NoSync = NoSync
    Hasty = TRUE
    MaxFaults = 1
    MaxOps = 0
SPECIFICATION Spec
SYMMETRY Symmetry
INVARIANTS  ClaimedOnce
PROPERTIES NotRequeuedUnderBuild ImplementsLifecycle
CHECK_DEADLOCK FALSE
