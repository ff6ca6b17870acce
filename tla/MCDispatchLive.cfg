CONSTANTS
    Id = {i1}
    Repo = {r1}
    PR = {p1}
    Branch = {b1}
    Label = {}
    Sha = {}
    Agent = {a1}
    NULL = NULL
    QueueLimit = 2
    Worker = {w1}
    LabelsOf <- NoLabels
    AgentLabels <- NoAgentLabels
    Dockerfile = {i1}
    MaxJobs = 1
    Idle = Idle
    NoSync = NoSync
    Hasty = FALSE
    MaxFaults = 1
    MaxOps = 1
SPECIFICATION FairSpec

PROPERTIES AssignedResolves OrphansTornDown LostPreviewsFail
CHECK_DEADLOCK FALSE
