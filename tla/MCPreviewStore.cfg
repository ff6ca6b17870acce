CONSTANTS
    i1 = i1  i2 = i2
    a1 = a1  a2 = a2
    s1 = s1  s2 = s2
    Id = {i1, i2}
    Repo = {r1}
    PR = {p1}
    Branch = {b1}
    Label = {}
    Sha = {s1, s2}
    Agent = {a1}
    NULL = NULL
    QueueLimit = 2
    MaxEvents = 3
SPECIFICATION Spec
SYMMETRY Symmetry
INVARIANTS TypeOK EventsTellHistory ShaIdentifies AgentsReferenced UrlsOnlyWhileRunning
PROPERTIES ShaWrittenOnce ImplementsLifecycle
