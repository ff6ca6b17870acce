SPECIFICATION Spec
CONSTANTS
    Id = {d1, c1}
    Compose = {c1}
    Goroutine = {g1, g2, g3}
    NoTask = NoTask
    NoJob = NoJob
    Overlap = FALSE
    MaxCid = 3
    MaxFaults = 2
SYMMETRY Symmetry
INVARIANTS TypeOK HelloComplete 
