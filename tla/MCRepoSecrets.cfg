SPECIFICATION Spec
CONSTANTS
    lower = lower
    mixed = mixed
    Name = {lower, mixed}
    normRepo <- LowerCase
    Key = {1, 2}
    Value = {v1, v2}
    Form = {f1, f2}
    Build = {j1}
    NULL = NULL
    MaxSaves = 3
    MaxJobs = 1
SYMMETRY Symmetry
INVARIANTS TypeOK SavedAsPosted KeyByKey
CHECK_DEADLOCK FALSE
