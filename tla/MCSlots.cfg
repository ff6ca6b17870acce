CONSTANTS
    MaxJobs = 2
    MaxGiven = 5
    QueueEmpties = TRUE
    MaxSetbacks = 3
SPECIFICATION SlotsSpec
INVARIANTS SlotsTypeOK SlotsAccounted
CHECK_DEADLOCK FALSE
