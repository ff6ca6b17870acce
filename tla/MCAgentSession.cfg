CONSTANTS
    Conn = {c1, c2, c3}
    NoConn = NoConn
    MaxFaults = 6
SPECIFICATION FairSpec
INVARIANTS TypeOK OneSession ServingShownOnline OnlineHasSession EntryHasOwner
PROPERTIES EventuallyConnected
CHECK_DEADLOCK FALSE
