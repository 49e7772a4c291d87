\* UIDs are registered with the stack index before slave_num is published.
CONSTANTS
    MaxSlaves = 3
    RoutingTries = 2
    Uid = {1, 2, 3, 4}
    EnumResponse <- MCEnumResponse
    MaxPush = 3
    MaxRx = 2
    PipeWrites = {TRUE}
SPECIFICATION FairSpec
INVARIANT RoutingComplete
CHECK_DEADLOCK FALSE
