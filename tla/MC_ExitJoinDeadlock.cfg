\* red_stack_exit joins a thread that waits for the event thread.
CONSTANTS
    MaxSlaves = 3
    RoutingTries = 2
    Uid = {1, 2, 3, 4}
    EnumResponse <- MCEnumResponse
    MaxPush = 3
    MaxRx = 2
    PipeWrites = {TRUE}
SPECIFICATION FairSpec
PROPERTY ShutdownCompletes
CHECK_DEADLOCK FALSE
