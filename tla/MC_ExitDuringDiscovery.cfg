\* red_stack_exit during discovery does not join the SPI thread.
CONSTANTS
    MaxSlaves = 3
    RoutingTries = 2
    Uid = {1, 2, 3, 4}
    EnumResponse <- MCEnumResponse
    MaxPush = 3
    MaxRx = 2
    PipeWrites = {TRUE}
SPECIFICATION FairSpec
INVARIANT ExitStopsThread
CHECK_DEADLOCK FALSE
