\* pipe_write may fail: the polling loop then waits on the semaphore forever.
CONSTANTS
    MaxSlaves = 3
    RoutingTries = 2
    Uid = {1, 2, 3, 4}
    EnumResponse <- MCEnumResponse
    MaxPush = 3
    MaxRx = 2
    PipeWrites = {TRUE, FALSE}
SPECIFICATION FairSpec
PROPERTY EngineReleased
CHECK_DEADLOCK FALSE
