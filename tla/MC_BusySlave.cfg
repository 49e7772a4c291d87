\* A busy slave that reports "not busy" only in empty frames: its queued
\* request is never sent.
CONSTANTS
    MaxSlaves = 3
    RoutingTries = 2
    Uid = {1, 2, 3, 4}
    EnumResponse <- MCEnumResponse
    Frame <- MCBusyFrames
    MaxPush = 3
    MaxRx = 2
    PipeWrites = {TRUE}
SPECIFICATION BusySlaveSpec
PROPERTY QueuedRequestSent
CHECK_DEADLOCK FALSE
