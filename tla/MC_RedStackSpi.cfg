\* Steady state and shutdown of the SPI stack: discovery, polling loop,
\* hand-off and queue.  The daemon stops after red_stack_exit, so the final
\* state has no successor: deadlock is not checked.
CONSTANTS
    MaxSlaves = 3
    RoutingTries = 2
    Uid = {1, 2, 3, 4}
    EnumResponse <- MCEnumResponse
    MaxPush = 3
    MaxRx = 2
    PipeWrites = {TRUE}
SPECIFICATION FairSpec
INVARIANT TypeOK
INVARIANT StackPrefix
INVARIANT RoutingTableExact
INVARIANT HandOff
INVARIANT SentInOrder
PROPERTY EngineReleased
CHECK_DEADLOCK FALSE
