\* the phased rollback of red_stack_init does not undo exactly what was acquired.
CONSTANTS
    MaxSlaves = 2
    RoutingTries = 2
    Uid = {1, 2}
    EnumResponse <- MCLifeEnumResponse
    MaxPush = 2
    MaxRx = 1
    PipeWrites = {TRUE}
    Failing <- MCFailing
SPECIFICATION LifeSpec
PROPERTY RollbackExact
CHECK_DEADLOCK FALSE
