\* Start-up, steady state and shutdown of the SPI stack, with every tested
\* call of red_stack_init and red_stack_init_spi allowed to fail.  Both
\* start-up outcomes and the daemon's stop end the behaviour: deadlock is
\* not checked.
CONSTANTS
    MaxSlaves = 2
    RoutingTries = 2
    Uid = {1, 2}
    EnumResponse <- MCLifeEnumResponse
    MaxPush = 2
    MaxRx = 1
    PipeWrites = {TRUE}
    Failing <- MCFailing
SPECIFICATION LifeFairSpec
INVARIANT InitTypeOK
INVARIANT CallbacksReleased
PROPERTY ThreadUsesLiveResources
CHECK_DEADLOCK FALSE
