\* Extension detection and initialisation on both positions.  Detection ends
\* (done, failed or exited) and the daemon goes on: deadlock is not checked.
CONSTANTS
    NumExt = 2
    SlavesMax = 2
    Unset = Unset
SPECIFICATION Spec
INVARIANT ExtTypeOK ConfiguredFromEeprom
CHECK_DEADLOCK FALSE
