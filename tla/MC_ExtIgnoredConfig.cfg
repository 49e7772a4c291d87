\* A configuration that failed to read is passed to the extension's init.
CONSTANTS
    NumExt = 2
    SlavesMax = 2
    Unset = Unset
SPECIFICATION Spec
INVARIANT InitOnlyWithConfig
CHECK_DEADLOCK FALSE
