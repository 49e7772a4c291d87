\* The continue paths of the detection loop skip i2c_eeprom_release.
CONSTANTS
    NumExt = 2
    SlavesMax = 2
    Unset = Unset
SPECIFICATION Spec
INVARIANT EepromReleased
CHECK_DEADLOCK FALSE
