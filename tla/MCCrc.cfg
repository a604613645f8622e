SPECIFICATION Spec
CONSTANTS
    Bytes <- MCBytes
    MaxLength = 5
INVARIANTS TypeOK TableIsShiftRegister AlteredByteNoticed
CHECK_DEADLOCK FALSE
