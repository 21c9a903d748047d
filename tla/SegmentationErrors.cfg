CONSTANTS
    MapLen = 1
    CoalLen = 2
    IpMin = 1
    TransMin = 1
    MaxNlos = 2
    MaxPackets = 6
    ErrBits = 3
    U8 = 16
    U16 = 256
    Families <- MCFamilies
SPECIFICATION SegSpec
CHECK_DEADLOCK FALSE
INVARIANT
    ErrorsNotIncluded
