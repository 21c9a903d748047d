CONSTANTS
    MapLen = 1
    CoalLen = 2
    IpMin = 1
    TransMin = 1
    MaxNlos = 2
    MaxPackets = 6
    ErrBits = 3
    U8 = 16
    U16 = 256
    Ctx = {1, 2}
    Desc = {d1, d2, d3}
    PoolSize = 2
    MaxPages = 3
    Chains <- MCChains
    Formats <- MCFormats
    Features <- MCFeatures
    Muxes = {1}
    CsumLen = 1
    TrailerLen = 1
    CmdLen = 1
    IndLen = 1
    MaxSkbFrags = 2
    FailSets <- MCFailSets
    NULL = NULL
SPECIFICATION Spec
SYMMETRY SymDesc
INVARIANTS
    PagesBalanced
    OneHolder
    DeliveredRight
