CONSTANTS
    Pages = {p1, p2, p3, p4}
    NULL = NULL
    ListHead = listhead
    PoolSize = 2
    MaxTries = 2
    PageSize = 4
    Overhead = 1
    U16 = 16
    Sizes = {3, 4, 9}
SPECIFICATION Spec
SYMMETRY SymPages
INVARIANTS
    PoolSound
    RoomSound
