CONSTANTS
    Flows = {f1, f2}
    BearerIds = {bA, bB}
    Objs = {o1, o2, o3}
    NULL = NULL
    MaxMq = 3
    InvalidMq = 9
    DfcQmap = FALSE
    Activations <- AnyActivation
    AllBearerGrants = {TRUE, FALSE}
    Bidirs = {FALSE}
    TxStatuses = {}
    VndCommands = {TRUE, FALSE}
    RebindMayFail = FALSE
SPECIFICATION Spec
SYMMETRY Sym
INVARIANTS
    TypeOK
    RefCount
    QueueOwner
    UniqueBearer
    StoppedIfNotGranted
