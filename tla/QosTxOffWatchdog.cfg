CONSTANTS
    Flows = {f1}
    BearerIds = {bA}
    Objs = {o1, o2}
    NULL = NULL
    MaxMq = 2
    InvalidMq = 9
    DfcQmap = TRUE
    Activations <- AnyActivation
    AllBearerGrants = {FALSE}
    Bidirs = {FALSE}
    TxStatuses = {TRUE, FALSE}
    VndCommands = {}
    RebindMayFail = FALSE
SPECIFICATION Spec
INVARIANT
    TxOffNoGrant
