CONSTANTS
    Flows = {f1}
    BearerIds = {bA, bB}
    Objs = {o1, o2}
    NULL = NULL
    MaxMq = 2
    InvalidMq = 9
    DfcQmap = TRUE
    Activations <- OneDefault
    AllBearerGrants = {}
    Bidirs = {FALSE}
    TxStatuses = {TRUE, FALSE}
    VndCommands = {}
    RebindMayFail = TRUE
SPECIFICATION FairSpec
INVARIANTS
    AwakeIfGranted
    BearerLifetime
PROPERTIES
    OnlyStaleWatchdogOverGrants
    WatchdogRecovers
    NetlinkReturns
