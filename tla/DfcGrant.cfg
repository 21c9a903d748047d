CONSTANTS
    DefaultCallGrant = 6
    Grants = {0, 11}
    AllGrants = {0, 6}
    RxBytes = {0, 5}
    Lens = {1, 5}
    Seqs = {1}
    QuerySeq = 9
    ScaleFactors = {1, 5}
    Flags = {TRUE, FALSE}
    MaxInFlight = 10
    NULL = NULL
SPECIFICATION Spec
INVARIANTS
    TypeOK
    AckSeqCurrent
    NoSilentStall
PROPERTIES
    EndMarkerAnswered
    StopIsAcked
    AbstractStep
