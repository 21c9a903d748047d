CONSTANT
    Setups <- PowerSaveOnZero
SPECIFICATION FairSpec
INVARIANTS
    ClientsSound
    QueriedWhenUp
PROPERTY
    DeleteReturns
