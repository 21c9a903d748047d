CONSTANTS
    Bearers = {b1}
    Packets = {p1, p2}
    AlarmCb = alarmcb
SPECIFICATION FairSpec
INVARIANTS
    WorkSound
    OneCarrier
PROPERTY
    StalledFlowsRecover
