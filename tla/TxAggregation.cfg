CONSTANTS
    Senders = {s1, s2}
    Commanders = {k1}
    Flusher = flusher
    MaxItems <- TwoPackets
    Counts = {1, 3}
SPECIFICATION FairSpec
INVARIANTS
    PacketsSound
    NotOvertaken
PROPERTIES
    OnlyStaleCancelUncovers
    AggregateLeaves
