SPECIFICATION Spec
CONSTANTS
    MaxEvents = 3
    Wire <- MCWire
    Text = {"a", "b"}
    FinishReason = {"stop", "length"}
    None = None
INVARIANTS
    TypeOK
    BoundariesIrrelevant
    CachedIsWhole
    HitReplaysAnswer
CHECK_DEADLOCK FALSE
