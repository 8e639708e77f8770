SPECIFICATION FairSpec
CONSTANTS
    Prompt <- MCPrompt
    Traits <- MCTraits
    Policy <- MovingPolicy
    LongTtl = 2
    ShortTtl = 1
    Route <- MCRoute
    SystemHash <- MCSystemHash
    Similarity <- MCSimilarity
    Unset = Unset
    NearMissCapacity = 1
    SampleRate = 500
    Task = {t1, t2}
    Request <- PairRequests
    Parts = 2
    DefaultThreshold = 950
    AdaptiveThresholds = TRUE
    NearMissWindow = 50
    ValidationEnabled = TRUE
    None = None
INVARIANTS
    HitIsIsolated
    HitIsCloseEnough
    NearMissIsTrue
    WithinBounds
    CountersExact
PROPERTIES
    RequestTerminates
