SPECIFICATION Spec
CONSTANTS
    Prompt <- MCPrompt
    Traits <- MCTraits
    Policy <- FixedPolicy
    LongTtl = 2
    ShortTtl = 1
    Route <- MCRoute
    SystemHash <- MCSystemHash
    Similarity <- MCSimilarity
    Unset = Unset
    NearMissCapacity = 1
    SampleRate = 500
    Task = {t1, t2}
    Request <- TopPRequests
    Parts = 1
    DefaultThreshold = 950
    AdaptiveThresholds = TRUE
    NearMissWindow = 50
    ValidationEnabled = FALSE
    None = None
SYMMETRY Symmetric
INVARIANTS
    DecodingParamsIsolated
