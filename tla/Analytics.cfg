SPECIFICATION Spec
CONSTANTS
    NearMissCapacity = 8
    MinSamples = 4
    NearMissWindow = 50
    Model = {"gpt-4o", "llama3"}
    Provider = {"openai", "ollama"}
    Pricing <- MCPricing
    SampleRate = 500
    Lookups <- MCLookups
    MaxLookups = 9
    Samples <- MCSamples
    ThresholdChoices = {{}, {900, 975}}
    TestHorizon = 1
    MaxSize = 1
    None = None
INVARIANTS
    TypeOK
    RecoversMost
    NoSaferCandidate
    ScrapeAddsUp
    ReportsAgree
