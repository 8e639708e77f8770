SPECIFICATION FairSpec
CONSTANTS
    Call = {c1, c2}
    Request <- MCRequest
    Configured = {"openai", "anthropic"}
    Native = {"openai", "ollama"}
    Local = {"echo"}
    PoolSize = 1
    MaxAttempts = 3
    StatusCode = {429, 503}
    Parts = 2
    None = None
INVARIANTS
    TypeOK
    PaidOnce
    PoolSound
PROPERTIES
    ImplementsCompleter
    CallEnds
