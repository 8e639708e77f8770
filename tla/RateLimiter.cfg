SPECIFICATION Spec
CONSTANTS
    Tenant = {acme}
    Host = {h1}
    ExemptPath = {healthz}
    OtherPath = {chat}
    Rate = 2
    TicksPerSec = 3
    Horizon = 6
    None = None
INVARIANTS
    TypeOK
    WindowBound
PROPERTIES
    RetryAfterIsEnough
