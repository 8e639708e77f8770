SPECIFICATION Spec
CONSTANTS
    Replica = {r1, r2}
    MaxInFlight = 1
    MaxMishaps = 0
    Policy <- MCPolicy
INVARIANTS
    ReplicasAgree
