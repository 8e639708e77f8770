SPECIFICATION FairSpec
CONSTANTS
    Replica = {r1, r2, r3}
    MaxInFlight = 1
    MaxMishaps = 3
    Policy <- MCPolicy
INVARIANTS
    TypeOK
    ShutdownIsGraceful
PROPERTIES
    EveryReplicaServes
