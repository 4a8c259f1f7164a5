CONSTANTS
    Request = {r1, r2, r3}
    Id = {d1}
    User = {alice}
    Ops <- MCLoadOps
    MaxClients = 2
    MaxCrashes = 0
    Nobody = nobody
SPECIFICATION FairSpec
PROPERTIES
    AnsweredUnlessDrained
CHECK_DEADLOCK FALSE
