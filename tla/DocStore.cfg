CONSTANTS
    Request = {r1, r2, r3}
    Id = {d1, d2}
    User = {alice, bob}
    Ops <- MCDocOps
    MaxClients = 2
    MaxCrashes = 1
    Nobody = nobody
SYMMETRY DocSymmetry
SPECIFICATION Spec
INVARIANTS
    TypeOK
    PostedIsStored
    RollsBackOnError
    ClientsComeBack
PROPERTIES
    ContractSpec
CHECK_DEADLOCK FALSE
