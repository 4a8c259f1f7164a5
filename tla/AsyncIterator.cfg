CONSTANTS
    Value = {c1, c2}
    MaxPushes = 4
    MaxNexts = 5
SYMMETRY ValueSymmetry
SPECIFICATION Spec
INVARIANTS
    TypeOK
    InOrderOnce
    NoneWaitsAfterClose
PROPERTIES
    ContractSpec
