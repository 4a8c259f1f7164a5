CONSTANTS
    Request = {r1, r2}
    Route <- MCRoute
    JsonRoute = {2}
    UnionRoute = {2}
    TextRoute = {3}
    MaxChunks = 1
SPECIFICATION FairServerSpec
INVARIANTS
    ServerTypeOK
    AcceptedBodyIsWhole
PROPERTIES
    AnsweredUnlessDeaf
    CloseCompletes
CHECK_DEADLOCK FALSE
