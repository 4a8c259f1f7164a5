CONSTANTS
    Request = {r1, r2}
    Route <- MCRoute
    Forwarder = {r2}
    Foreign = foreign
    OwnId = ownId
SPECIFICATION LifecyclesSpec
INVARIANTS
    RouterTypeOK
    FirstMatchRuns
    AnswerTellsTruth
    TypeOK
    OwnMismatchesReported
    LeftoversExplained
PROPERTIES
    EveryRequestSettles
CHECK_DEADLOCK FALSE
