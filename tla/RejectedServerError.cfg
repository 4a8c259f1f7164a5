CONSTANTS
    Request = {r1, r2}
    Route <- MCRoute
    Forwarder = {r2}
    Foreign = foreign
    OwnId = ownId
SPECIFICATION Spec
INVARIANTS
    ServerErrorFailureGives500
CHECK_DEADLOCK FALSE
