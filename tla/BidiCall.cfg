CONSTANTS
    Request = {r1, r2}
    Route <- MCRoute
    Place <- MCPlace
    Transport = {"memory", "node"}
    Call <- MCCall
    BodyRoute = {2}
    SecuredRoute = {1, 2}
    OrNotFoundRoute = {1, 4}
    StatusRoute = {2}
    AuthErrorRoute = {1, 2}
    Issued = {"signed", "nameless"}
    Nameless = {"nameless"}
    OtherScheme = {"basic"}
    NoToken = "none"
SPECIFICATION FairSpec
INVARIANTS
    CallTypeOK
    TokensDecide
    RoutingFailureThrows
PROPERTIES
    ContractSpec
    EveryCallReturns
CHECK_DEADLOCK FALSE
