CONSTANTS
    Request = {r1}
    Route <- MCRoute
    Place <- MCPlace
    Transport = {"fetch"}
    Call <- MCCall
    BodyRoute = {2}
    SecuredRoute = {1, 2}
    OrNotFoundRoute = {1, 4}
    StatusRoute = {2}
    AuthErrorRoute = {1, 2}
    Issued = {"signed", "nameless"}
    Nameless = {"nameless"}
    OtherScheme = {"basic"}
    NoToken = "none"
SPECIFICATION Spec
INVARIANTS
    RoutingFailureThrows
CHECK_DEADLOCK FALSE
