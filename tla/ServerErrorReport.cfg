CONSTANTS
    Request = {r1}
    Route <- MCRoute
    JsonRoute = {2}
    UnionRoute = {}
    TextRoute = {3}
    MaxChunks = 1
SPECIFICATION FairServerSpec
PROPERTIES
    ServerErrorIsAnswered
CHECK_DEADLOCK FALSE
