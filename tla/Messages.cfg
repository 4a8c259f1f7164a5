CONSTANTS
    Char <- MCChar
    Template <- MCTemplate
    Text <- MCText
    Foreign <- MCForeign
    Name <- MCName
    Lower <- MCLower
    HeaderValue <- MCHeaderValue
    Batch <- MCBatch
    Edit <- MCEdit
    MaxEdits = 3
    Letter <- MCLetter
    QueryName <- MCQueryName
    QueryValues <- MCQueryValues
    QueryBatch <- MCQueryBatch
    ForeignQuery <- MCForeignQuery
    MaxChanges = 2
    Byte <- MCByte
    Content <- MCContent
    MaxHops = 3
    Lens <- MCLens
    RouteName = "route"
SPECIFICATION MessagesSpec
INVARIANTS
    PathsTypeOK
    OnlySlashesAreSkipped
    ServerUnderstandsClient
    MatchedMeansWhatWasWritten
    MessageTypeOK
    HeadersArrive
    ReportTellsAll
PROPERTIES
    OthersReadTheSame
    BodyKept
    ContractSpec
CHECK_DEADLOCK FALSE
