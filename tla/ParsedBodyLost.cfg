CONSTANTS
    Byte <- MCByte
    Content <- MCContent
    MaxHops = 3
SPECIFICATION BodySpec
INVARIANTS
    ParsedBodyYieldsItsJson
CHECK_DEADLOCK FALSE
