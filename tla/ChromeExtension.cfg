CONSTANTS
    Request = {r1, r2}
    Host = {h1, h2}
    Tab = {t1, t2}
    None = none
SPECIFICATION FairSpec
INVARIANTS
    TypeOK
    NoMissedLoad
    OwnHost
PROPERTIES
    AnsweredUnlessUnheard
CHECK_DEADLOCK FALSE
