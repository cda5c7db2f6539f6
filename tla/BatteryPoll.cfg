SPECIFICATION ReportSpec
CONSTANTS
    Readings <- MCReadings
    AuthOutcomes = {TRUE, FALSE}
    SendOutcomes = {TRUE, FALSE}
    BAD_SAMPLES_THRESHOLD = 3
INVARIANTS
    TypeOK
    HandlerRunsOncePerPass
    SearchFollowsRemoval
    NoChangeGoesUnreported
PROPERTIES
    RemovalIsSeen
    EveryPassEnds
