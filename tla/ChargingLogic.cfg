SPECIFICATION Spec
CONSTANTS
    Configs <- MCConfigs
    Readings <- MCReadings
    Events <- MCEvents
    EnableOutcomes = {TRUE, FALSE}
    DisableOutcomes = {TRUE}
    CtiaParams <- MCCtia
    OVERCHARGE_RETRIES = 2
    CRITICAL_PERCENT_SAMPLES = 2
INVARIANTS
    TypeOK
    HandlerRunsOncePerPass
    OneShutdownRequest
    ReasonIsGiven
    ChargingFollowsState
PROPERTIES
    PowersOff
    EveryCallReturns
