SPECIFICATION Spec
CONSTANTS
    Configs <- MCConfigs
    Readings <- MCReadings
    Statuses <- MCStatuses
    Events <- MCEvents
    QueryOutcomes = {TRUE, FALSE}
    AuthOutcomes = {TRUE}
    EnableOutcomes = {TRUE, FALSE}
    DisableOutcomes = {TRUE, FALSE}
    CtiaParams <- MCCtia
    OVERCHARGE_RETRIES = 0
    CRITICAL_PERCENT_SAMPLES = 1
    BAD_SAMPLES_THRESHOLD = 1
    MAX_CHECKS = 1
INVARIANTS
    TypeOK
    RemovalWasRead
    WakeupIsArmed
PROPERTIES
    ChargeDecisionIsComposed
    DecidesOnFreshCharger
    RemovedBatteryPowersOff
