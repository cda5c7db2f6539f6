SPECIFICATION LevelSpec
CONSTANTS
    Configs <- MCPlainConfigs
    Readings <- MCLevelReadings
    Events <- MCLevelEvents
    EnableOutcomes = {TRUE}
    DisableOutcomes = {TRUE}
    CtiaParams <- MCCtia
    OVERCHARGE_RETRIES = 0
    CRITICAL_PERCENT_SAMPLES = 3
PROPERTY LevelShutdownIsConfirmed
