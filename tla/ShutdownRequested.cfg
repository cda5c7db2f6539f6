SPECIFICATION Spec
CONSTANTS
    Configs <- MCPlainConfigs
    Readings <- MCNormalOrFailed
    Events <- MCVoltageAndTemperature
    EnableOutcomes = {TRUE}
    DisableOutcomes = {TRUE}
    CtiaParams <- MCCtia
    OVERCHARGE_RETRIES = 1
    CRITICAL_PERCENT_SAMPLES = 2
PROPERTY ShutdownIsRequested
