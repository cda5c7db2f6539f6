SPECIFICATION ReportSpec
CONSTANTS
    Readings <- MCReadings
    AuthOutcomes = {TRUE}
    SendOutcomes = {TRUE}
    BAD_SAMPLES_THRESHOLD = 3
PROPERTY RemovalIsDebounced
