SPECIFICATION Spec
CONSTANTS
    LinkedBefore <- MCConfigLast
    OptionSets <- MCOptionSets
    Files <- MCFiles
INVARIANTS
    TypeOK
    PrecedenceIsKept
    EventsFollowConfiguration
    LimitsBeforePoll
    FakeBatteryIsHeard
CHECK_DEADLOCK FALSE
