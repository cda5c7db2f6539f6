SPECIFICATION Spec
CONSTANTS
    Statuses <- MCStatuses
    Outages <- MCOutages
INVARIANTS
    TypeOK
    RecordIsWhatBusWasTold
PROPERTIES
    NoPhantomUnplug
    StableChargerIsTold
