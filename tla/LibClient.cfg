SPECIFICATION Spec
CONSTANTS
    MaxSessions = 2
    MaxTokens = 2
    ClientInits <- MCEitherHandle
    CallsMayFail = TRUE
INVARIANTS
    TypeOK
    OwnershipIsKnown
    OwnCallsEnd
    OneStatusSubscription
PROPERTY ClientIsServed
