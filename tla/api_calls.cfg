SPECIFICATION Spec
CONSTANTS
    w1 = w1
    w2 = w2
    NoCursor = NoCursor
    Workers <- MCWorkers
    Plans <- MCPlans
    Keys <- MCKeys
    RetryAfters <- MCRetryAfters
    MaxAttempts = 2
    MaxSleep = 2
    Lifetime = 4
    Skew = 2
    Floor = 1
    Transit = 1
    Count = 1
    MaxPages = 3
    MaxEdits = 1
INVARIANTS
    ApiTypeOK
    NoCallCarriesAnExpiredToken
    OneMintPerExpiry
    ListingsAreComplete
PROPERTIES
    EveryJobEnds
