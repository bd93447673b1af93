\* A call that names a bucket and one that names none, in every mode.
CONSTANTS
    x1 = x1
    x2 = x2
    i1 = i1
    i2 = i2
    b1 = b1
    Bucket = {b1}
    RequestId = {i1, i2}
    NoBucket = NoBucket
    Exchange = {x1, x2}
    IdOf <- OwnId
    BucketOf <- SomeBucket
    EstimateOf <- MCEstimate
    KindOf <- Kinds
    Usage <- MCUsage
    Grant <- MCGrant
    MaxFunds <- MCMaxFunds
    Mode = {"off", "shadow", "enforce"}
SPECIFICATION FairSpec
INVARIANTS
    HoldHasKeeper
    ForwardedUnderHold
    ChargedAsLogged
PROPERTIES
    CallsAdvance
    EveryCallEnds
\* Every call may have ended, with no hold left.
CHECK_DEADLOCK FALSE
