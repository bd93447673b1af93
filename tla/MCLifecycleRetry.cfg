\* Two calls with one request id, in enforce mode.
CONSTANTS
    x1 = x1
    x2 = x2
    i1 = i1
    i2 = i2
    b1 = b1
    Bucket = {b1}
    RequestId = {i1}
    NoBucket = NoBucket
    Exchange = {x1, x2}
    IdOf <- SharedId
    BucketOf <- OneBucket
    EstimateOf <- MCEstimate
    KindOf <- Kinds
    Usage <- MCUsage
    Grant <- MCGrant
    MaxFunds <- MCMaxFunds
    Mode = {"enforce"}
SPECIFICATION Spec
INVARIANTS
    HoldHasKeeper
    OneUsageRow
PROPERTY UsesEngine
\* Every call may have ended, with no hold left.
CHECK_DEADLOCK FALSE
