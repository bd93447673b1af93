\* Two calls with ids of their own that compete for one bucket.
CONSTANTS
    x1 = x1
    x2 = x2
    i1 = i1
    i2 = i2
    b1 = b1
    Bucket = {b1}
    RequestId = {i1, i2}
    NoBucket = NoBucket
    Exchange = {x1, x2}
    IdOf <- OwnId
    BucketOf <- OneBucket
    EstimateOf <- MCEstimate
    KindOf <- Kinds
    Usage <- MCUsages
    Grant <- MCGrant
    MaxFunds <- MCMaxFunds
    Mode = {"enforce"}
SPECIFICATION Spec
INVARIANTS
    TypeOK
    ForwardedUnderHold
    ChargedAsLogged
    CostIsHeldOrUsed
PROPERTY OverrunIsUsage
\* Every call may have ended, with no hold left.
CHECK_DEADLOCK FALSE
