\* One call: does the estimate bound the overspend?
CONSTANTS
    x1 = x1
    x2 = x2
    i1 = i1
    i2 = i2
    b1 = b1
    Bucket = {b1}
    RequestId = {i1}
    NoBucket = NoBucket
    Exchange = {x1}
    IdOf <- SharedId
    BucketOf <- OneBucket
    EstimateOf <- MCEstimate
    KindOf <- Kinds
    Usage <- MCHugeUsage
    Grant <- MCGrant
    MaxFunds <- MCMaxFunds
    Mode = {"enforce"}
SPECIFICATION Spec
INVARIANT OverspendBounded
\* Every call may have ended, with no hold left.
CHECK_DEADLOCK FALSE
