\* Does the expiry of a reservation refund it?
CONSTANTS
    Bucket = {b1, b2}
    RequestId = {i1, i2}
    NoBucket = NoBucket
    Estimate <- MCEstimate
    Usage <- MCUsage
    Grant <- MCGrant
    MaxFunds <- MCMaxFunds
SPECIFICATION EngineSpec
PROPERTY ExpiryRefunds
