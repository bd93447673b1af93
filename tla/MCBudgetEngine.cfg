\* The scripts under any callers.
CONSTANTS
    Bucket = {b1, b2}
    RequestId = {i1, i2}
    NoBucket = NoBucket
    Estimate <- MCEstimate
    Usage <- MCUsage
    Grant <- MCGrant
    MaxFunds <- MCMaxFunds
SPECIFICATION EngineSpec
INVARIANTS
    ScriptsTypeOK
    BalanceIsAvailable
    OverdrawnOnlyByOverrun
PROPERTY LedgerSpec
