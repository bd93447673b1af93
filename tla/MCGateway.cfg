CONSTANTS
    Request = {r1, r2, r3}
    admin = admin
    ClientOf <- OneClient
    Limit = 2
    Window = 2
    MaxTime = 3
    Call = {c1, c2}
    o1 = o1
    Org <- OneOrg
    Name = {"default"}
    NoName = NoName
    DefaultBucket <- MCDefaultBucket
    Hook <- MCHook
    GlobalHook = "global"
    NoHook = NoHook
    NoCall = NoCall
    MaxTokens <- MCMaxTokens
    DefaultEstimate = 2
    PromptBuffer = 1
    HalfRange = 8
    Usage <- MCUsage
    Grant <- MCGrant
    FirstBalance = 3
    ClaimTTL = 1
    CallTime = 1
SYMMETRY Indistinct
SPECIFICATION MCSpec
INVARIANTS GatewayTypeOK AlertsStayHome ForwardedIsCovered OneWarningPerWindow SilencedByTeller  WithinLimit RefusedAtLimit
CHECK_DEADLOCK FALSE
