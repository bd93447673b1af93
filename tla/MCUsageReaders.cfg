CONSTANTS
    Path <- MCPath
    LegacyHost <- MCLegacyHost
    Speaks <- MCSpeaks
    Answer <- MCAnswer
    Document <- MCDocument
    Reserved <- MCReserved
SPECIFICATION ReadersSpec
INVARIANTS TypeOK SettledOnce  KnownAtOnce
CHECK_DEADLOCK FALSE
