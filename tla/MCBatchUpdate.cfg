SPECIFICATION Spec
CONSTANTS
    Rows = {1, 2}
    Initial <- MCInitial
    UserDeltas <- MCUserDeltas
    Amounts = {1}
    SqlMayFail = TRUE
    MaxRecords = 3
    MaxCrashes = 1
INVARIANTS
    NothingLostOrDoubled
    DatabaseShowsACut
PROPERTIES
    EventuallyCaughtUp
