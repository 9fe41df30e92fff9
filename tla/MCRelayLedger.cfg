SPECIFICATION Spec
CONSTANTS
    c1 = c1
    c2 = c2
    k1 = k1
    u1 = u1
    Calls = {c1, c2}
    Users = {u1}
    Tokens = {k1}
    TokenOf <- MCOneKey
    Owner <- MCOwner1
    Initial <- MCInitial
    PreConsumedQuota = 0
    PromptTokens = {1}
    MaxTokens = {0, 35}
    CompletionTokens = {0}
    TopUps = {5}
    RedisEnabled = TRUE
    BatchUpdateEnabled = FALSE
    RedisMayFail = TRUE
    DbMayFail = FALSE
    MaxTopUps = 0
    MaxCrashes = 1
CHECK_DEADLOCK FALSE
INVARIANTS
    EndedCallIsSettled
PROPERTIES
    ImplementsLedger
    EveryCallEnds
    CacheHeals
