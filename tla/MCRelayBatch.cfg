SPECIFICATION Spec
CONSTANTS
    c1 = c1
    c2 = c2
    k1 = k1
    u1 = u1
    Calls = {c1, c2}
    Users = {u1}
    Tokens = {k1}
    TokenOf <- MCOneKey
    Owner <- MCOwner1
    Initial <- MCInitial
    PreConsumedQuota = 0
    PromptTokens = {1}
    MaxTokens = {35}
    CompletionTokens = {0, 60}
    TopUps = {5}
    RedisEnabled = FALSE
    BatchUpdateEnabled = TRUE
    RedisMayFail = FALSE
    DbMayFail = TRUE
    MaxTopUps = 0
    MaxCrashes = 1
CHECK_DEADLOCK FALSE
INVARIANTS
    MoneyIsConserved
