SPECIFICATION Spec
CONSTANTS
    c1 = c1
    u1 = u1
    u2 = u2
    r1 = r1
    r2 = r2
    r3 = r3
    e1 = e1
    Codes = {c1}
    Users = {u1, u2}
    Redeemers = {r1, r2, r3}
    Editors = {e1}
    Quotas = {1, 2}
    Edits = {"enable", "disable", "quota", "delete"}
    DbMayFail = TRUE
INVARIANTS
    PaidOncePerOpening
PROPERTIES
    PaymentMatchesTheRow
    EveryRequestIsAnswered
