SPECIFICATION Spec
CONSTANTS
    u1 = u1
    u2 = u2
    n1 = n1
    n2 = n2
    Users = {u1, u2}
    Nodes = {n1}
    Handlers = {h1}
    StudentQuota = 1
    TeacherQuota = 3
    AdministratorQuota = 9
    QuotaForNewUser = 0
    Manageable = {"promote"}
    SharedLogDb = FALSE
    DbMayFail = FALSE
    MaxMonth = 1
    MaxCrashes = 1
CHECK_DEADLOCK FALSE
INVARIANTS
    
    NothingElseIsBilled
PROPERTIES
    EveryRunEnds
