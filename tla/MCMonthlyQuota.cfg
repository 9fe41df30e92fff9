SPECIFICATION Spec
CONSTANTS
    u1 = u1
    u2 = u2
    n1 = n1
    n2 = n2
    Users = {u1}
    Nodes = {n1, n2}
    Handlers = {h1}
    StudentQuota = 1
    TeacherQuota = 3
    AdministratorQuota = 9
    QuotaForNewUser = 0
    Manageable = {"enable", "disable", "promote", "demote"}
    SharedLogDb = TRUE
    DbMayFail = TRUE
    MaxMonth = 2
    MaxCrashes = 0
SYMMETRY MCSymmetry
CHECK_DEADLOCK FALSE
INVARIANTS
    TypeOK
    OneGrantPerMonth
    BillsFollowGrants
