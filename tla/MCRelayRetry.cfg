SPECIFICATION Spec
CONSTANTS
    Channels = {c1, c2}
    Prios = {0, 1}
    None = None
    Calls = {k1}
    Admins = {a1}
    Tester = tester
    RetryTimes = 2
    Workers <- MCWorkers
    MaxOps = 1
    MaxFaults = 1
INVARIANTS TypeOK RetriesMoveOn DisabledForItsOwnErrors
SYMMETRY Symmetric
PROPERTIES  OnlyChangesEndTheProcess
CHECK_DEADLOCK FALSE
