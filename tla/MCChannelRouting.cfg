SPECIFICATION Spec
CONSTANTS
    Channels = {c1}
    Prios = {0, 1}
    None = None
    Calls = {}
    Admins = {a1, a2}
    Tester = tester
    RetryTimes = 0
    Workers <- MCWorkers
    MaxOps = 2
    MaxFaults = 2
INVARIANTS AbilitiesFollowChannels 
PROPERTY CopyConverges
CHECK_DEADLOCK FALSE
