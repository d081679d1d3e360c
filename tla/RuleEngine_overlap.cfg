\* Two rules, two requests, a limit that one plan can exhaust.
SPECIFICATION Spec
CONSTANTS
    k = k
    Rules = {1, 2}
    EventRules <- MCEventRules
    NumDevices = 1
    Keys = {k}
    Plans <- MCPlans
    Execs = {x1, x2}
    Limit = 2
    MaxTasks = 3
    MaxLate = 1
SYMMETRY Symmetry
INVARIANTS OneLiveTask RateHeldWhenAlone
