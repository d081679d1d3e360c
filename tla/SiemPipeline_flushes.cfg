\* Three events, one of them left in the queue; two requests at a time; one fault.
SPECIFICATION Spec
CONSTANTS
    Events = {1, 2, 3}
    TenantOf <- Owners
    Configs <- SomeConfigs
    Backlog <- LeftOver
    Requests = {r1, r2}
    Batch = 2
    MaxQueue = 2
    MaxRetries = 2
    MaxFaults = 1
SYMMETRY Symmetry
INVARIANTS EachOnce DurableFirst
PROPERTIES LossesExplained
\* Once every event is emitted and exported nothing is left to do.
CHECK_DEADLOCK FALSE
