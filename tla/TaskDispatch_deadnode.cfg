\* One task, one node that polls and one that has died.
SPECIFICATION FairDispatchSpec
CONSTANTS
    Tasks = {t1}
    Nodes = {n1, n2}
    Alive = {n1}
    Scopes <- NoScopes
    MaxPending = 1
    Crashes = FALSE
PROPERTY TasksLeaveDeadNodes
