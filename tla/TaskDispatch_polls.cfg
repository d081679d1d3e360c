\* One task; a node that polls and one that need not, in every standing; the
\* tenant's kill switch record; a late scan or approval; saves and restarts.
SPECIFICATION FairDispatchSpec
CONSTANTS
    Tasks = {t1}
    Nodes = {n1, n2}
    Alive = {n1}
    Scopes <- TenantScope
    MaxPending = 1
    Crashes = TRUE
PROPERTIES EndedStaysHome SentOnlyWhenDue UnavailableServedLast 
           ExecutableTasksGoOut
