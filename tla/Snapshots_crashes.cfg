\* Two tasks, a ledger loaded to its newest entry, one nonce kept, two crashes,
\* one failure of the stores.
SPECIFICATION Spec
CONSTANTS
    Tasks = {t1, t2}
    LedgerLimit = 1
    AuditLimit = 2
    NonceCap = 1
    MaxOps = 4
    MaxJobs = 2
    MaxRestarts = 2
    MaxFaults = 1
SYMMETRY Symmetry
INVARIANTS SavedTogether SettledIsSaved NonceOnce NoncesKept ChainVerifies
PROPERTIES LedgerKept
CHECK_DEADLOCK FALSE
