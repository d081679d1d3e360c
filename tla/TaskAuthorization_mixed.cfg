\* One task, an administrator who switches between a
\* plain, an MFA and a tinfoil policy.
SPECIFICATION Spec
CONSTANTS
    Tasks = {t1}
    Users = {u1, u2}
    Requests = {r1, r2}
    Policies <- MixedPolicies
    MaxLedger = 3
SYMMETRY Symmetry
INVARIANTS RevokedTaskHasNoLiveEntry DistinctApprovers HardBlocksHold ReleasedOnlyWhenDue
PROPERTIES MfaTenantsNeedApprovals LedgerAppendOnly
