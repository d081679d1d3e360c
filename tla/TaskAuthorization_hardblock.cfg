\* A hard block that arrives while an approval waits for the MFA store.
SPECIFICATION Spec
CONSTANTS
    Tasks = {t1}
    Users = {u1}
    Requests = {r1, r2}
    Policies <- MixedPolicies
    MaxLedger = 2
INVARIANTS HardBlockRespected
