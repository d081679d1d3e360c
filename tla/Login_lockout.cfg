\* Two addresses, two requests, a lock after two failures and two codes per challenge.
SPECIFICATION Spec
CONSTANTS
    Emails = {e1, e2}
    Requests = {r1, r2}
    FailLimit = 2
    TryLimit = 2
    MaxUsers = 3
    MaxFailed = 6
    MaxChallenges = 1
    MaxTries = 4
SYMMETRY Symmetry
INVARIANTS AccountsDistinct GuessesBounded OneSessionPerChallenge CodesBounded
