\* One node in every mix of reports, penalties and clearances.
SPECIFICATION FairTrustSpec
CONSTANTS
    Enrolled = {n1}
    Reports <- SampleReports
    Penalties <- SamplePenalties
    Threshold = 30
    InitialTrust = 70
INVARIANTS EventsMatch LowTrustQuarantined IncidentsWait
PROPERTY TrustRecovers
