SPECIFICATION ProfileSpec
CONSTANTS
    k1 = k1
    k2 = k2
    k3 = k3
    coding = coding
    review = review
    Keys = {k1, k2, k3}
    CohortOf <- MCCohortOf
    h1 = h1
    h2 = h2
    Committers = {h1}
    MaxVersions = 1
    MaxProfiles = 1
    MaxPending = 1
    MaxEvidence = 2
    MaxCounter = 5
    NoRefresh = NoRefresh
INVARIANTS
    SnapshotIsCurrent
CHECK_DEADLOCK FALSE
