SPECIFICATION ProfileLiveSpec
CONSTANTS
    k1 = k1
    k2 = k2
    k3 = k3
    coding = coding
    review = review
    Keys = {k1, k2}
    CohortOf <- MCCohortOf
    h1 = h1
    h2 = h2
    Committers = {h1, h2}
    MaxVersions = 2
    MaxProfiles = 2
    MaxPending = 2
    MaxEvidence = 1
    MaxCounter = 6
    NoRefresh = NoRefresh
PROPERTIES RefreshIsSound
CHECK_DEADLOCK FALSE
