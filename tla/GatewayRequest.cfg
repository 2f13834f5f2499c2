CONSTANTS
    a1 = a1
    a2 = a2
    a3 = a3
    r1 = r1
    r2 = r2
    ann = ann
    organization = organization
    None = None
    Attempts = {a1, a2, a3}
    Plain = {}
    Actors = {ann}
    Scopes = {organization}
    Members <- MCMembers
    Limit <- MCLimit
    Costs = {1}
    Charges = {0, 2}
    MaxMonth = 1
    Requests = {r1, r2}
    LocalOnes = {r1, r2}
SPECIFICATION FairSpec
INVARIANTS EgressIsCovered FailoverOnceAndFree
PROPERTIES LeaseComesFree
