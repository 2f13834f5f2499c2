CONSTANTS
    a1 = a1
    a2 = a2
    a3 = a3
    p1 = p1
    ann = ann
    bob = bob
    organization = organization
    person = person
    None = None
    Attempts = {a1, a2, a3}
    Plain = {p1}
    Actors = {ann, bob}
    Scopes = {organization, person}
    Members <- MCMembers
    Limit <- MCLimit
    Costs <- MCCosts
    Charges <- MCCharges
    MaxMonth = 2
SYMMETRY Symmetric
SPECIFICATION LedgerSpec
INVARIANTS WithinLimits
PROPERTIES LedgerIsSound ImplementsHolds
