SPECIFICATION EvidenceSpec
CONSTANTS
    Families <- MCBudgetFamilies
    EvidenceRows = 2
PROPERTIES
    EvidenceIsKept
CHECK_DEADLOCK FALSE
