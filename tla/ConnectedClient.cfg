CONSTANTS
    MaxGen <- MCMaxGen
    ManagedGens <- MCManagedGens
    UserVals <- MCUserVals
    uPinned = uPinned
    uOther = uOther
    Pinned = uPinned
SPECIFICATION Spec
INVARIANTS RuntimeIsSound DisconnectIsClean UserChoiceKept
