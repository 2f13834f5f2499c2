CONSTANTS
    MaxGen <- MCMaxGen
    ManagedGens <- MCManagedGens
    UserVals <- MCUserVals
    uPinned = uPinned
    uOther = uOther
    Pinned = uPinned
SPECIFICATION Spec
INVARIANT DisconnectedMeansStopped
