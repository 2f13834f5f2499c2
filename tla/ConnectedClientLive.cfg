CONSTANTS
    MaxGen <- MCOneGen
    ManagedGens <- MCOneGenManaged
    UserVals <- MCUserVals
    uPinned = uPinned
    uOther = uOther
    Pinned = uPinned
SPECIFICATION FairSpec
PROPERTIES ProcessesEnd
