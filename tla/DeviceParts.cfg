SPECIFICATION PartsSpec
CONSTANTS
    Parts = {"probe", "history", "native", "bridge", "assets", "owner", "observer", "setup"}

    p1 = p1  p2 = p2  p3 = p3  p4 = p4  t1 = t1  t2 = t2  NoThread = NoThread
    Probes = {p1, p2, p3, p4}
    Threads = {t1, t2}
    ThreadOf <- MCThreadOf
    Inputs <- MCInputs
    FirstInput <- MCFirstInput
    MaxRequests = 3
    MaxPlans = 2
    c1 = c1  c2 = c2  c3 = c3  ann = ann  bob = bob  Nobody = Nobody
    Captures = {c1, c2, c3}
    HistoryActors = {ann, bob}
    ActorOf <- MCActorOf
    LengthOf <- MCLengthOf
    MaxHistory = 2
    MaxHistoryBytes = 3
    MaxConsents = 3
    n1 = n1  n2 = n2  n3 = n3  n4 = n4  b1 = b1  b2 = b2  Fresh = Fresh
    Natives = {n1, n2, n3, n4}
    Bindings = {b1, b2}
    BindingOf <- MCBindingOf
    Identified = {b1}
    MaxSlots = 3
    MaxAffinity = 1

    BridgeRequests = {"q1", "q2"}
    NoTurn = NoTurn
    MaxBridgeTimeouts = 2
    MaxRecords = 3
    MaxTurnsAtOnce = 1
    SavedBefore = "local"

    Commands = {"d1", "d2"}
    Operations = {"download", "offline", "preview"}
    ArtifactSize = 2

    RouterHomes = {"hA", "hB"}
    Chats = {"k1", "k2"}
    Offs = {"o1"}
    Unregistered = Unregistered
    BridgeHome = "hA"
    MaxConnections <- MCMaxConnections

    Streams = {"responses", "chat", "messages"}
    MaxEvents = 4

    Setups = {"s1", "s2", "s3"}
    ModeOf <- MCModeOf
    MaxCredentials = 2
    ScanLimit = 3
INVARIANTS
    PartsTypeOK
    PlanIsKept
    HistoryIsSound
    OneAttemptPerConversation
    NativeIsSound
    AcquisitionIsSound
    ObserverIsSound
PROPERTIES
    BridgeIsSound
    OwnerIsSound
    SetupIsSound
CHECK_DEADLOCK FALSE
