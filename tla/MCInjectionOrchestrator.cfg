SPECIFICATION OrchestratorSpec
CONSTANTS
    a1 = a1
    a2 = a2
    b = b
    Identities <- MCIdentities
    Pids <- MCPids
    Sessions <- MCSessions
    PidOf <- MCPidOf
    SessionOf <- MCSessionOf
    LiveStates = {"running", "frozen"}
    Excluded = {}
    MaxTracked = 2
    MaxDeferred = 1
    MaxAttempts = 2
    LaunchMaxDeferrals = 1
SYMMETRY MCSymmetry
INVARIANTS
    TablesAreSound
    OneHomePerTarget
PROPERTIES
    HistoryIsFaithful
    KeepsTheLedger
