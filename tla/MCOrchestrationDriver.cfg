SPECIFICATION DriverSpec
CONSTANTS
    Identities <- MCIdentities
    LedgerIdentities <- MCIdentities
    Pids <- MCPids
    PidOf <- MCPidOf
    LiveStates = {"running"}
    SourceKinds = {"etw", "wmi"}
    Shells <- MCShells
    ChannelCapacity = 1
    MaxRecoveryAttempts = 1
    ToleratedFailures = 1
    MaxSourceFailures = 1
INVARIANTS
    DriverInvariant
PROPERTIES
    StopEndsTheRun
    EveryTargetIsHandled
