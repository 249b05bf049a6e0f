SPECIFICATION LogsSpec
CONSTANTS
    Thread = {t1, t2}
    Key = {k1, k2}
    Arch = {x64}
    Process = {p1, p2}
    Backups = 2
    MaxBytes = 4
    ThrottleSize = 1
    SummaryWindow = 1
    DedupeWindow = 2
    MaxRecords = 7
    MaxResults = 3
    MaxTime = 2
    MaxFaults = 1
    MaxSetupRecords = 7
    MaxSetupFaults = 1
SYMMETRY ProcessSymmetry
CHECK_DEADLOCK FALSE
INVARIANTS
    LogInvariant
    ReaderSeesOnce
    LoggerIsHonest
    SetupLogIsSound
