CONSTANTS
    Profiles = {p1, p2, p3}
    NoProfile = NoProfile
    Meddling = {"absent", "foreign"}
    MaxInterruptions = 3
SPECIFICATION StoreSpec
INVARIANTS
    FileFollowsSelection
PROPERTIES
    CopyIsRespected
    KeepsTheSelection
    RecoveryConverges
