SPECIFICATION Spec
CONSTANTS
    None = None
    Profile = {p1, p2}
    MaxBegun = 2
    MaxTrouble = 2
SYMMETRY ProfileSymmetry
CHECK_DEADLOCK FALSE
INVARIANTS
    IntegrationInvariant
    NoSilentDoubleInjection
    RollbackIsExact
PROPERTIES
    RemovalIsVerified
