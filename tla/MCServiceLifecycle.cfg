SPECIFICATION LifecycleSpec
CONSTANTS
    MaxControls = 2
INVARIANTS
    HealthIsHonest
    WindDownIsClean
PROPERTIES
    StopIsAnswered
