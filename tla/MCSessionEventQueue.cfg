SPECIFICATION QueueSpec
CONSTANTS
    Events = {e1, e2, e3, e4, e5}
    Unencodable = {e5}
    Capacity = 2
INVARIANTS
    NothingLost
    DeliveredOnce
    NoneMeansDrained
PROPERTIES
    EveryEventArrives
