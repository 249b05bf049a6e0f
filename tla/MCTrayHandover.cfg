SPECIFICATION Spec
CONSTANTS
    None = None
    UserEntry = {u1, u2}
    MachineEntry = {m1}
    Found = {{u1, m1}}
    Slot = {1, 2}
    MaxBegun = 2
    MaxTrouble = 2
CHECK_DEADLOCK FALSE
INVARIANTS
    HandoverInvariant
    ReceiptCoversRemoved
PROPERTIES
    UserKeepsControl
    ClientAnswers
