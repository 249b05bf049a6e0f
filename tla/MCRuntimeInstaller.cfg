SPECIFICATION InstallerSpec
CONSTANTS
  Version = {v1, v2}
  None = None
  Foreign = Foreign
  MaxProfile = 1
  MaxTrouble = 2
SYMMETRY VersionSymmetry
CHECK_DEADLOCK FALSE
INVARIANTS
    InstallerInvariant
PROPERTIES
    MachineIsKept
    RefinesSwitch
    
