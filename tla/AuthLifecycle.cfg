SPECIFICATION Spec
CONSTANTS
    Dids = {a, b}
    Legacy = Legacy
    None = None
    MaxOps = 3
    MaxRelaunches = 1
    MaxFaults = 2
CHECK_DEADLOCK FALSE
INVARIANTS
    NoHalfAccount
    StorageAgrees
    SessionFollowsIdentity
PROPERTIES
    BootFinishes
