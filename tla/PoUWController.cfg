SPECIFICATION Spec
CONSTANTS
    Screens = {s1, s2}
    Loads = {l1}
    MaxBatch = 2
    Policies <- BothOrHash
    None = None
CHECK_DEADLOCK FALSE
INVARIANTS
    InOnePlace
    PolicyAllowsReceipt
    RunningMeansTimed
PROPERTIES
    ReceiptsGetThrough
