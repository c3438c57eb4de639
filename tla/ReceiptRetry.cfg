SPECIFICATION Spec
CONSTANTS
    Receipts = {r1, r2}
    Flushes = {f1, f2}
    MaxBatch = 2
    MaxRetry = 1
    MaxFlushes = 3
    MaxFaults = 2
SYMMETRY Symmetry
INVARIANTS
    RetryKeepsData
