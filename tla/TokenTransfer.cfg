SPECIFICATION Spec
CONSTANTS
    Transfers = {t1, t2}
    Workers = {w1, w2}
    Gateways = 2
    MaxAttempts = 2
    MaxFaults = 3
INVARIANTS TypeOK MovedOnce ReportIsTruthful QueueIsServed
PROPERTY TransfersSettle
CHECK_DEADLOCK FALSE
