SPECIFICATION Spec
CONSTANTS
    g1 = g1
    g2 = g2
    t1 = t1
    t2 = t2
    r2 = r2
    Gens = {g1, g2}
    Texts = {t1, t2, r2}
    Receipts = {r2}
    GenOf <- GenOfTexts
    Layouts <- SomeLayouts
    w1 = w1
    w2 = w2
    d1 = d1
    d2 = d2
    Workers = {w1, w2}
    Drains = {d1, d2}
    Limit = 2
    MaxCopies = 2
    MaxHanded = 5
    MaxSessions = 3
SYMMETRY Symmetric
INVARIANTS
    TypeOK
    NothingVanishes
    
    KeptForRetry
CHECK_DEADLOCK FALSE
