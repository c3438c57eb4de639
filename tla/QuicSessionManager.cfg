SPECIFICATION SessionSpec
CONSTANTS
    Dids = {a, b}
    Opens = {o1, o2, o3}
    Callers = {c1, c2}
    NoDid = NoDid
    EmptyDid = EmptyDid
    NoSession = NoSession
INVARIANTS
    CachedSessionIsBound
    CallerGetsItsIdentity
    InFlightHasCreator
PROPERTIES
    CallsSettle
    ImplementsRegister
