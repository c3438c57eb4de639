SPECIFICATION Spec
CONSTANTS
    Dids = {a}
    Opens = {o1, o2}
    Callers = {inbound}
    Inbound = inbound
    Streams = {s1, s2}
    NoDid = NoDid
    EmptyDid = EmptyDid
    NoSession = NoSession
    NoStream = NoStream
    MaxFailures = 2
    MaxConsumers = 1
    MaxBuffered = 1
INVARIANTS
    TypeOK
    NeverSilentlyIdle
    OfflineIsTruthful
    ReaderRidesOnBoundSession
    OnlyPublishedIsSubscribed
PROPERTIES
    SubscriptionConverges
