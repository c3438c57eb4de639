SPECIFICATION StoreSpec
CONSTANTS
    Dids = {a, b}
    Peers = {p}
    Msgs = {m1, m2}
    NoDid = NoDid
    EmptyDid = EmptyDid
    NoBlob = NoBlob
    MaxOps = 2
PROPERTIES
    SaveKeepsHistory
