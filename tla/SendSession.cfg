SPECIFICATION Spec
CONSTANTS
    Msgs = {m1}
    Acks = {a1}
    Shakes = {h1}
    MaxHandles = 2
    MaxSeals = 2
    None = None
INVARIANTS
    OneHandshake
    KeysAreShipped
    RowsAreTruthful
PROPERTIES
    TasksSettle
