CONSTANTS
    None = None
    k1 = k1
    k2 = k2
    p = p
    q = q
    Readers <- MCReaders
    Writers <- MCWriters
    Keys <- MCKeys
    Bounds <- MCBounds
    MaxPg = 12
    MaxTxn = 4
SPECIFICATION Spec
INVARIANTS TypeOK Recoverable EveryPageAccountedFor SaveAdvances
PROPERTIES ImplementsStore
CHECK_DEADLOCK FALSE
