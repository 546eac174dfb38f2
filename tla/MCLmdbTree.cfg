CONSTANTS
    c1 = c1
    c2 = c2
    Cursors <- MCCursors
    Keys <- MCKeys
    Bounds <- MCBounds
SPECIFICATION Spec
INVARIANTS
    TypeOK
    WellFormed
    CursorsFollowTree
PROPERTY
    ImplementsMap
