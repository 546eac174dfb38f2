SPECIFICATION FairSpec
CONSTANTS
    x = x
    y = y
    arg = arg
    Name = {x, y}
    Binder = arg
    MaxEnv = 4
    MaxUses = 2
    Nestings = {TRUE, FALSE}
INVARIANTS
    TypeOK
    UnshadowedCapture
    BodyAligned
    PackingLeavesEnvironment
    CallerIntact
PROPERTY CallReturns
CHECK_DEADLOCK FALSE
