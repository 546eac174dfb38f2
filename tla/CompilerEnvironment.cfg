SPECIFICATION FairSpec
CONSTANTS
    a = a
    b = b
    tmp = tmp
    v1 = v1
    v2 = v2
    Name = {a, b, tmp}
    Tmp = tmp
    Value = {v1, v2}
    MaxEnv = 4
INVARIANTS
    TypeOK
    StackMatchesEnvironment
    OperandsPresent
    RestrictKeepsOuterScope
PROPERTIES
    ImplementsNamedEnvironment
    FragmentsEnd
CHECK_DEADLOCK FALSE
