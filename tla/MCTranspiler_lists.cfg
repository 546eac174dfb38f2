SPECIFICATION Spec
CONSTANTS
    Tmp = "_tmp"
    Sources <- ListArguments
    MaxLoops = 4
INVARIANT ListsKeepTheirOrder
CHECK_DEADLOCK FALSE
