SPECIFICATION Spec
CONSTANTS
    Tmp = "_tmp"
    Sources <- NameClashes
    MaxLoops = 4
INVARIANT NamesKeepTheirMeaning
CHECK_DEADLOCK FALSE
