SPECIFICATION Spec
CONSTANTS
    Tmp = "_tmp"
    Sources <- NestedAssignments
    MaxLoops = 4
INVARIANT AssignmentWritesTypedComponent
CHECK_DEADLOCK FALSE
