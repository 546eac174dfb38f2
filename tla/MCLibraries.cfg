SPECIFICATION Spec
INVARIANTS
    ArithmeticExact
    KeysExact
    SignaturesVerify
    NothingLost
CHECK_DEADLOCK FALSE
