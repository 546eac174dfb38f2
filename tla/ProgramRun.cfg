SPECIFICATION FairSpec
CONSTANTS
    Tmp = "_tmp"
    Programs <- AllPrograms
    Inputs <- SmallInputs
    MaxLoops = 4
INVARIANTS
    GeneratedCodeTypechecks
    MeaningPreserved
PROPERTY CompiledProgramEnds
CHECK_DEADLOCK FALSE
