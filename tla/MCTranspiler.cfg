SPECIFICATION FairSpec
CONSTANTS
    Tmp = "_tmp"
    Sources <- DataSources
    MaxLoops = 4
INVARIANTS
    GeneratedCodeTypechecks
    PipelinePreservesMeaning
    MatchHasOneClauseForEachConstructor
PROPERTY PipelineEnds
CHECK_DEADLOCK FALSE
