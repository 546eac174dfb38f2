SPECIFICATION FairSpec
CONSTANTS
    Keywords <- MCKeywords
    Reserved <- MCReserved
    Texts <- AllTexts
INVARIANTS
    TypeOK
    RegionsExact
    ParserSeesReturnedToken
    PositionsAgree
    TextKept
    BreaksEnforced
    OneTokenAhead
PROPERTY ReadReturns
CHECK_DEADLOCK FALSE
