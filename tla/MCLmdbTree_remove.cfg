CONSTANTS
    c1 = c1
    c2 = c2
    Cursors <- MCCursors
    Keys <- MCKeys
    Bounds <- Alone
SPECIFICATION Spec
PROPERTY
    RemoveDirEmptiesDirectory
