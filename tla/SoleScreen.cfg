\* Blocks and widths: three changes of the window, two fillings of the console.
CONSTANTS
    Widths <- MCWidths
    InitWidth = 2
    MaxWindow = 2
    Fast = FALSE
    MaxResizes = 3
    MaxOutputs = 2
    MaxKeys = 7
SPECIFICATION FairSpec
INVARIANTS TypeOK WriterNeverWider ReaderFollowsUnlessDropped NeverBlankWithoutGrowth WindowFollowsUnlessLost
PROPERTIES ReaderNeverGoesBack ResizeReaches
CHECK_DEADLOCK FALSE
