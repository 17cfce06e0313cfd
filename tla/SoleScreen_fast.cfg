\* Does Vim follow the communicator from block to block in fast mode?
CONSTANTS
    Widths <- MCWidths
    InitWidth = 2
    MaxWindow = 2
    Fast = TRUE
    MaxResizes = 0
    MaxOutputs = 1
    MaxKeys = 4
SPECIFICATION Spec
INVARIANT ReaderFollows
CHECK_DEADLOCK FALSE
