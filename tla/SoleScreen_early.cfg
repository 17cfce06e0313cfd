\* Does the terminal survive a resize?
CONSTANTS
    Widths <- MCWidths
    InitWidth = 2
    MaxWindow = 2
    Fast = FALSE
    MaxResizes = 1
    MaxOutputs = 0
    MaxKeys = 4
SPECIFICATION Spec
INVARIANT ResizeNeverKills
CHECK_DEADLOCK FALSE
