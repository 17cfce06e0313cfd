\* Miniterm: --debug given up to four times, one more than there are modes.
CONSTANTS
    MaxDebug = 4
    MaxKeys = 4
    MaxAhead = 1
    Files <- MCFiles
SPECIFICATION FairSpec
INVARIANTS TypeOK ShownUnlessWrapped TtyModes OneKeyAfterEnd
PROPERTY EndsUnlessWaiting
CHECK_DEADLOCK FALSE
