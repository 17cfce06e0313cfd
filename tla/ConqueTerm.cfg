\* The terminals of one Vim: two of them, and a check for death every second read.
CONSTANTS
    MaxTerms = 2
    CheckEvery = 2
SPECIFICATION FairSpec
INVARIANTS TypeOK LastIsAwake
PROPERTIES DeletedIsTold AloneStaysTerminal DeathNoticed
CHECK_DEADLOCK FALSE
