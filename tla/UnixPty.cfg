\* Two terminals: a process number to lose, keys in two lists, reads of up to two slices.
CONSTANTS
    Terms = {t1, t2}
    Pids = {1, 2}
    MaxEvents = 4
    InRoom = 1
    OutRoom = 2
    Slices <- MCSlices
    Buffered = TRUE
SPECIFICATION FairSpec
INVARIANTS TypeOK OutputWhole KeysStrayOnlyEarly KeysOnceInOrder StrayOnlyAfterDeath
PROPERTY CallsReturn
CHECK_DEADLOCK FALSE
