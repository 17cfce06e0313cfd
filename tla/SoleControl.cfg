\* The life cycle: room in the process list for every process.
CONSTANTS
    PollEvery = 3
    ListSize = 4
    MaxOthers = 2
    MaxPosts = 3
SPECIFICATION FairSpec
INVARIANTS TypeOK ExitIsPublished NoOrphansWhenListed
PROPERTIES NeverAliveAgain CommandObeyed DeathEnds
CHECK_DEADLOCK FALSE
