\* Does a close always end the terminal?
CONSTANTS
    PollEvery = 2
    ListSize = 4
    MaxOthers = 0
    MaxPosts = 1
SPECIFICATION FairSpec
PROPERTY CloseKills
CHECK_DEADLOCK FALSE
