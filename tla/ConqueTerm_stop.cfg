\* Does a terminal stay one while its program runs?
CONSTANTS
    MaxTerms = 2
    CheckEvery = 2
SPECIFICATION Spec
PROPERTY StaysTerminal
CHECK_DEADLOCK FALSE
