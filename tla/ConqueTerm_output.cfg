\* Is the output of a program shown when the program ends?
CONSTANTS
    MaxTerms = 2
    CheckEvery = 2
SPECIFICATION Spec
PROPERTY OutputIsShown
CHECK_DEADLOCK FALSE
