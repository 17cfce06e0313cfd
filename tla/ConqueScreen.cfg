\* Rows of the Unix terminal: a screen of two or three rows, a few lines of scrollback.
CONSTANTS
    Heights <- MCHeights
    InitHeight = 2
    MaxRow = 4
    MaxLines = 4
    MaxResizes = 2
SPECIFICATION Spec
INVARIANTS TypeOK InRegionUnlessStrayed BufferFits
PROPERTIES NewlineScrolls ScrollbackKept FilledScreenDropsNothing
CHECK_DEADLOCK FALSE
