\* The input channel: four-symbol chunks are cut inside key sequences,
\* and a chunk with two two-byte characters does not fit.
CONSTANTS
    Chars = {"a", "e"}
    Codes = {"k1"}
    Esc = "esc["
    VkEnd = "VK"
    Width <- MCWidth
    Texts <- MCTexts
    Chunk = 4
    InputSize = 6
    MaxTyped = 7
SPECIFICATION FairSpec
INVARIANTS TypeOK NoLossNoDup KeysWholeUnlessCut
PROPERTIES ImplementsFifo PutIsDelivered
CHECK_DEADLOCK FALSE
