SPECIFICATION FileSpec
CHECK_DEADLOCK FALSE
CONSTANTS
    StripeSizes = {1, 2, 3, 4, 5, 6}
    ChunkSizes = {1, 2, 3, 4}
    Counts = {1, 2, 5}
    FileIds = {1, 2, 3}
    MaxFile = 13
INVARIANTS BytesWhereDivisionPutsThem ReadsAskForTheRange PiecesInKeyOrder
