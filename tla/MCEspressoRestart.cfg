SPECIFICATION SpecFiles
CHECK_DEADLOCK FALSE
CONSTANTS
    Chunks = {c1, c2}
    Bytes = {0, 1}
    Zero = 0
    NoByte = NoByte
    MaxSize = 3
    WriteArgs <- MCWriteArgs
    ReadArgs <- MCReadArgs
    GrowBy = 8
PROPERTY RestartKeepsChunks
