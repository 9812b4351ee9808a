SPECIFICATION Spec
CHECK_DEADLOCK FALSE
CONSTANTS
    Chunks = {c1, c2, c3}
    Bytes = {0, 1}
    Zero = 0
    NoByte = NoByte
    MaxSize = 4
    WriteArgs <- MCWriteArgs
    ReadArgs <- MCReadArgs
INVARIANTS TypeOK Partition
PROPERTIES FailedWriteKeepsSpace ImplementsChunkStore
