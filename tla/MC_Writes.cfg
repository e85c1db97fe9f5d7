\* A runner stages, on the checkpoint it holds, repeated batches of up to
\* two writes of one task, to an ordinary channel and to the reserved ERROR
\* channel (distinct tasks only make the keys distinct).
CONSTANTS
    Threads = {t1}
    Namespaces = {n0}
    Values = {v1, v2}
    Tasks = {k1}
    Runners = {r1}
    ERROR = ERROR
    x = x
    y = y
    Channels <- MCChannels
    WriteChannels <- MCWriteChannels
    WritesIdxMap <- MCWritesIdxMap
    MaxWrites = 2
    MaxCheckpoints = 1
    None = None
    Empty = Empty
    DeleteWhileActive = FALSE

SPECIFICATION Spec
PROPERTY StoreSpec
SYMMETRY MCSymmetry
