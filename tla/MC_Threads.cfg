\* SaverThreads: the engine's concurrent calls on one saver (PassScript)
CONSTANTS
    Threads = {t1, t2}
    t1 = t1
    t2 = t2
    x = x
    y = y
    ERROR = ERROR
    v1 = v1
    v2 = v2
    k1 = k1
    k2 = k2
    Values = {v1, v2}
    Tasks = {k1, k2}
    MaxWrites = 2
    None = None
    Empty = Empty
    Ids <- MCIds
    Versions <- MCVersions
    Channels <- MCChannels
    WriteChannels <- MCWriteChannels
    WritesIdxMap <- MCWritesIdxMap
    Script <- PassScript
    Preloaded <- TwoThreads
SPECIFICATION Spec
INVARIANT VersionsResolve
INVARIANT PutDurable
INVARIANT ReadsCommitted
PROPERTY WritesKept
